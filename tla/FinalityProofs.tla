--------------------------- MODULE FinalityProofs ---------------------------
(***************************************************************************)
(* A settlement that is final has the evidence and the receipt of its      *)
(* finality, and what was issued and printed stays as it is, for every     *)
(* number of attempts, composites and workers.  Then the returns of what   *)
(* it paid: what came back was delivered, and the facility is given back   *)
(* no more than the drawdown, for every number of returns and repayments.  *)
(***************************************************************************)
EXTENDS Finality, Returns, CommonProofs

(***************************************************************************)
(* No resume leads back into a final status.                               *)
(***************************************************************************)
EnteredFromLive == settlement.enteredFrom \notin TerminalStatuses

(***************************************************************************)
(* MATCHED is reached with the promised amount only, observed or asserted. *)
(***************************************************************************)
MatchedAsPromised == reconciliation.status = "MATCHED" => reconciliation.observed = Expected

(***************************************************************************)
(* The attempt the settlement names paid the authorized version.           *)
(***************************************************************************)
AuthorizedVersionPaid == attempts[Pointer].version = 1

(***************************************************************************)
(* A reconciliation that was opened in time finds the settlement in        *)
(* RECONCILING, in an exception entered from there, or SETTLED.            *)
(***************************************************************************)
OpenedInTime ==
  IF reconciliation.status = "NONE"
    THEN ~reconciliation.early
    ELSE reconciliation.early \/ PhaseOf(settlement) \in {"RECONCILING", "SETTLED"}

(***************************************************************************)
(* Who writes an object is alone with it, and it is still empty.           *)
(***************************************************************************)
SoleWriter ==
  \A w \in Workers : printing[w].at = "WRITING" =>
    /\ store[printing[w].id] = "EMPTY"
    /\ \A v \in Workers : printing[v].at = "WRITING" /\ printing[v].id = printing[w].id => v = w

JobsInHand ==
  \A w \in Workers : printing[w].at # "IDLE" => printing[w].id \in ArtifactIds

(***************************************************************************)
(* The part about the settlement, its payout and its reconciliation.       *)
(***************************************************************************)
LegInv ==
  /\ settlement \in Rows
  /\ attempts \in [AttemptNumbers ->
       [status : {"NONE", "SUBMITTED", "CREDITED", "REJECTED", "UNKNOWN", "RETURNED"},
        version : 0..1]]
  /\ facilityStatus \in {"ACTIVE", "SUSPENDED"}
  /\ currentVersion \in {1, 2}
  /\ reconciliation \in
       [status : {"NONE", "PENDING", "MATCHED", "MISMATCH", "MANUAL_REVIEW"},
        observed : Int, delta : Int, operator : BOOLEAN, early : BOOLEAN]
  /\ ReconciliationChecks(reconciliation)
  /\ evaluation \subseteq {"F2", "F3", "F4", "F5", "F6", "X2"}
  /\ EnteredFromLive
  /\ MatchedAsPromised
  /\ AuthorizedVersionPaid
  /\ OpenedInTime
  /\ SettledOnEvidence

(***************************************************************************)
(* The part about the artifacts and their printing.                        *)
(***************************************************************************)
PrintInv ==
  /\ \A a \in artifacts : a.id \in ArtifactIds /\ a.content \in Receipts
  /\ \A a, b \in artifacts : a.id = b.id => a = b
  /\ jobs \subseteq ArtifactIds
  /\ store \in [ArtifactIds -> {"NONE", "EMPTY"} \cup Workers]
  /\ printing \in [Workers -> [id : ArtifactIds \cup {"NONE"},
                               at : {"IDLE", "RENDERING", "WRITING"}]]
  /\ SoleWriter
  /\ JobsInHand

FinalityIInv == LegInv /\ PrintInv /\ ReceiptTellsTheSettlement

(***************************************************************************)
(* It is all that the run's invariant says, and more.                      *)
(***************************************************************************)
LEMMA FinalityIInvImplies == FinalityIInv => FinalityIsBacked
BY DEF FinalityIInv, LegInv, PrintInv, FinalityIsBacked, FinalityTypeOK

-----------------------------------------------------------------------------
(* The transitions of the last leg *)

(***************************************************************************)
(* Where the triggers of this component lead from and to.                  *)
(***************************************************************************)
LegRow(t) ==
  /\ t.trigger = "payout_credited" => t.from = {"PAYOUT_SUBMITTED"} /\ t.to = "PAYOUT_CONFIRMED"
  /\ t.trigger \in {"payout_rejected", "payout_timeout"} =>
       t.from = {"PAYOUT_SUBMITTED"} /\ t.to = "EXCEPTION"
  /\ t.trigger = "begin_reconciliation" => t.from = {"PAYOUT_CONFIRMED"} /\ t.to = "RECONCILING"
  /\ t.trigger = "reconciled_matched" => t.from = {"RECONCILING"} /\ t.to = "SETTLED"
  /\ t.trigger \in {"reconciled_mismatch", "reconciliation_stalled"} =>
       t.from = {"RECONCILING"} /\ t.to = "EXCEPTION"
  /\ t.trigger = "resolve_resume" => t.from = {"EXCEPTION"} /\ t.to = "ENTERED_FROM"

LegTriggers ==
  {"payout_credited", "payout_rejected", "payout_timeout", "begin_reconciliation",
   "reconciled_matched", "reconciled_mismatch", "reconciliation_stalled", "resolve_resume"}

(***************************************************************************)
(* It holds of every row of the table.                                     *)
(***************************************************************************)
LEMMA LegTableFacts == \A t \in Transitions : LegRow(t)
<1>1. \A t \in PreparationTransitions : LegRow(t)
  BY DEF PreparationTransitions, Transition, LegRow
<1>2. \A t \in FundingTransitions : LegRow(t)
  BY DEF FundingTransitions, Transition, LegRow
<1>3. \A t \in PayoutTransitions : LegRow(t)
  BY DEF PayoutTransitions, Transition, LegRow
<1>4. \A t \in ResolutionTransitions : LegRow(t)
  BY DEF ResolutionTransitions, Transition, LegRow
<1>5. \A t \in CancellationTransitions : LegRow(t)
  BY DEF CancellationTransitions, Transition, LegRow
<1>6. \A t \in SweeperTransitions : LegRow(t)
  BY DEF SweeperTransitions, Transition, LegRow
<1> QED
  BY <1>1, <1>2, <1>3, <1>4, <1>5, <1>6 DEF Transitions

(***************************************************************************)
(* T20 is the only way into SETTLED, nothing leaves it, and what was ever  *)
(* reconciling stays so, through its exceptions and their resumes, until   *)
(* it is SETTLED.                                                          *)
(***************************************************************************)
LEMMA LegTransition ==
  ASSUME settlement \in Rows, EnteredFromLive,
         NEW trigger \in LegTriggers, NEW answers, applyTransition(trigger, answers)
  PROVE  /\ settlement' \in Rows
         /\ EnteredFromLive'
         /\ settlement.status = "SETTLED" => settlement' = settlement
         /\ settlement'.status = "SETTLED" /\ settlement.status # "SETTLED" =>
              trigger = "reconciled_matched"
         /\ PhaseOf(settlement) \in {"RECONCILING", "SETTLED"} =>
              PhaseOf(settlement') \in {"RECONCILING", "SETTLED"}
<1>1. CASE Refused(settlement, trigger, answers)
  <2>1. settlement' = settlement
    BY <1>1 DEF applyTransition
  <2> QED
    BY <2>1 DEF EnteredFromLive
<1>2. CASE ~Refused(settlement, trigger, answers)
  <2>1. PICK t \in Permitted(settlement, trigger, answers) :
          settlement' = Applied(settlement, t) /\ ProtectSettlementRow(settlement, settlement')
    BY <1>2 DEF applyTransition
  <2>2. /\ t \in Transitions /\ t.trigger = trigger /\ settlement.status \in t.from
        /\ settlement' \in Rows
    BY <2>1, AppliedIsRow
  <2>3. LegRow(t)
    BY <2>2, LegTableFacts
  <2>4. settlement.status \notin TerminalStatuses
    BY <2>1 DEF ProtectSettlementRow
  <2>5. /\ settlement'.status = Destination(settlement, t)
        /\ settlement'.enteredFrom =
             IF t.to = "EXCEPTION" THEN settlement.status ELSE settlement.enteredFrom
    BY <2>1 DEF Applied
  <2>6. EnteredFromLive'
    BY <2>4, <2>5 DEF EnteredFromLive
  <2>7. settlement'.status = "SETTLED" => trigger = "reconciled_matched"
    BY <2>2, <2>3, <2>5 DEF LegRow, LegTriggers, Destination, EnteredFromLive, TerminalStatuses
  <2>8. ASSUME PhaseOf(settlement) \in {"RECONCILING", "SETTLED"}
        PROVE  PhaseOf(settlement') \in {"RECONCILING", "SETTLED"}
    <3>1. CASE settlement.status = "EXCEPTION"
      <4>1. trigger = "resolve_resume" /\ t.to = "ENTERED_FROM"
        BY <2>2, <2>3, <3>1 DEF LegRow, LegTriggers
      <4> QED
        BY <2>5, <2>8, <3>1, <4>1 DEF PhaseOf, Destination
    <3>2. CASE settlement.status # "EXCEPTION"
      <4>1. settlement.status = "RECONCILING"
        BY <2>4, <2>8, <3>2 DEF PhaseOf, TerminalStatuses
      <4>2. t.to = "SETTLED" \/ t.to = "EXCEPTION"
        BY <2>2, <2>3, <4>1 DEF LegRow, LegTriggers
      <4> QED
        BY <2>5, <4>1, <4>2 DEF PhaseOf, Destination
    <3> QED
      BY <3>1, <3>2
  <2> QED
    BY <2>2, <2>4, <2>6, <2>7, <2>8 DEF TerminalStatuses
<1> QED
  BY <1>1, <1>2

(***************************************************************************)
(* T19 that is not refused opens the reconciling phase.                    *)
(***************************************************************************)
LEMMA BegunIsReconciling ==
  ASSUME settlement \in Rows, applyTransition("begin_reconciliation", {}),
         ~Refused(settlement, "begin_reconciliation", {})
  PROVE  settlement'.status = "RECONCILING"
<1>1. PICK t \in Permitted(settlement, "begin_reconciliation", {}) :
        settlement' = Applied(settlement, t)
  BY DEF applyTransition
<1>2. t.to = "RECONCILING"
  BY <1>1, AppliedIsRow, LegTableFacts DEF LegRow
<1> QED
  BY <1>1, <1>2 DEF Applied, Destination

(***************************************************************************)
(* T20 is refused to nothing that is RECONCILING.                          *)
(***************************************************************************)
LEMMA MatchedIsSettled ==
  ASSUME settlement \in Rows, settlement.status = "RECONCILING",
         applyTransition("reconciled_matched", {"finality_conditions_met"})
  PROVE  settlement'.status = "SETTLED"
<1>1. PICK u \in PayoutTransitions :
        u = Transition({"RECONCILING"}, "reconciled_matched", "SETTLED", {"finality_conditions_met"})
  BY DEF PayoutTransitions
<1>2. u \in Permitted(settlement, "reconciled_matched", {"finality_conditions_met"})
  BY <1>1 DEF Permitted, Transition, Transitions
<1>3. PICK t \in Permitted(settlement, "reconciled_matched", {"finality_conditions_met"}) :
        settlement' = Applied(settlement, t)
  BY <1>2 DEF applyTransition, Refused
<1>4. t.to = "SETTLED"
  BY <1>3, AppliedIsRow, LegTableFacts DEF LegRow
<1> QED
  BY <1>3, <1>4 DEF Applied, Destination

-----------------------------------------------------------------------------
(* Steps of the settlement, its payout and its reconciliation *)

(***************************************************************************)
(* A step that prints nothing and settles nothing leaves receipts true.    *)
(***************************************************************************)
LEMMA LegStepKeepsInv ==
  ASSUME FinalityIInv, UNCHANGED printVars, LegInv',
         settlement'.status = "SETTLED" => settlement.status = "SETTLED",
         settlement.status = "SETTLED" => settlement' = settlement,
         reconciliation.early => reconciliation'.early
  PROVE  FinalityIInv'
<1>1. UNCHANGED <<artifacts, jobs, store, printing>>
  BY DEF printVars
<1>2. PrintInv'
  BY <1>1 DEF FinalityIInv, PrintInv, SoleWriter, JobsInHand
<1>3. attempts'[Pointer].version = attempts[Pointer].version
  BY DEF FinalityIInv, LegInv, AuthorizedVersionPaid
<1>4. readArtifact("receipt")' = readArtifact("receipt")
  BY <1>1 DEF readArtifact
<1>5. ReceiptTellsTheSettlement'
  BY <1>3, <1>4 DEF FinalityIInv, ReceiptTellsTheSettlement
<1> QED
  BY <1>2, <1>5 DEF FinalityIInv

(***************************************************************************)
(* An outcome of an attempt: a credited attempt takes none.                *)
(***************************************************************************)
LEMMA PayoutOutcomeKeepsInv ==
  ASSUME FinalityIInv, NEW n \in AttemptNumbers,
         NEW from \in SUBSET {"SUBMITTED", "UNKNOWN"},
         NEW to \in {"CREDITED", "REJECTED", "UNKNOWN"},
         NEW trigger \in {"payout_credited", "payout_rejected", "payout_timeout"}, NEW answers,
         payoutOutcome(n, from, to, trigger, answers)
  PROVE  FinalityIInv'
<1>1. LegInv
  BY DEF FinalityIInv
<1>2. /\ attempts[n].status \in from
      /\ attempts' = [attempts EXCEPT ![n].status = to]
      /\ applyTransition(trigger, answers)
      /\ UNCHANGED <<facilityStatus, currentVersion, reconciliation, evaluation>>
      /\ UNCHANGED printVars
  BY DEF payoutOutcome
<1>3. trigger \in LegTriggers /\ trigger # "reconciled_matched"
  BY DEF LegTriggers
<1>4. /\ settlement' \in Rows
      /\ EnteredFromLive'
      /\ settlement.status = "SETTLED" => settlement' = settlement
      /\ settlement'.status = "SETTLED" => settlement.status = "SETTLED"
      /\ PhaseOf(settlement) \in {"RECONCILING", "SETTLED"} =>
           PhaseOf(settlement') \in {"RECONCILING", "SETTLED"}
  BY <1>1, <1>2, <1>3, LegTransition DEF LegInv
<1>5. attempts' \in [AttemptNumbers ->
        [status : {"NONE", "SUBMITTED", "CREDITED", "REJECTED", "UNKNOWN", "RETURNED"},
         version : 0..1]]
  BY <1>1, <1>2 DEF LegInv
<1>6. Pointer \in AttemptNumbers
  BY FinalityAssumption DEF Pointer, AttemptNumbers
<1>7. /\ attempts'[Pointer].version = attempts[Pointer].version
      /\ attempts[Pointer].status \in {"CREDITED", "RETURNED"} =>
           attempts'[Pointer].status = attempts[Pointer].status
  BY <1>1, <1>2, <1>6 DEF LegInv
<1>8. LegInv'
  BY <1>1, <1>2, <1>4, <1>5, <1>7 DEF LegInv, MatchedAsPromised, AuthorizedVersionPaid,
     OpenedInTime, SettledOnEvidence, ReconciliationChecks
<1> QED
  BY <1>2, <1>4, <1>8, LegStepKeepsInv

(***************************************************************************)
(* A return moves a credited attempt to RETURNED, which is evidence too; a *)
(* retry writes an attempt after the one the settlement names.             *)
(***************************************************************************)
LEMMA ReturnedKeepsInv ==
  ASSUME FinalityIInv, NEW n \in AttemptNumbers, returned(n)
  PROVE  FinalityIInv'
<1>1. LegInv
  BY DEF FinalityIInv
<1>2. /\ attempts' = [attempts EXCEPT ![n].status = "RETURNED"]
      /\ UNCHANGED <<settlement, facilityStatus, currentVersion, reconciliation, evaluation>>
      /\ UNCHANGED printVars
  BY DEF returned
<1>3. Pointer \in AttemptNumbers
  BY FinalityAssumption DEF Pointer, AttemptNumbers
<1>4. /\ attempts' \in [AttemptNumbers ->
           [status : {"NONE", "SUBMITTED", "CREDITED", "REJECTED", "UNKNOWN", "RETURNED"},
            version : 0..1]]
      /\ attempts'[Pointer].version = attempts[Pointer].version
      /\ attempts'[Pointer].status \in {attempts[Pointer].status, "RETURNED"}
  BY <1>1, <1>2, <1>3 DEF LegInv
<1>5. LegInv'
  BY <1>1, <1>2, <1>4 DEF LegInv, EnteredFromLive, MatchedAsPromised, AuthorizedVersionPaid,
     OpenedInTime, SettledOnEvidence, ReconciliationChecks
<1> QED
  BY <1>2, <1>5, LegStepKeepsInv

(***************************************************************************)
(* A retry opens the next attempt and leaves the one the settlement names  *)
(* alone (retryPayout).                                                    *)
(***************************************************************************)
LEMMA RetryPayoutKeepsInv ==
  ASSUME FinalityIInv, NEW n \in AttemptNumbers, retryPayout(n)
  PROVE  FinalityIInv'
<1>1. LegInv
  BY DEF FinalityIInv
<1>2. /\ n + 1 \in AttemptNumbers
      /\ attempts' = [attempts EXCEPT ![n + 1] = [status |-> "SUBMITTED",
                                                  version |-> attempts[n].version]]
      /\ UNCHANGED <<settlement, facilityStatus, currentVersion, reconciliation, evaluation>>
      /\ UNCHANGED printVars
  BY DEF retryPayout
<1>3. Pointer # n + 1 /\ Pointer \in AttemptNumbers
  BY FinalityAssumption DEF Pointer, AttemptNumbers
<1>4. attempts[n].version \in 0..1
  BY <1>1 DEF LegInv
<1>5. /\ attempts' \in [AttemptNumbers ->
           [status : {"NONE", "SUBMITTED", "CREDITED", "REJECTED", "UNKNOWN", "RETURNED"},
            version : 0..1]]
      /\ attempts'[Pointer] = attempts[Pointer]
  BY <1>1, <1>2, <1>3, <1>4 DEF LegInv
<1>6. LegInv'
  BY <1>1, <1>2, <1>5 DEF LegInv, EnteredFromLive, MatchedAsPromised, AuthorizedVersionPaid,
     OpenedInTime, SettledOnEvidence, ReconciliationChecks
<1> QED
  BY <1>2, <1>6, LegStepKeepsInv

(***************************************************************************)
(* The facility, the destination and a resume touch no evidence.           *)
(***************************************************************************)
LEMMA SurroundingsKeepInv ==
  ASSUME FinalityIInv,
         \/ resolveResume
         \/ \E status \in {"ACTIVE", "SUSPENDED"} : setFacilityStatus(status)
         \/ changeDestination
  PROVE  FinalityIInv'
<1>1. LegInv
  BY DEF FinalityIInv
<1>2. CASE resolveResume
  <2>1. /\ applyTransition("resolve_resume", {"resolution_attributed"})
        /\ settlement.status = "EXCEPTION"
        /\ UNCHANGED <<attempts, facilityStatus, currentVersion, reconciliation, evaluation>>
        /\ UNCHANGED printVars
    BY <1>2 DEF resolveResume
  <2>2. /\ settlement' \in Rows
        /\ EnteredFromLive'
        /\ settlement'.status # "SETTLED"
        /\ PhaseOf(settlement) \in {"RECONCILING", "SETTLED"} =>
             PhaseOf(settlement') \in {"RECONCILING", "SETTLED"}
    BY <1>1, <2>1, LegTransition DEF LegInv, LegTriggers
  <2>3. LegInv'
    BY <1>1, <2>1, <2>2 DEF LegInv, MatchedAsPromised, AuthorizedVersionPaid,
       OpenedInTime, SettledOnEvidence, ReconciliationChecks
  <2> QED
    BY <2>1, <2>2, <2>3, LegStepKeepsInv
<1>3. CASE \E status \in {"ACTIVE", "SUSPENDED"} : setFacilityStatus(status)
  <2>1. /\ facilityStatus' \in {"ACTIVE", "SUSPENDED"}
        /\ UNCHANGED <<settlement, attempts, currentVersion, reconciliation, evaluation>>
        /\ UNCHANGED printVars
    BY <1>3 DEF setFacilityStatus, payoutVars
  <2>2. LegInv'
    BY <1>1, <2>1 DEF LegInv, EnteredFromLive, MatchedAsPromised, AuthorizedVersionPaid,
       OpenedInTime, SettledOnEvidence, ReconciliationChecks
  <2> QED
    BY <2>1, <2>2, LegStepKeepsInv
<1>4. CASE changeDestination
  <2>1. /\ currentVersion' = 2
        /\ UNCHANGED <<settlement, attempts, facilityStatus, reconciliation, evaluation>>
        /\ UNCHANGED printVars
    BY <1>4 DEF changeDestination, payoutVars
  <2>2. LegInv'
    BY <1>1, <2>1 DEF LegInv, EnteredFromLive, MatchedAsPromised, AuthorizedVersionPaid,
       OpenedInTime, SettledOnEvidence, ReconciliationChecks
  <2> QED
    BY <2>1, <2>2, LegStepKeepsInv
<1> QED
  BY <1>2, <1>3, <1>4

(***************************************************************************)
(* The reconciliation's table: an answered question stays answered, and    *)
(* only a matching observation or an operator answers it with MATCHED.     *)
(***************************************************************************)
LEMMA ReconciledFacts ==
  ASSUME NEW from, NEW trigger, NEW to \in Reconciled(from, trigger)
  PROVE  /\ from # "MATCHED"
         /\ from = "NONE" <=> trigger = "begin"
         /\ to \in {"PENDING", "MATCHED", "MISMATCH", "MANUAL_REVIEW"}
         /\ to = "MATCHED" <=> trigger \in {"observed_matching", "resolve_matched"}
BY DEF Reconciled, ReconciliationTransitions

(***************************************************************************)
(* A step of an open reconciliation, taken with a transition of the        *)
(* settlement or without one.                                              *)
(***************************************************************************)
LEMMA ReconciliationKeepsInv ==
  ASSUME FinalityIInv,
         reconciliation.status \notin {"NONE", "MATCHED"},
         reconciliation' \in
           [status : {"NONE", "PENDING", "MATCHED", "MISMATCH", "MANUAL_REVIEW"},
            observed : Int, delta : Int, operator : BOOLEAN, early : BOOLEAN],
         reconciliation'.status # "NONE", reconciliation'.early = reconciliation.early,
         ReconciliationChecks(reconciliation)', MatchedAsPromised',
         \/ UNCHANGED settlement
         \/ \E trigger \in LegTriggers \ {"reconciled_matched"} : \E answers :
              applyTransition(trigger, answers),
         UNCHANGED <<attempts, facilityStatus, currentVersion, evaluation>>,
         UNCHANGED printVars
  PROVE  FinalityIInv'
<1>1. LegInv /\ settlement.status # "SETTLED"
  BY DEF FinalityIInv, LegInv, SettledOnEvidence
<1>2. /\ settlement' \in Rows
      /\ EnteredFromLive'
      /\ settlement'.status # "SETTLED"
      /\ PhaseOf(settlement) \in {"RECONCILING", "SETTLED"} =>
           PhaseOf(settlement') \in {"RECONCILING", "SETTLED"}
  <2>1. CASE UNCHANGED settlement
    BY <1>1, <2>1 DEF LegInv, EnteredFromLive
  <2>2. CASE \E trigger \in LegTriggers \ {"reconciled_matched"} : \E answers :
               applyTransition(trigger, answers)
    BY <1>1, <2>2, LegTransition DEF LegInv
  <2> QED
    BY <2>1, <2>2
<1>3. LegInv'
  BY <1>1, <1>2 DEF LegInv, AuthorizedVersionPaid, OpenedInTime, SettledOnEvidence
<1> QED
  BY <1>1, <1>2, <1>3, LegStepKeepsInv

(***************************************************************************)
(* T19 with R01: a row opened in time opens the reconciling phase, any     *)
(* other is marked early.                                                  *)
(***************************************************************************)
LEMMA BeginReconciliationKeepsInv ==
  ASSUME FinalityIInv, beginReconciliation
  PROVE  FinalityIInv'
<1>1. LegInv
  BY DEF FinalityIInv
<1>2. PICK to \in Reconciled(reconciliation.status, "begin") :
        reconciliation' = [NoReconciliation EXCEPT
          !.status = to, !.early = Refused(settlement, "begin_reconciliation", {})]
  BY DEF beginReconciliation
<1>3. /\ settlement.status \notin TerminalStatuses
      /\ applyTransition("begin_reconciliation", {})
      /\ UNCHANGED <<attempts, facilityStatus, currentVersion, evaluation>>
      /\ UNCHANGED printVars
  BY DEF beginReconciliation
<1>4. to = "PENDING" /\ reconciliation.status = "NONE"
  BY <1>2 DEF Reconciled, ReconciliationTransitions
<1>5. PICK early \in BOOLEAN :
        /\ early <=> Refused(settlement, "begin_reconciliation", {})
        /\ reconciliation' = [NoReconciliation EXCEPT !.status = to, !.early = early]
  <2>1. CASE Refused(settlement, "begin_reconciliation", {}) = TRUE
    BY <1>2, <2>1
  <2>2. CASE Refused(settlement, "begin_reconciliation", {}) = FALSE
    BY <1>2, <2>2
  <2>3. Refused(settlement, "begin_reconciliation", {}) \in BOOLEAN
    BY DEF Refused
  <2> QED
    BY <2>1, <2>2, <2>3
<1>6. /\ reconciliation'.status = "PENDING"
      /\ Refused(settlement, "begin_reconciliation", {}) => reconciliation'.early
      /\ reconciliation' \in
           [status : {"NONE", "PENDING", "MATCHED", "MISMATCH", "MANUAL_REVIEW"},
            observed : Int, delta : Int, operator : BOOLEAN, early : BOOLEAN]
  <2>1. reconciliation' = [status |-> "PENDING", observed |-> NoAmount, delta |-> 0,
                           operator |-> FALSE, early |-> early]
    BY <1>4, <1>5 DEF NoReconciliation
  <2>2. NoAmount \in Int
    BY DEF NoAmount
  <2>3. /\ reconciliation'.status = "PENDING"
        /\ reconciliation' \in
             [status : {"NONE", "PENDING", "MATCHED", "MISMATCH", "MANUAL_REVIEW"},
              observed : Int, delta : Int, operator : BOOLEAN, early : BOOLEAN]
    BY <2>1, <2>2
  <2>4. reconciliation'.early = early
    BY <2>1
  <2>5. Refused(settlement, "begin_reconciliation", {}) => reconciliation'.early
    BY <1>5, <2>4, Zenon
  <2> QED
    BY <2>3, <2>5
<1>7. /\ settlement' \in Rows
      /\ EnteredFromLive'
      /\ settlement'.status # "SETTLED" /\ settlement.status # "SETTLED"
  BY <1>1, <1>3, LegTransition DEF LegInv, LegTriggers, TerminalStatuses
<1>8. OpenedInTime'
  <2>1. CASE Refused(settlement, "begin_reconciliation", {})
    BY <1>6, <2>1 DEF OpenedInTime
  <2>2. CASE ~Refused(settlement, "begin_reconciliation", {})
    <3>1. settlement'.status = "RECONCILING"
      BY <1>1, <1>3, <2>2, BegunIsReconciling DEF LegInv
    <3> QED
      BY <1>6, <3>1 DEF OpenedInTime, PhaseOf
  <2> QED
    BY <2>1, <2>2
<1>9. LegInv'
  BY <1>1, <1>3, <1>6, <1>7, <1>8 DEF LegInv, MatchedAsPromised, AuthorizedVersionPaid,
     SettledOnEvidence, ReconciliationChecks
<1>10. ReceiptTellsTheSettlement'
  <2>1. readArtifact("receipt")' = readArtifact("receipt")
    BY <1>3 DEF readArtifact, printVars
  <2>2. readArtifact("receipt") = {}
    BY <1>1, <1>4, <1>7 DEF FinalityIInv, LegInv, OpenedInTime, ReceiptTellsTheSettlement
  <2> QED
    BY <1>7, <2>1, <2>2 DEF ReceiptTellsTheSettlement
<1>11. PrintInv'
  BY <1>3 DEF FinalityIInv, PrintInv, SoleWriter, JobsInHand, printVars
<1> QED
  BY <1>9, <1>10, <1>11 DEF FinalityIInv

(***************************************************************************)
(* R02, and R03 with R05 and T21.                                          *)
(***************************************************************************)
LEMMA ApplyObservationKeepsInv ==
  ASSUME FinalityIInv, NEW amount \in Amounts \cup {NoAmount}, NEW same \in BOOLEAN,
         applyObservation(amount, same)
  PROVE  FinalityIInv'
<1> DEFINE verdict == compareObservation(amount, same)
           answer(status) == [reconciliation EXCEPT
             !.status = status, !.observed = amount, !.delta = verdict.delta]
<1>1. /\ LegInv
      /\ ReconciliationChecks(reconciliation)'
      /\ UNCHANGED <<attempts, facilityStatus, currentVersion, evaluation>>
      /\ UNCHANGED printVars
  BY DEF FinalityIInv, applyObservation
<1>2. PICK to \in Reconciled(reconciliation.status, verdict.trigger) :
        IF verdict.trigger = "observed_matching"
          THEN reconciliation' = answer(to) /\ UNCHANGED settlement
          ELSE /\ \E review \in Reconciled(to, "escalate") : reconciliation' = answer(review)
               /\ applyTransition("reconciled_mismatch", {"non_zero_delta"})
  BY DEF applyObservation
<1>3. /\ amount \in Int /\ verdict.delta \in Int
      /\ verdict.trigger \in {"observed_matching", "observed_differing"}
      /\ verdict.trigger = "observed_matching" => amount = Expected
  BY FinalityAssumption DEF Amounts, NoAmount, compareObservation
<1>4. reconciliation.status \notin {"NONE", "MATCHED"}
  BY <1>2, <1>3, ReconciledFacts
<1>5. PICK status \in {"PENDING", "MATCHED", "MISMATCH", "MANUAL_REVIEW"} :
        /\ reconciliation' = answer(status)
        /\ status = "MATCHED" => amount = Expected
        /\ UNCHANGED settlement \/ applyTransition("reconciled_mismatch", {"non_zero_delta"})
  <2>1. CASE verdict.trigger = "observed_matching"
    <3>1. /\ to \in {"PENDING", "MATCHED", "MISMATCH", "MANUAL_REVIEW"}
          /\ reconciliation' = answer(to) /\ UNCHANGED settlement
          /\ amount = Expected
      BY <1>2, <1>3, <2>1, ReconciledFacts
    <3> QED
      BY <3>1
  <2>2. CASE verdict.trigger # "observed_matching"
    <3>1. PICK review \in Reconciled(to, "escalate") : reconciliation' = answer(review)
      BY <1>2, <2>2
    <3>2. review \in {"PENDING", "MISMATCH", "MANUAL_REVIEW"}
      BY <3>1, ReconciledFacts
    <3> QED
      BY <1>2, <2>2, <3>1, <3>2
  <2> QED
    BY <2>1, <2>2
<1> HIDE DEF verdict
<1>6. /\ reconciliation' \in
           [status : {"NONE", "PENDING", "MATCHED", "MISMATCH", "MANUAL_REVIEW"},
            observed : Int, delta : Int, operator : BOOLEAN, early : BOOLEAN]
      /\ reconciliation'.early = reconciliation.early
      /\ reconciliation'.status = status /\ reconciliation'.observed = amount
  BY <1>1, <1>3, <1>5 DEF LegInv
<1>7. MatchedAsPromised'
  BY <1>5, <1>6 DEF MatchedAsPromised
<1>8. \/ UNCHANGED settlement
      \/ \E trigger \in LegTriggers \ {"reconciled_matched"} : \E answers :
           applyTransition(trigger, answers)
  BY <1>5 DEF LegTriggers
<1> QED
  BY <1>1, <1>4, <1>6, <1>7, <1>8, ReconciliationKeepsInv

(***************************************************************************)
(* R04 with T30.                                                           *)
(***************************************************************************)
LEMMA SweepReconciliationSlaKeepsInv ==
  ASSUME FinalityIInv, sweepReconciliationSla
  PROVE  FinalityIInv'
<1>1. PICK to \in Reconciled(reconciliation.status, "observation_overdue") :
        reconciliation' = [reconciliation EXCEPT !.status = to]
  BY DEF sweepReconciliationSla
<1>2. /\ LegInv
      /\ applyTransition("reconciliation_stalled", {"reconciliation_sla_elapsed"})
      /\ UNCHANGED <<attempts, facilityStatus, currentVersion, evaluation>>
      /\ UNCHANGED printVars
  BY DEF FinalityIInv, sweepReconciliationSla
<1>3. /\ reconciliation.status \notin {"NONE", "MATCHED"}
      /\ to \in {"PENDING", "MISMATCH", "MANUAL_REVIEW"}
  BY <1>1, ReconciledFacts
<1>4. /\ reconciliation' \in
           [status : {"NONE", "PENDING", "MATCHED", "MISMATCH", "MANUAL_REVIEW"},
            observed : Int, delta : Int, operator : BOOLEAN, early : BOOLEAN]
      /\ reconciliation'.early = reconciliation.early
      /\ reconciliation'.status = to
  BY <1>1, <1>2, <1>3 DEF LegInv
<1>5. ReconciliationChecks(reconciliation)' /\ MatchedAsPromised'
  BY <1>3, <1>4 DEF ReconciliationChecks, MatchedAsPromised
<1>6. \E trigger \in LegTriggers \ {"reconciled_matched"} : \E answers :
        applyTransition(trigger, answers)
  BY <1>2 DEF LegTriggers
<1> QED
  BY <1>2, <1>3, <1>4, <1>5, <1>6, ReconciliationKeepsInv

(***************************************************************************)
(* R06 and R07.                                                            *)
(***************************************************************************)
LEMMA ResolveReconciliationKeepsInv ==
  ASSUME FinalityIInv, NEW trigger, resolveReconciliation(trigger)
  PROVE  FinalityIInv'
<1>1. PICK to \in Reconciled(reconciliation.status, trigger) :
        reconciliation' = IF to = "MATCHED"
          THEN [reconciliation EXCEPT !.status = to, !.operator = TRUE,
                                      !.observed = Expected, !.delta = 0]
          ELSE [reconciliation EXCEPT !.status = to, !.operator = TRUE]
  BY DEF resolveReconciliation
<1>2. /\ LegInv
      /\ trigger \in {"resolve_matched", "resolve_unresolvable"}
      /\ ReconciliationChecks(reconciliation)'
      /\ UNCHANGED <<settlement, attempts, facilityStatus, currentVersion, evaluation>>
      /\ UNCHANGED printVars
  BY DEF FinalityIInv, resolveReconciliation, payoutVars
<1>3. /\ reconciliation.status \notin {"NONE", "MATCHED"}
      /\ to \in {"PENDING", "MATCHED", "MISMATCH", "MANUAL_REVIEW"}
  BY <1>1, <1>2, ReconciledFacts
<1>4. /\ reconciliation' \in
           [status : {"NONE", "PENDING", "MATCHED", "MISMATCH", "MANUAL_REVIEW"},
            observed : Int, delta : Int, operator : BOOLEAN, early : BOOLEAN]
      /\ reconciliation'.early = reconciliation.early
      /\ reconciliation'.status = to
      /\ to = "MATCHED" => reconciliation'.observed = Expected
  <2>1. CASE to = "MATCHED"
    <3>1. reconciliation' = [reconciliation EXCEPT !.status = to, !.operator = TRUE,
                                                   !.observed = Expected, !.delta = 0]
      BY <1>1, <2>1
    <3>2. reconciliation' = [status |-> to, observed |-> Expected, delta |-> 0,
                             operator |-> TRUE, early |-> reconciliation.early]
      BY <1>2, <3>1 DEF LegInv
    <3>3. reconciliation.early \in BOOLEAN
      BY <1>2 DEF LegInv
    <3> QED
      BY <1>3, <3>2, <3>3, FinalityAssumption
  <2>2. CASE to # "MATCHED"
    <3>1. reconciliation' = [reconciliation EXCEPT !.status = to, !.operator = TRUE]
      BY <1>1, <2>2
    <3> QED
      BY <1>2, <1>3, <2>2, <3>1 DEF LegInv
  <2> QED
    BY <2>1, <2>2
<1>5. MatchedAsPromised'
  BY <1>4 DEF MatchedAsPromised
<1> QED
  BY <1>2, <1>3, <1>4, <1>5, ReconciliationKeepsInv

-----------------------------------------------------------------------------
(* T20 and its receipt *)

(***************************************************************************)
(* What an evaluation with nothing missing says of the snapshot.           *)
(***************************************************************************)
LEMMA NothingMissing ==
  ASSUME evaluateFinality(gatherEvidence) = {}
  PROVE  /\ reconciliation.status = "MATCHED"
         /\ attempts[Pointer].status \in {"CREDITED", "RETURNED"}
         /\ settlement.status # "EXCEPTION"
<1> DEFINE e == gatherEvidence
<1>1. "F5" \notin evaluateFinality(e) /\ "F3" \notin evaluateFinality(e)
      /\ "F6" \notin evaluateFinality(e)
  OBVIOUS
<1>2. F3(e) /\ F5(e) /\ F6(e)
  BY <1>1 DEF evaluateFinality, FINALITY_CONDITIONS
<1> QED
  BY <1>2 DEF F3, F5, F6, gatherEvidence

(***************************************************************************)
(* A new artifact under an id that none has yet.                           *)
(***************************************************************************)
LEMMA PersistKeepsPrintInv ==
  ASSUME PrintInv, NEW id \in ArtifactIds, NEW content \in Receipts,
         readArtifact(id) = {}, persistArtifact(id, content)
  PROVE  PrintInv'
<1>1. /\ artifacts' = artifacts \cup {[id |-> id, content |-> content]}
      /\ jobs' = jobs \cup {id}
      /\ UNCHANGED <<store, printing>>
  BY DEF persistArtifact, enqueueReceiptGeneration
<1>2. \A a \in artifacts : a.id # id
  BY DEF readArtifact
<1>3. \A a \in artifacts' : a.id \in ArtifactIds /\ a.content \in Receipts
  BY <1>1 DEF PrintInv
<1>4. \A a, b \in artifacts' : a.id = b.id => a = b
  BY <1>1, <1>2 DEF PrintInv
<1> QED
  BY <1>1, <1>3, <1>4 DEF PrintInv, SoleWriter, JobsInHand

(***************************************************************************)
(* The receipt is cut from the snapshot the evaluation saw.                *)
(***************************************************************************)
LEMMA EvaluateAndSettleKeepsInv ==
  ASSUME FinalityIInv, evaluateAndSettle
  PROVE  FinalityIInv'
<1>1. LegInv /\ PrintInv /\ ReceiptTellsTheSettlement
  BY DEF FinalityIInv
<1>2. /\ reconciliation.status # "NONE"
      /\ evaluation' = evaluateFinality(gatherEvidence)
      /\ UNCHANGED <<attempts, facilityStatus, currentVersion, reconciliation>>
  BY DEF evaluateAndSettle
<1>3. evaluation' \subseteq {"F2", "F3", "F4", "F5", "F6", "X2"}
  BY <1>2 DEF evaluateFinality, FINALITY_CONDITIONS, DRIFT_CHECKS
<1>4. CASE settlement.status = "SETTLED" \/ evaluation' # {}
  <2>1. UNCHANGED <<settlement, printVars>>
    BY <1>4 DEF evaluateAndSettle
  <2>2. LegInv'
    BY <1>1, <1>2, <1>3, <2>1 DEF LegInv, EnteredFromLive, MatchedAsPromised,
       AuthorizedVersionPaid, OpenedInTime, SettledOnEvidence, ReconciliationChecks
  <2> QED
    BY <1>2, <2>1, <2>2, LegStepKeepsInv
<1>5. CASE ~(settlement.status = "SETTLED" \/ evaluation' # {})
  <2>1. /\ settlement.status # "SETTLED"
        /\ issueReceipt
        /\ applyTransition("reconciled_matched", {"finality_conditions_met"})
    BY <1>5 DEF evaluateAndSettle
  <2>2. /\ reconciliation.status = "MATCHED"
        /\ attempts[Pointer].status \in {"CREDITED", "RETURNED"}
        /\ settlement.status # "EXCEPTION"
    BY <1>2, <1>5, NothingMissing
  <2>3. /\ settlement' \in Rows
        /\ EnteredFromLive'
        /\ PhaseOf(settlement) \in {"RECONCILING", "SETTLED"} =>
             PhaseOf(settlement') \in {"RECONCILING", "SETTLED"}
    BY <1>1, <2>1, LegTransition DEF LegInv, LegTriggers
  <2>4. LegInv'
    BY <1>1, <1>2, <1>3, <2>2, <2>3 DEF LegInv, MatchedAsPromised,
       AuthorizedVersionPaid, OpenedInTime, SettledOnEvidence, ReconciliationChecks
  <2>5. settlement'.status = "SETTLED" \/ reconciliation'.early
    <3>1. CASE reconciliation.early
      BY <1>2, <3>1
    <3>2. CASE ~reconciliation.early
      <4>1. settlement.status = "RECONCILING"
        BY <1>1, <2>1, <2>2, <3>2 DEF LegInv, OpenedInTime, PhaseOf
      <4> QED
        BY <1>1, <2>1, <4>1, MatchedIsSettled DEF LegInv
    <3> QED
      BY <3>1, <3>2
  <2>6. /\ PrintInv'
        /\ readArtifact("receipt")' # {}
        /\ \A r \in readArtifact("receipt")' :
             r.content = [version |-> attempts[Pointer].version, attempt |-> Pointer,
                          recon |-> "MATCHED"]
    <3>1. CASE readArtifact("receipt") # {}
      <4>1. UNCHANGED <<artifacts, jobs, store, printing>>
        BY <2>1, <3>1 DEF issueReceipt, printVars
      <4>2. readArtifact("receipt")' = readArtifact("receipt")
        BY <4>1 DEF readArtifact
      <4>3. PrintInv'
        BY <1>1, <4>1 DEF PrintInv, SoleWriter, JobsInHand
      <4> QED
        BY <1>1, <3>1, <4>2, <4>3 DEF ReceiptTellsTheSettlement
    <3>2. CASE readArtifact("receipt") = {}
      <4>0. PICK text : text = readReceiptSource
        OBVIOUS
      <4>1. persistArtifact("receipt", text)
        BY <2>1, <3>2, <4>0 DEF issueReceipt
      <4>2. text = [version |-> 1, attempt |-> Pointer, recon |-> "MATCHED"]
        BY <2>2, <4>0 DEF readReceiptSource
      <4>3. Pointer \in AttemptNumbers
        BY FinalityAssumption DEF Pointer, AttemptNumbers
      <4>4. text \in Receipts
        BY <4>2, <4>3 DEF Receipts
      <4>5. PrintInv'
        BY <1>1, <3>2, <4>1, <4>4, PersistKeepsPrintInv DEF ArtifactIds
      <4>6. artifacts' = artifacts \cup {[id |-> "receipt", content |-> text]}
        BY <4>1 DEF persistArtifact
      <4>7. readArtifact("receipt")' = {[id |-> "receipt", content |-> text]}
        <5>1. \A a \in artifacts : a.id # "receipt"
          BY <3>2 DEF readArtifact
        <5> QED
          BY <4>6, <5>1 DEF readArtifact
      <4>8. attempts[Pointer].version = 1
        BY <1>1 DEF LegInv, AuthorizedVersionPaid
      <4>9. text = [version |-> attempts[Pointer].version, attempt |-> Pointer,
                       recon |-> "MATCHED"]
        BY <4>2, <4>8
      <4>10. /\ readArtifact("receipt")' # {}
             /\ \A r \in readArtifact("receipt")' : r.content = text
        <5>1. [id |-> "receipt", content |-> text].content = text
          OBVIOUS
        <5>2. \A r \in readArtifact("receipt")' : r = [id |-> "receipt", content |-> text]
          BY <4>7, Zenon
        <5>3. readArtifact("receipt")' # {}
          BY <4>7, Zenon
        <5> QED
          BY <5>1, <5>2, <5>3, Zenon
      <4> QED
        BY <4>5, <4>9, <4>10
    <3> QED
      BY <3>1, <3>2
  <2>7. ReceiptTellsTheSettlement'
    BY <1>2, <2>5, <2>6 DEF ReceiptTellsTheSettlement
  <2> QED
    BY <2>4, <2>6, <2>7 DEF FinalityIInv
<1> QED
  BY <1>4, <1>5

-----------------------------------------------------------------------------
(* Steps of the artifacts and their printing *)

(***************************************************************************)
(* A step that leaves the settlement and its receipt alone.                *)
(***************************************************************************)
LEMMA PrintStepKeepsInv ==
  ASSUME FinalityIInv, PrintInv', readArtifact("receipt")' = readArtifact("receipt"),
         UNCHANGED <<payoutVars, facilityStatus, currentVersion, reconciliation, evaluation>>
  PROVE  FinalityIInv'
<1>1. UNCHANGED <<settlement, attempts, facilityStatus, currentVersion, reconciliation, evaluation>>
  BY DEF payoutVars
<1>2. LegInv'
  BY <1>1 DEF FinalityIInv, LegInv, EnteredFromLive, MatchedAsPromised, AuthorizedVersionPaid,
     OpenedInTime, SettledOnEvidence, ReconciliationChecks
<1>3. ReceiptTellsTheSettlement'
  BY <1>1 DEF FinalityIInv, ReceiptTellsTheSettlement
<1> QED
  BY <1>2, <1>3 DEF FinalityIInv

(***************************************************************************)
(* An export adds an artifact under an id that had none.                   *)
(***************************************************************************)
LEMMA ExportCompositeKeepsInv ==
  ASSUME FinalityIInv, NEW k \in Composites, exportComposite(k)
  PROVE  FinalityIInv'
<1>1. /\ PrintInv /\ readArtifact(k) = {}
      /\ UNCHANGED <<payoutVars, facilityStatus, currentVersion, reconciliation, evaluation>>
  BY DEF FinalityIInv, exportComposite
<1>2. PICK r \in readArtifact("receipt") : persistArtifact(k, r.content)
  BY DEF exportComposite, compositeDocument
<1>3. r.content \in Receipts
  BY <1>1, <1>2 DEF readArtifact, PrintInv
<1>4. k \in ArtifactIds /\ k # "receipt"
  BY FinalityAssumption DEF ArtifactIds
<1>5. PrintInv'
  BY <1>1, <1>2, <1>3, <1>4, PersistKeepsPrintInv
<1>6. readArtifact("receipt")' = readArtifact("receipt")
  <2>1. artifacts' = artifacts \cup {[id |-> k, content |-> r.content]}
    BY <1>2 DEF persistArtifact
  <2> QED
    BY <1>4, <2>1 DEF readArtifact
<1> QED
  BY <1>1, <1>5, <1>6, PrintStepKeepsInv

(***************************************************************************)
(* A worker that takes up a job, loses it or finds it done.                *)
(***************************************************************************)
LEMMA HandlingKeepsPrintInv ==
  ASSUME PrintInv, NEW w \in Workers,
         NEW job \in [id : ArtifactIds \cup {"NONE"}, at : {"IDLE", "RENDERING"}],
         job.at = "RENDERING" => job.id \in ArtifactIds,
         printing' = [printing EXCEPT ![w] = job],
         jobs' \subseteq jobs, UNCHANGED <<artifacts, store>>
  PROVE  PrintInv'
<1>1. /\ printing \in [Workers -> [id : ArtifactIds \cup {"NONE"},
                                   at : {"IDLE", "RENDERING", "WRITING"}]]
      /\ SoleWriter /\ JobsInHand
  BY DEF PrintInv
<1>2. printing' \in [Workers -> [id : ArtifactIds \cup {"NONE"},
                                 at : {"IDLE", "RENDERING", "WRITING"}]]
  BY <1>1
<1>3. \A v \in Workers : printing'[v] = IF v = w THEN job ELSE printing[v]
  BY <1>1
<1>4. SoleWriter' /\ JobsInHand'
  BY <1>1, <1>3 DEF SoleWriter, JobsInHand
<1> QED
  BY <1>2, <1>4 DEF PrintInv

(***************************************************************************)
(* A worker that takes a job has nothing written yet.                      *)
(***************************************************************************)
LEMMA StartGenerateKeepsInv ==
  ASSUME FinalityIInv, NEW w \in Workers, startGenerate(w)
  PROVE  FinalityIInv'
<1>1. /\ PrintInv /\ UNCHANGED <<artifacts, store>>
      /\ UNCHANGED <<payoutVars, facilityStatus, currentVersion, reconciliation, evaluation>>
  BY DEF FinalityIInv, startGenerate
<1>2. PICK id \in jobs :
        IF store[id] # "NONE"
          THEN jobs' = jobs \ {id} /\ UNCHANGED printing
          ELSE /\ printing' = [printing EXCEPT ![w] = [id |-> id, at |-> "RENDERING"]]
               /\ UNCHANGED jobs
  BY DEF startGenerate
<1>3. PrintInv'
  <2>1. CASE store[id] # "NONE"
    BY <1>1, <1>2, <2>1 DEF PrintInv, SoleWriter, JobsInHand
  <2>2. CASE store[id] = "NONE"
    <3>1. id \in ArtifactIds
      BY <1>1, <1>2 DEF PrintInv
    <3> DEFINE job == [id |-> id, at |-> "RENDERING"]
    <3>2. /\ job \in [id : ArtifactIds \cup {"NONE"}, at : {"IDLE", "RENDERING"}]
          /\ job.at = "RENDERING" => job.id \in ArtifactIds
      BY <3>1
    <3>3. printing' = [printing EXCEPT ![w] = job] /\ jobs' \subseteq jobs
      BY <1>2, <2>2
    <3> HIDE DEF job
    <3> QED
      BY <1>1, <3>2, <3>3, HandlingKeepsPrintInv
  <2> QED
    BY <2>1, <2>2
<1>4. readArtifact("receipt")' = readArtifact("receipt")
  BY <1>1 DEF readArtifact
<1> QED
  BY <1>1, <1>3, <1>4, PrintStepKeepsInv

(***************************************************************************)
(* A worker that dies leaves its object as it is: empty, if it was         *)
(* writing.                                                                *)
(***************************************************************************)
LEMMA CrashWorkerKeepsInv ==
  ASSUME FinalityIInv, NEW w \in Workers, crashWorker(w)
  PROVE  FinalityIInv'
<1>1. /\ PrintInv /\ UNCHANGED <<artifacts, jobs, store>>
      /\ printing' = [printing EXCEPT ![w] = Idle]
      /\ UNCHANGED <<payoutVars, facilityStatus, currentVersion, reconciliation, evaluation>>
  BY DEF FinalityIInv, crashWorker
<1>2. /\ Idle \in [id : ArtifactIds \cup {"NONE"}, at : {"IDLE", "RENDERING"}]
      /\ Idle.at # "RENDERING"
  BY DEF Idle
<1>3. PrintInv'
  BY <1>1, <1>2, HandlingKeepsPrintInv
<1>4. readArtifact("receipt")' = readArtifact("receipt")
  BY <1>1 DEF readArtifact
<1> QED
  BY <1>1, <1>3, <1>4, PrintStepKeepsInv

(***************************************************************************)
(* Create-exclusive: where the object is absent nobody is writing it.      *)
(***************************************************************************)
LEMMA PutIfAbsentKeepsInv ==
  ASSUME FinalityIInv, NEW w \in Workers, putIfAbsent(w)
  PROVE  FinalityIInv'
<1>1. /\ PrintInv /\ UNCHANGED artifacts /\ printing[w].at = "RENDERING"
      /\ UNCHANGED <<payoutVars, facilityStatus, currentVersion, reconciliation, evaluation>>
  BY DEF FinalityIInv, putIfAbsent
<1>2. /\ printing \in [Workers -> [id : ArtifactIds \cup {"NONE"},
                                   at : {"IDLE", "RENDERING", "WRITING"}]]
      /\ store \in [ArtifactIds -> {"NONE", "EMPTY"} \cup Workers]
      /\ SoleWriter /\ JobsInHand
  BY <1>1 DEF PrintInv
<1> DEFINE id == printing[w].id
<1>3. id \in ArtifactIds
  BY <1>1, <1>2 DEF JobsInHand
<1>4. PrintInv'
  <2>1. CASE store[id] = "NONE"
    <3>1. /\ store' = [store EXCEPT ![id] = "EMPTY"]
          /\ printing' = [printing EXCEPT ![w].at = "WRITING"]
          /\ UNCHANGED jobs
      BY <2>1 DEF putIfAbsent
    <3>2. /\ printing' \in [Workers -> [id : ArtifactIds \cup {"NONE"},
                                        at : {"IDLE", "RENDERING", "WRITING"}]]
          /\ store' \in [ArtifactIds -> {"NONE", "EMPTY"} \cup Workers]
      BY <1>2, <3>1
    <3>3. /\ printing'[w].at = "WRITING" /\ printing'[w].id = id
          /\ \A v \in Workers : v # w => printing'[v] = printing[v]
          /\ store'[id] = "EMPTY"
          /\ \A i \in ArtifactIds : i # id => store'[i] = store[i]
      BY <1>2, <1>3, <3>1
    <3>4. \A v \in Workers : printing[v].at = "WRITING" => printing[v].id \in ArtifactIds \ {id}
      BY <1>2, <2>1 DEF SoleWriter, JobsInHand
    <3>5. SoleWriter' /\ JobsInHand'
      BY <1>2, <1>3, <3>3, <3>4 DEF SoleWriter, JobsInHand
    <3> QED
      BY <1>1, <3>1, <3>2, <3>5 DEF PrintInv
  <2>2. CASE store[id] # "NONE"
    <3>1. /\ jobs' \subseteq jobs
          /\ printing' = [printing EXCEPT ![w] = Idle]
          /\ UNCHANGED store
      BY <2>2 DEF putIfAbsent
    <3>2. /\ Idle \in [id : ArtifactIds \cup {"NONE"}, at : {"IDLE", "RENDERING"}]
          /\ Idle.at # "RENDERING"
      BY DEF Idle
    <3> QED
      BY <1>1, <3>1, <3>2, HandlingKeepsPrintInv
  <2> QED
    BY <2>1, <2>2
<1>5. readArtifact("receipt")' = readArtifact("receipt")
  BY <1>1 DEF readArtifact
<1> QED
  BY <1>1, <1>4, <1>5, PrintStepKeepsInv

(***************************************************************************)
(* The bytes go to the object the worker created.                          *)
(***************************************************************************)
LEMMA WriteBytesKeepsInv ==
  ASSUME FinalityIInv, NEW w \in Workers, writeBytes(w)
  PROVE  FinalityIInv'
<1>1. /\ PrintInv /\ UNCHANGED artifacts /\ printing[w].at = "WRITING"
      /\ store' = [store EXCEPT ![printing[w].id] = w]
      /\ jobs' = jobs \ {printing[w].id}
      /\ printing' = [printing EXCEPT ![w] = Idle]
      /\ UNCHANGED <<payoutVars, facilityStatus, currentVersion, reconciliation, evaluation>>
  BY DEF FinalityIInv, writeBytes
<1>2. /\ printing \in [Workers -> [id : ArtifactIds \cup {"NONE"},
                                   at : {"IDLE", "RENDERING", "WRITING"}]]
      /\ store \in [ArtifactIds -> {"NONE", "EMPTY"} \cup Workers]
      /\ jobs \subseteq ArtifactIds
      /\ SoleWriter /\ JobsInHand
  BY <1>1 DEF PrintInv
<1>3. Idle \in [id : ArtifactIds \cup {"NONE"}, at : {"IDLE", "RENDERING", "WRITING"}]
      /\ Idle.at = "IDLE"
  BY DEF Idle
<1>4. /\ printing' \in [Workers -> [id : ArtifactIds \cup {"NONE"},
                                    at : {"IDLE", "RENDERING", "WRITING"}]]
      /\ store' \in [ArtifactIds -> {"NONE", "EMPTY"} \cup Workers]
      /\ jobs' \subseteq ArtifactIds
  BY <1>1, <1>2, <1>3
<1>5. /\ printing'[w] = Idle
      /\ \A v \in Workers : v # w => printing'[v] = printing[v]
      /\ \A i \in ArtifactIds : i # printing[w].id => store'[i] = store[i]
  BY <1>1, <1>2
<1>6. \A v \in Workers : v # w /\ printing[v].at = "WRITING" =>
        printing[v].id \in ArtifactIds \ {printing[w].id}
  BY <1>1, <1>2 DEF SoleWriter, JobsInHand
<1>7. SoleWriter' /\ JobsInHand'
  BY <1>2, <1>3, <1>5, <1>6 DEF SoleWriter, JobsInHand
<1>8. PrintInv'
  BY <1>1, <1>4, <1>7 DEF PrintInv
<1>9. readArtifact("receipt")' = readArtifact("receipt")
  BY <1>1 DEF readArtifact
<1> QED
  BY <1>1, <1>8, <1>9, PrintStepKeepsInv

(***************************************************************************)
(* Asking for a document's address queues at most another job.             *)
(***************************************************************************)
LEMMA ArtifactPdfUrlKeepsInv ==
  ASSUME FinalityIInv, artifactPdfUrl
  PROVE  FinalityIInv'
<1>1. /\ PrintInv /\ UNCHANGED <<artifacts, store, printing>>
      /\ UNCHANGED <<payoutVars, facilityStatus, currentVersion, reconciliation, evaluation>>
  BY DEF FinalityIInv, artifactPdfUrl
<1>2. PICK a \in artifacts : jobs' = jobs \cup {a.id}
  BY DEF artifactPdfUrl, enqueueReceiptGeneration
<1>3. PrintInv'
  BY <1>1, <1>2 DEF PrintInv, SoleWriter, JobsInHand
<1>4. readArtifact("receipt")' = readArtifact("receipt")
  BY <1>1 DEF readArtifact
<1> QED
  BY <1>1, <1>3, <1>4, PrintStepKeepsInv

-----------------------------------------------------------------------------
(* The theorems *)

(***************************************************************************)
(* A dispatched settlement without reconciliation, artifacts and jobs      *)
(* satisfies the invariant.                                                *)
(***************************************************************************)
LEMMA FinalityInitEstablishesInv == FinalityInit => FinalityIInv
<1> SUFFICES ASSUME FinalityInit PROVE FinalityIInv
  OBVIOUS
<1>1. settlement \in Rows /\ EnteredFromLive
  BY DEF FinalityInit, Rows, Statuses, EnteredFromLive, TerminalStatuses
<1>2. Pointer \in AttemptNumbers /\ Pointer = 1
  BY FinalityAssumption DEF Pointer, AttemptNumbers
<1>3. /\ attempts \in [AttemptNumbers ->
           [status : {"NONE", "SUBMITTED", "CREDITED", "REJECTED", "UNKNOWN", "RETURNED"},
            version : 0..1]]
      /\ AuthorizedVersionPaid
  BY <1>2 DEF FinalityInit, UnusedAttempt, AuthorizedVersionPaid
<1>4. /\ reconciliation \in
           [status : {"NONE", "PENDING", "MATCHED", "MISMATCH", "MANUAL_REVIEW"},
            observed : Int, delta : Int, operator : BOOLEAN, early : BOOLEAN]
      /\ ReconciliationChecks(reconciliation) /\ MatchedAsPromised /\ OpenedInTime
  BY DEF FinalityInit, NoReconciliation, NoAmount, ReconciliationChecks, MatchedAsPromised,
         OpenedInTime
<1>5. LegInv
  BY <1>1, <1>3, <1>4 DEF FinalityInit, LegInv, SettledOnEvidence
<1>6. PrintInv
  BY DEF FinalityInit, PrintInv, Idle, SoleWriter, JobsInHand
<1>7. ReceiptTellsTheSettlement
  BY DEF FinalityInit, ReceiptTellsTheSettlement, readArtifact
<1> QED
  BY <1>5, <1>6, <1>7 DEF FinalityIInv

(***************************************************************************)
(* Every step keeps the invariant, one case per operation.                 *)
(***************************************************************************)
LEMMA FinalityNextKeepsInv == FinalityIInv /\ [FinalityNext]_finalityVars => FinalityIInv'
<1> SUFFICES ASSUME FinalityIInv, [FinalityNext]_finalityVars PROVE FinalityIInv'
  OBVIOUS
<1>1. ASSUME NEW n \in AttemptNumbers, credited(n) PROVE FinalityIInv'
  BY <1>1, PayoutOutcomeKeepsInv DEF credited
<1>2. ASSUME NEW n \in AttemptNumbers, rejected(n) PROVE FinalityIInv'
  BY <1>2, PayoutOutcomeKeepsInv DEF rejected
<1>3. ASSUME NEW n \in AttemptNumbers, timedOut(n) PROVE FinalityIInv'
  BY <1>3, PayoutOutcomeKeepsInv DEF timedOut
<1>4. ASSUME NEW n \in AttemptNumbers, returned(n) PROVE FinalityIInv'
  BY <1>4, ReturnedKeepsInv
<1>5. ASSUME NEW n \in AttemptNumbers, retryPayout(n) PROVE FinalityIInv'
  BY <1>5, RetryPayoutKeepsInv
<1>6. CASE \/ resolveResume
           \/ \E status \in {"ACTIVE", "SUSPENDED"} : setFacilityStatus(status)
           \/ changeDestination
  BY <1>6, SurroundingsKeepInv
<1>7. CASE beginReconciliation
  BY <1>7, BeginReconciliationKeepsInv
<1>8. ASSUME NEW amount \in Amounts \cup {NoAmount}, NEW same \in BOOLEAN,
             applyObservation(amount, same)
      PROVE  FinalityIInv'
  BY <1>8, ApplyObservationKeepsInv
<1>9. CASE sweepReconciliationSla
  BY <1>9, SweepReconciliationSlaKeepsInv
<1>10. ASSUME NEW trigger \in {"resolve_matched", "resolve_unresolvable"},
              resolveReconciliation(trigger)
       PROVE  FinalityIInv'
  BY <1>10, ResolveReconciliationKeepsInv
<1>11. CASE evaluateAndSettle
  BY <1>11, EvaluateAndSettleKeepsInv
<1>12. ASSUME NEW k \in Composites, exportComposite(k) PROVE FinalityIInv'
  BY <1>12, ExportCompositeKeepsInv
<1>13. ASSUME NEW w \in Workers, startGenerate(w) PROVE FinalityIInv'
  BY <1>13, StartGenerateKeepsInv
<1>14. ASSUME NEW w \in Workers, putIfAbsent(w) PROVE FinalityIInv'
  BY <1>14, PutIfAbsentKeepsInv
<1>15. ASSUME NEW w \in Workers, writeBytes(w) PROVE FinalityIInv'
  BY <1>15, WriteBytesKeepsInv
<1>16. ASSUME NEW w \in Workers, crashWorker(w) PROVE FinalityIInv'
  BY <1>16, CrashWorkerKeepsInv
<1>17. CASE artifactPdfUrl
  BY <1>17, ArtifactPdfUrlKeepsInv
<1>18. CASE UNCHANGED finalityVars
  <2>1. /\ UNCHANGED <<payoutVars, facilityStatus, currentVersion, reconciliation, evaluation>>
        /\ UNCHANGED <<artifacts, jobs, store, printing>>
    BY <1>18 DEF finalityVars, payoutVars
  <2>2. PrintInv' /\ readArtifact("receipt")' = readArtifact("receipt")
    BY <2>1 DEF FinalityIInv, PrintInv, SoleWriter, JobsInHand, readArtifact
  <2> QED
    BY <2>1, <2>2, PrintStepKeepsInv
<1> QED
  BY <1>1, <1>2, <1>3, <1>4, <1>5, <1>6, <1>7, <1>8, <1>9, <1>10, <1>11, <1>12, <1>13, <1>14,
     <1>15, <1>16, <1>17, <1>18 DEF FinalityNext

(***************************************************************************)
(* The inductive invariant: the settlement's leg, the artifacts and the    *)
(* receipt's story agree after any number of attempts, operator actions,   *)
(* retried print jobs and crashes (finality.service.ts, filesystem-        *)
(* store.ts).                                                              *)
(***************************************************************************)
THEOREM FinalityInvariant == FinalitySpec => []FinalityIInv
BY FinalityInitEstablishesInv, FinalityNextKeepsInv, PTL DEF FinalitySpec

(***************************************************************************)
(* A settlement is final on evidence only: reconciled to the unit or by an *)
(* operator, its named attempt credited to the authorized destination, and *)
(* a receipt issued that says so; receipts tell no other story, whatever   *)
(* order credits, timeouts, retries, observations and operators come in    *)
(* (evaluateAndSettle, issueReceipt).                                      *)
(***************************************************************************)
THEOREM FinalityIsSound == FinalitySpec => []FinalityIsBacked
BY FinalityInvariant, FinalityIInvImplies, PTL

(***************************************************************************)
(* A step never changes an artifact nor an object that was written in      *)
(* full: only its sole writer writes it, once.                             *)
(***************************************************************************)
LEMMA StepKeepsArtifacts ==
  ASSUME FinalityIInv, [FinalityNext]_finalityVars
  PROVE  /\ artifacts \subseteq artifacts'
         /\ \A id \in ArtifactIds : store[id] \in Workers => store'[id] = store[id]
<1>1. /\ store \in [ArtifactIds -> {"NONE", "EMPTY"} \cup Workers]
      /\ SoleWriter
  BY DEF FinalityIInv, PrintInv
<1>2. CASE \/ \E n \in AttemptNumbers : \/ credited(n) \/ rejected(n) \/ timedOut(n)
                                       \/ returned(n) \/ retryPayout(n)
           \/ resolveResume
           \/ \E status \in {"ACTIVE", "SUSPENDED"} : setFacilityStatus(status)
           \/ changeDestination
           \/ beginReconciliation
           \/ \E amount \in Amounts \cup {NoAmount}, same \in BOOLEAN : applyObservation(amount, same)
           \/ sweepReconciliationSla
           \/ \E trigger \in {"resolve_matched", "resolve_unresolvable"} : resolveReconciliation(trigger)
  <2>1. UNCHANGED printVars
    BY <1>2 DEF credited, rejected, timedOut, payoutOutcome, returned, retryPayout, resolveResume,
       setFacilityStatus, changeDestination, beginReconciliation, applyObservation,
       sweepReconciliationSla, resolveReconciliation
  <2> QED
    BY <2>1 DEF printVars
<1>3. CASE evaluateAndSettle
  <2>1. UNCHANGED printVars \/ persistArtifact("receipt", readReceiptSource)
    BY <1>3 DEF evaluateAndSettle, issueReceipt
  <2> QED
    BY <2>1 DEF persistArtifact, printVars
<1>4. ASSUME NEW k \in Composites, exportComposite(k)
      PROVE  artifacts \subseteq artifacts' /\ UNCHANGED store
  BY <1>4 DEF exportComposite, persistArtifact
<1>5. ASSUME NEW w \in Workers, putIfAbsent(w)
      PROVE  /\ UNCHANGED artifacts
             /\ \A id \in ArtifactIds : store[id] \in Workers => store'[id] = store[id]
  <2>1. /\ UNCHANGED artifacts
        /\ \/ UNCHANGED store
           \/ /\ store[printing[w].id] = "NONE"
              /\ store' = [store EXCEPT ![printing[w].id] = "EMPTY"]
    BY <1>5 DEF putIfAbsent
  <2> QED
    BY <1>1, <2>1, FinalityAssumption
<1>6. ASSUME NEW w \in Workers, writeBytes(w)
      PROVE  /\ UNCHANGED artifacts
             /\ \A id \in ArtifactIds : store[id] \in Workers => store'[id] = store[id]
  <2>1. /\ UNCHANGED artifacts
        /\ store[printing[w].id] = "EMPTY"
        /\ store' = [store EXCEPT ![printing[w].id] = w]
    BY <1>1, <1>6 DEF writeBytes, SoleWriter
  <2> QED
    BY <1>1, <2>1, FinalityAssumption
<1>7. CASE \/ \E w \in Workers : startGenerate(w) \/ crashWorker(w)
           \/ artifactPdfUrl
           \/ UNCHANGED finalityVars
  <2>1. UNCHANGED <<artifacts, store>>
    BY <1>7 DEF startGenerate, crashWorker, artifactPdfUrl, finalityVars
  <2> QED
    BY <2>1
<1> QED
  BY <1>2, <1>3, <1>4, <1>5, <1>6, <1>7 DEF FinalityNext

(***************************************************************************)
(* INV-48 for every number of workers: two of them on one job, crashes in  *)
(* between, and no PDF that was written in full is ever written again, no  *)
(* artifact changed or removed (persistArtifact, putIfAbsent).             *)
(***************************************************************************)
THEOREM ArtifactsAreKept == FinalitySpec => ArtifactsAreWriteOnce
<1>1. FinalityIInv /\ [FinalityNext]_finalityVars =>
        [/\ artifacts \subseteq artifacts'
         /\ \A id \in ArtifactIds : store[id] \in Workers => store'[id] = store[id]]_finalityVars
  BY StepKeepsArtifacts
<1> QED
  BY <1>1, FinalityInvariant, PTL DEF FinalitySpec, ArtifactsAreWriteOnce

-----------------------------------------------------------------------------
(* Returns *)

(***************************************************************************)
(* Rounding down, and cancelling a common factor.                          *)
(***************************************************************************)
LEMMA FactorCancels ==
  ASSUME NEW a \in Nat, NEW b \in Nat, NEW c \in Nat \ {0}, c * a <= b * c
  PROVE  a <= b
<1> SUFFICES ASSUME a > b PROVE FALSE
  OBVIOUS
<1>1. a >= b + 1
  OBVIOUS
<1>2. c * a >= c * (b + 1)
  BY <1>1
<1>3. c * (b + 1) = b * c + c
  OBVIOUS
<1> QED
  BY <1>2, <1>3

(***************************************************************************)
(* A table multiplied row by row.                                          *)
(***************************************************************************)
LEMMA TotalScaled ==
  ASSUME NEW n \in Nat, NEW f \in [1..n -> Nat], NEW c \in Nat,
         NEW h \in [1..n -> Nat], \A k \in 1..n : h[k] = c * f[k]
  PROVE  Total(h, n) = c * Total(f, n)
<1> DEFINE F == RunningTotal(f, n)
           H == RunningTotal(h, n)
           G == {k \in 0..n : H[k] = c * F[k]}
<1>0. f \in [1..n -> Int] /\ h \in [1..n -> Int]
  OBVIOUS
<1>1. F[0] = 0 /\ (\A k \in 1..n : F[k] = F[k - 1] + f[k]) /\ \A k \in 0..n : F[k] \in Int
  BY <1>0, RunningTotalDef
<1>2. H[0] = 0 /\ \A k \in 1..n : H[k] = H[k - 1] + h[k]
  BY <1>0, RunningTotalDef
<1> HIDE DEF F, H
<1>3. 0 \in G
  BY <1>1, <1>2
<1>4. ASSUME NEW k \in 1..n, k - 1 \in G PROVE k \in G
  <2>1. F[k - 1] \in Int /\ f[k] \in Int
    BY <1>1
  <2>2. H[k - 1] = c * F[k - 1] /\ H[k] = H[k - 1] + h[k] /\ h[k] = c * f[k]
    BY <1>2, <1>4
  <2>3. c * (F[k - 1] + f[k]) = c * F[k - 1] + c * f[k]
    BY <2>1
  <2>4. H[k] = c * (F[k - 1] + f[k])
    BY <2>2, <2>3
  <2>5. H[k] = c * F[k]
    BY <1>1, <2>4
  <2> QED
    BY <2>5
<1> HIDE DEF G
<1>5. \A k \in 0..n : k \in G
  BY <1>3, <1>4, IntervalInduction
<1> QED
  BY <1>5 DEF G, F, H, Total

(***************************************************************************)
(* Rows that each stay within a row of their own in another table add up   *)
(* to no more than that table.                                             *)
(***************************************************************************)
Within(f, g, owner, n, m, k) ==
  /\ \A i \in 1..k : f[i] # 0 => owner[i] \in 1..m /\ f[i] <= g[owner[i]]
  /\ \A i, j \in 1..k : f[i] # 0 /\ f[j] # 0 /\ owner[i] = owner[j] => i = j

(***************************************************************************)
(* Then the sum of the small rows is no more than that of the large ones.  *)
(***************************************************************************)
LEMMA TotalWithin ==
  ASSUME NEW n \in Nat, NEW m \in Nat, NEW f \in [1..n -> Nat], NEW g0 \in [1..m -> Nat],
         NEW owner, Within(f, g0, owner, n, m, n)
  PROVE  Total(f, n) <= Total(g0, m)
<1> DEFINE F == RunningTotal(f, n)
           G == {k \in 0..n : \A g \in [1..m -> Nat] :
                   Within(f, g, owner, n, m, k) => F[k] <= Total(g, m)}
<1>1. F[0] = 0 /\ (\A k \in 1..n : F[k] = F[k - 1] + f[k]) /\ \A k \in 0..n : F[k] \in Int
  <2>1. f \in [1..n -> Int]
    OBVIOUS
  <2> QED
    BY <2>1, RunningTotalDef
<1> HIDE DEF F
<1>2. 0 \in G
  <2>1. \A g \in [1..m -> Nat] : F[0] <= Total(g, m)
    <3> TAKE g \in [1..m -> Nat]
    <3>1. Total(g, m) \in Nat
      BY TotalOfNaturals
    <3> QED
      BY <1>1, <3>1
  <2> QED
    BY <2>1
<1>3. ASSUME NEW k \in 1..n, k - 1 \in G PROVE k \in G
  <2> SUFFICES ASSUME NEW g \in [1..m -> Nat], Within(f, g, owner, n, m, k)
               PROVE  F[k] <= Total(g, m)
    OBVIOUS
  <2>1. F[k] = F[k - 1] + f[k] /\ F[k - 1] \in Int /\ f[k] \in Nat
    BY <1>1
  <2>2. \A h \in [1..m -> Nat] : Within(f, h, owner, n, m, k - 1) => F[k - 1] <= Total(h, m)
    BY <1>3
  <2>3. CASE f[k] = 0
    <3>1. Within(f, g, owner, n, m, k - 1)
      BY DEF Within
    <3>2. F[k - 1] <= Total(g, m)
      BY <2>2, <3>1
    <3>3. F[k] = F[k - 1]
      BY <2>1, <2>3
    <3> QED
      BY <3>2, <3>3
  <2>4. CASE f[k] # 0
    <3>1. PICK r \in 1..m : r = owner[k] /\ f[k] <= g[r]
      BY <2>4 DEF Within
    <3> DEFINE h == [q \in 1..m |-> IF q = r THEN g[r] - f[k] ELSE g[q]]
    <3>2. h \in [1..m -> Nat] /\ h[r] = g[r] - f[k] /\ \A q \in 1..m : q # r => h[q] = g[q]
      BY <2>1, <3>1
    <3> HIDE DEF h
    <3>3. Within(f, h, owner, n, m, k - 1)
      <4>1. ASSUME NEW i \in 1..(k - 1), f[i] # 0 PROVE owner[i] \in 1..m /\ f[i] <= h[owner[i]]
        <5>1. i \in 1..k /\ i # k
          OBVIOUS
        <5>2. owner[i] # r /\ owner[i] \in 1..m /\ f[i] <= g[owner[i]]
          BY <2>4, <3>1, <4>1, <5>1 DEF Within
        <5> QED
          BY <3>2, <5>2
      <4>2. 1..(k - 1) \subseteq 1..k
        OBVIOUS
      <4> QED
        BY <4>1, <4>2 DEF Within
    <3>4. F[k - 1] <= Total(h, m)
      BY <2>2, <3>2, <3>3
    <3>5. Total(h, m) = Total(g, m) + h[r] - g[r] /\ Total(g, m) \in Int
      <4>1. g \in [1..m -> Int] /\ h \in [1..m -> Int]
        BY <3>2
      <4> QED
        BY <3>2, <4>1, TotalUpdate
    <3> QED
      BY <2>1, <3>2, <3>4, <3>5
  <2> QED
    BY <2>3, <2>4
<1> HIDE DEF G
<1>4. \A k \in 0..n : k \in G
  BY <1>2, <1>3, IntervalInduction
<1>5. F[n] <= Total(g0, m)
  BY <1>4 DEF G
<1> QED
  BY <1>5 DEF F, Total

-----------------------------------------------------------------------------
(***************************************************************************)
(* The inductive invariant: the counter on the attempt covers what came    *)
(* back; the facility stays within its checks at the limit it was drawn    *)
(* to; a return, the repayment it caused and its notice name each other    *)
(* and agree on the amounts, and a REPAID one has its money.               *)
(***************************************************************************)
ReturnStatuses == {"NONE", "OBSERVED", "CONFIRMED", "REPAID", "REJECTED", "MANUAL_REVIEW"}

ReturnRows ==
  [status : ReturnStatuses, amount : Nat, repayment : {0} \cup Facility!RepaymentIds]

CounterCovers ==
  /\ attempt.credited \in (Nat \ {0}) \cup {Unknown}
  /\ Total([r \in References |-> CameBack(r)], MaxReturns) <= attempt.returned

FacilityHolds ==
  /\ facility.limit = Drawn + OtherDrawn
  /\ facility.reserved = 0
  /\ Facility!FacilityChecks(facility)

ReturnIsLinked(r) ==
  /\ returns[r].status = "NONE" => returns[r].repayment = 0
  /\ returns[r].repayment # 0 =>
       /\ repayments[returns[r].repayment].settlement = r
       /\ \E n \in notices : n.return = r
  /\ returns[r].status = "REPAID" =>
       returns[r].repayment # 0 /\ repayments[returns[r].repayment].status = "CONFIRMED"

RepaymentIsLinked(i) ==
  LET s == repayments[i].settlement
  IN  s # NoReturn =>
        /\ repayments[i].status # "NONE"
        /\ attempt.credited # Unknown
        /\ returns[s].status # "NONE"
        /\ repayments[i].amount = proRataRepayment(returns[s].amount)

NoticeIsTrue(n) == returns[n.return].status # "NONE" /\ n.amount = returns[n.return].amount

ReturnsInv ==
  /\ ReturnsTypeOK
  /\ CounterCovers
  /\ FacilityHolds
  /\ \A r \in References : ReturnIsLinked(r)
  /\ \A i \in Facility!RepaymentIds : RepaymentIsLinked(i)
  /\ \A n \in notices : NoticeIsTrue(n)
  /\ Facility!OneRestorationPerSettlement

(***************************************************************************)
(* What the proofs need to know of the table of N01-N07.                   *)
(***************************************************************************)
LEMMA ReturnTable ==
  ASSUME NEW from, NEW trigger, NEW to \in evaluateReturnTransition(from, trigger)
  PROVE  /\ to \in ReturnStatuses \ {"NONE"}
         /\ trigger = "open" => from = "NONE" /\ to = "OBSERVED"
         /\ trigger # "open" => from # "NONE"
         /\ from # "REPAID"
         /\ trigger \in {"upheld", "resolve_upheld"} =>
              from \in {"OBSERVED", "MANUAL_REVIEW"} /\ to = "CONFIRMED"
         /\ trigger \in {"not_upheld", "resolve_not_upheld"} => to = "REJECTED"
         /\ trigger = "escalate" => to = "MANUAL_REVIEW"
         /\ trigger = "repaid" => from = "CONFIRMED" /\ to = "REPAID"
<1>1. PICK t \in ReturnTransitions : t.from = from /\ t.trigger = trigger /\ t.to = to
  BY DEF evaluateReturnTransition
<1> QED
  BY <1>1 DEF ReturnTransitions, ReturnStatuses

(***************************************************************************)
(* A change of one return changes what came back by what that row changed. *)
(***************************************************************************)
LEMMA CameBackChange ==
  ASSUME ReturnsTypeOK, returns' \in [References -> ReturnRows], NEW r \in References,
         \A q \in References : q # r => returns'[q] = returns[q]
  PROVE  /\ Total([q \in References |-> CameBack(q)], MaxReturns)' =
              Total([q \in References |-> CameBack(q)], MaxReturns) + CameBack(r)' - CameBack(r)
         /\ Total([q \in References |-> CameBack(q)], MaxReturns) \in Int
<1> DEFINE f == [q \in References |-> CameBack(q)]
           h == [q \in References |-> CameBack(q)']
<1>1. f \in [1..MaxReturns -> Int] /\ h \in [1..MaxReturns -> Int]
  BY DEF ReturnsTypeOK, ReturnRows, CameBack, References
<1>2. \A q \in 1..MaxReturns : q # r => h[q] = f[q]
  BY DEF CameBack, References
<1>3. f[r] = CameBack(r) /\ h[r] = CameBack(r)'
  OBVIOUS
<1>4. MaxReturns \in Nat /\ r \in 1..MaxReturns
  BY ReturnsAssumption DEF References
<1> HIDE DEF f, h
<1>5. Total(h, MaxReturns) = Total(f, MaxReturns) + h[r] - f[r] /\ Total(f, MaxReturns) \in Int
  BY <1>1, <1>2, <1>4, TotalUpdate
<1> QED
  BY <1>3, <1>5 DEF f, h

(***************************************************************************)
(* A step that moves the status of one return, keeps its money and makes   *)
(* nothing come back that had not.                                         *)
(***************************************************************************)
StatusStep(r, to) ==
  /\ returns[r].status \notin {"NONE", "REPAID"}
  /\ to \in ReturnStatuses \ {"NONE", "CONFIRMED"}
  /\ to = "REPAID" => /\ returns[r].status = "CONFIRMED"
                      /\ returns[r].repayment # 0
                      /\ repayments[returns[r].repayment].status = "CONFIRMED"
  /\ returns' = [returns EXCEPT ![r].status = to]
  /\ UNCHANGED <<attempt, notices, facility, reservations, repayments, ledger>>

(***************************************************************************)
(* Such a step keeps the invariant.                                        *)
(***************************************************************************)
LEMMA StatusStepKeeps ==
  ASSUME ReturnsInv, NEW r \in References, NEW to, StatusStep(r, to),
         reported' \in Nat, checks' \in [References -> {"NONE", "UPHELD", "NOT_UPHELD"}],
         swept' \subseteq References
  PROVE  ReturnsInv'
<1> DEFINE row == [returns[r] EXCEPT !.status = to]
<1>1. returns[r] \in ReturnRows /\ returns \in [References -> ReturnRows]
  BY DEF ReturnsInv, ReturnsTypeOK, ReturnRows, ReturnStatuses
<1>2. /\ row \in ReturnRows /\ row.status = to
      /\ row.amount = returns[r].amount /\ row.repayment = returns[r].repayment
  BY <1>1 DEF StatusStep, ReturnRows
<1>3. returns' = [returns EXCEPT ![r] = row]
  BY <1>1 DEF StatusStep
<1> HIDE DEF row
<1>4. /\ returns' \in [References -> ReturnRows]
      /\ returns'[r] = row
      /\ \A q \in References : q # r => returns'[q] = returns[q]
  BY <1>1, <1>2, <1>3
<1>5. \A q \in References :
        /\ returns'[q].amount = returns[q].amount /\ returns'[q].repayment = returns[q].repayment
        /\ returns'[q].status # "NONE" <=> returns[q].status # "NONE"
  BY <1>2, <1>4 DEF StatusStep
<1>6. ReturnsTypeOK'
  BY <1>4 DEF ReturnsInv, ReturnsTypeOK, StatusStep, ReturnRows, ReturnStatuses, AttemptChecks,
      Facility!LiquidityTypeOK
<1>7. CounterCovers'
  <2>1. CameBack(r)' <= CameBack(r) /\ CameBack(r)' \in Int /\ CameBack(r) \in Int
    BY <1>1, <1>2, <1>4 DEF CameBack, StatusStep, ReturnRows
  <2>2. ReturnsTypeOK /\ attempt.returned \in Int
    BY DEF ReturnsInv, ReturnsTypeOK
  <2>3. Total([q \in References |-> CameBack(q)], MaxReturns)' =
              Total([q \in References |-> CameBack(q)], MaxReturns) + CameBack(r)' - CameBack(r)
         /\ Total([q \in References |-> CameBack(q)], MaxReturns) \in Int
    BY <1>4, <2>2, CameBackChange
  <2>4. Total([q \in References |-> CameBack(q)], MaxReturns) <= attempt.returned /\ attempt' = attempt
        /\ attempt.credited \in (Nat \ {0}) \cup {Unknown}
    BY DEF ReturnsInv, CounterCovers, StatusStep
  <2>5. Total([q \in References |-> CameBack(q)], MaxReturns)' <= attempt'.returned
    BY <2>1, <2>2, <2>3, <2>4
  <2> QED
    BY <2>4, <2>5 DEF CounterCovers
<1>8. FacilityHolds'
  BY DEF ReturnsInv, FacilityHolds, StatusStep, Facility!FacilityChecks
<1>9. \A q \in References : ReturnIsLinked(q)'
  BY <1>2, <1>4, <1>5 DEF ReturnsInv, ReturnIsLinked, StatusStep
<1>10. \A i \in Facility!RepaymentIds : RepaymentIsLinked(i)'
  <2> TAKE i \in Facility!RepaymentIds
  <2>1. repayments[i].settlement \in References \cup {NoReturn}
    BY DEF ReturnsInv, ReturnsTypeOK, Facility!LiquidityTypeOK, Facility!Repayments
  <2> QED
    BY <1>5, <2>1 DEF ReturnsInv, RepaymentIsLinked, StatusStep, proRataRepayment
<1>11. \A n \in notices' : NoticeIsTrue(n)'
  <2> TAKE n \in notices'
  <2>1. n \in notices /\ n.return \in References
    BY DEF ReturnsInv, ReturnsTypeOK, StatusStep
  <2> QED
    BY <1>5, <2>1 DEF ReturnsInv, NoticeIsTrue
<1>12. Facility!OneRestorationPerSettlement'
  BY DEF ReturnsInv, StatusStep, Facility!OneRestorationPerSettlement
<1> QED
  BY <1>6, <1>7, <1>8, <1>9, <1>10, <1>11, <1>12 DEF ReturnsInv

(***************************************************************************)
(* A step that touches neither the returns nor the facility.               *)
(***************************************************************************)
QuietStep ==
  UNCHANGED <<attempt, returns, notices, facility, reservations, repayments, ledger>>

(***************************************************************************)
(* Such a step keeps the invariant.                                        *)
(***************************************************************************)
LEMMA QuietStepKeeps ==
  ASSUME ReturnsInv, QuietStep,
         reported' \in Nat, checks' \in [References -> {"NONE", "UPHELD", "NOT_UPHELD"}],
         swept' \subseteq References
  PROVE  ReturnsInv'
<1>1. ReturnsTypeOK'
  BY DEF ReturnsInv, ReturnsTypeOK, QuietStep, AttemptChecks, Facility!LiquidityTypeOK
<1>2. CounterCovers' /\ FacilityHolds'
  BY DEF ReturnsInv, CounterCovers, CameBack, FacilityHolds, Facility!FacilityChecks, QuietStep
<1>3. /\ \A r \in References : ReturnIsLinked(r)'
      /\ \A i \in Facility!RepaymentIds : RepaymentIsLinked(i)'
      /\ \A n \in notices' : NoticeIsTrue(n)'
  BY DEF ReturnsInv, ReturnIsLinked, RepaymentIsLinked, proRataRepayment, NoticeIsTrue, QuietStep
<1>4. Facility!OneRestorationPerSettlement'
  BY DEF ReturnsInv, QuietStep, Facility!OneRestorationPerSettlement
<1> QED
  BY <1>1, <1>2, <1>3, <1>4 DEF ReturnsInv

(***************************************************************************)
(* N01: nothing named the return before, and nothing of it came back yet.  *)
(***************************************************************************)
LEMMA OpenKeeps ==
  ASSUME ReturnsInv, NEW r \in References, NEW amount \in ReturnAmounts, NEW mapped, NEW elapsed,
         openReturn(r, amount, mapped, elapsed)
  PROVE  ReturnsInv'
<1>1. PICK to \in evaluateReturnTransition(returns[r].status, "open") :
        \E then \in onceOpened(to, mapped, elapsed) :
          returns' = [returns EXCEPT ![r] = [status |-> then, amount |-> amount, repayment |-> 0]]
  BY DEF openReturn
<1>2. PICK then \in onceOpened(to, mapped, elapsed) :
        returns' = [returns EXCEPT ![r] = [status |-> then, amount |-> amount, repayment |-> 0]]
  BY <1>1
<1>3. returns[r].status = "NONE" /\ to = "OBSERVED"
  BY <1>1, ReturnTable
<1>4. then \in {"OBSERVED", "MANUAL_REVIEW"}
  <2>1. CASE then \in evaluateReturnTransition(to, "escalate")
    BY <2>1, ReturnTable
  <2> QED
    BY <1>2, <1>3, <2>1 DEF onceOpened
<1>5. returns \in [References -> ReturnRows] /\ returns[r] \in ReturnRows
  BY DEF ReturnsInv, ReturnsTypeOK, ReturnRows, ReturnStatuses
<1>6. amount \in Nat
  BY ReturnsAssumption
<1>7. /\ returns' \in [References -> ReturnRows]
      /\ returns'[r] = [status |-> then, amount |-> amount, repayment |-> 0]
      /\ \A q \in References : q # r => returns'[q] = returns[q]
  BY <1>2, <1>4, <1>5, <1>6 DEF ReturnRows, ReturnStatuses
<1>8. UNCHANGED <<attempt, notices, reported, checks, swept, facility, reservations, repayments, ledger>>
  BY DEF openReturn
<1>9. ReturnsTypeOK'
  BY <1>7, <1>8 DEF ReturnsInv, ReturnsTypeOK, ReturnRows, ReturnStatuses, AttemptChecks,
      Facility!LiquidityTypeOK
<1>10. CounterCovers'
  <2>1. CameBack(r)' = 0 /\ CameBack(r) = 0
    BY <1>3, <1>4, <1>7 DEF CameBack
  <2>2. ReturnsTypeOK
    BY DEF ReturnsInv
  <2>3. Total([q \in References |-> CameBack(q)], MaxReturns)' =
              Total([q \in References |-> CameBack(q)], MaxReturns) + CameBack(r)' - CameBack(r)
         /\ Total([q \in References |-> CameBack(q)], MaxReturns) \in Int
    BY <1>7, <2>2, CameBackChange
  <2>4. Total([q \in References |-> CameBack(q)], MaxReturns)' =
          Total([q \in References |-> CameBack(q)], MaxReturns)
    BY <2>1, <2>3
  <2> QED
    BY <1>8, <2>4 DEF ReturnsInv, CounterCovers
<1>11. FacilityHolds'
  BY <1>8 DEF ReturnsInv, FacilityHolds, Facility!FacilityChecks
<1>12. \A q \in References : ReturnIsLinked(q)'
  BY <1>4, <1>7, <1>8 DEF ReturnsInv, ReturnIsLinked
<1>13. \A i \in Facility!RepaymentIds : RepaymentIsLinked(i)'
  <2> TAKE i \in Facility!RepaymentIds
  <2>1. repayments[i].settlement \in References \cup {NoReturn}
    BY DEF ReturnsInv, ReturnsTypeOK, Facility!LiquidityTypeOK, Facility!Repayments
  <2>2. RepaymentIsLinked(i)
    BY DEF ReturnsInv
  <2> QED
    BY <1>3, <1>7, <1>8, <2>1, <2>2 DEF RepaymentIsLinked, proRataRepayment
<1>14. \A n \in notices' : NoticeIsTrue(n)'
  <2> TAKE n \in notices'
  <2>1. n \in notices /\ n.return \in References /\ NoticeIsTrue(n)
    BY <1>8 DEF ReturnsInv, ReturnsTypeOK
  <2> QED
    BY <1>3, <1>7, <2>1 DEF NoticeIsTrue
<1>15. Facility!OneRestorationPerSettlement'
  BY <1>8 DEF ReturnsInv, Facility!OneRestorationPerSettlement
<1> QED
  BY <1>9, <1>10, <1>11, <1>12, <1>13, <1>14, <1>15 DEF ReturnsInv

-----------------------------------------------------------------------------
(* The facility's own steps *)

(***************************************************************************)
(* What is eligible is at most what is drawn, and that at most the limit.  *)
(***************************************************************************)
LEMMA EligibleIsLent ==
  ASSUME ReturnsInv
  PROVE  /\ Facility!eligibleOutstanding \in Int
         /\ Facility!eligibleOutstanding <= Drawn + OtherDrawn
<1> DEFINE f == [i \in Facility!RepaymentIds |-> Facility!InFlightAmount(i)]
<1>1. f \in [1..MaxRepayments -> Nat]
  BY ReturnsAssumption
     DEF ReturnsInv, ReturnsTypeOK, Facility!LiquidityTypeOK, Facility!Repayments,
         Facility!InFlightAmount, Facility!RepaymentIds
<1>2. Total(f, MaxRepayments) \in Nat
  <2> HIDE DEF f
  <2>1. MaxRepayments \in Nat
    BY ReturnsAssumption
  <2> QED
    BY <1>1, <2>1, TotalOfNaturals
<1>3. Facility!InFlight \in Nat
  BY <1>2 DEF Facility!InFlight, Facility!Total, Facility!RunningTotal, Total, RunningTotal
<1>4. facility.drawn \in Int /\ 0 <= facility.drawn /\ facility.drawn <= Drawn + OtherDrawn
  BY ReturnsAssumption
     DEF ReturnsInv, ReturnsTypeOK, Facility!LiquidityTypeOK, Facility!Facilities, FacilityHolds,
         Facility!FacilityChecks
<1>5. Drawn + OtherDrawn \in Nat
  BY ReturnsAssumption
<1> QED
  BY <1>3, <1>4, <1>5 DEF Facility!eligibleOutstanding

(***************************************************************************)
(* The rows once a repayment was requested: one new row, for as much as    *)
(* was asked, and still one that can restore for each return.              *)
(***************************************************************************)
LEMMA RequestedRow ==
  ASSUME ReturnsInv, NEW s \in References \cup {NoReturn}, NEW amount \in Nat,
         Facility!requestRepayment(s, amount)
  PROVE  \E i \in Facility!RepaymentIds :
           /\ Facility!IsNextRepayment(i)
           /\ repayments[i].status = "NONE"
           /\ repayments'[i] = [settlement |-> s, amount |-> amount, status |-> "REQUESTED", attempt |-> 1]
           /\ \A j \in Facility!RepaymentIds : j # i => repayments'[j] = repayments[j]
           /\ Facility!LiquidityTypeOK'
           /\ FacilityHolds'
           /\ Facility!OneRestorationPerSettlement'
<1>1. PICK i \in Facility!RepaymentIds :
        /\ Facility!IsNextRepayment(i)
        /\ Facility!OneLiveRepayment(s, i)
        /\ repayments' = [repayments EXCEPT ![i] =
             [settlement |-> s, amount |-> amount, status |-> "REQUESTED", attempt |-> 1]]
  BY DEF Facility!requestRepayment
<1>2. repayments[i].status = "NONE"
  BY <1>1 DEF Facility!IsNextRepayment, Facility!RepaymentIds
<1>3. amount <= Drawn + OtherDrawn /\ Drawn + OtherDrawn \in Nat
  BY EligibleIsLent, ReturnsAssumption DEF Facility!requestRepayment
<1>4. [settlement |-> s, amount |-> amount, status |-> "REQUESTED", attempt |-> 1]
        \in Facility!Repayments
  BY <1>3, ReturnsAssumption DEF Facility!Repayments
<1>5. repayments \in [Facility!RepaymentIds -> Facility!Repayments]
  BY DEF ReturnsInv, ReturnsTypeOK, Facility!LiquidityTypeOK
<1>6. /\ repayments' \in [Facility!RepaymentIds -> Facility!Repayments]
      /\ repayments'[i] = [settlement |-> s, amount |-> amount, status |-> "REQUESTED", attempt |-> 1]
      /\ \A j \in Facility!RepaymentIds : j # i => repayments'[j] = repayments[j]
  BY <1>1, <1>4, <1>5
<1>7. UNCHANGED <<facility, reservations, ledger>>
  BY DEF Facility!requestRepayment
<1>8. Facility!LiquidityTypeOK'
  BY <1>6, <1>7 DEF ReturnsInv, ReturnsTypeOK, Facility!LiquidityTypeOK
<1>9. FacilityHolds'
  BY <1>7 DEF ReturnsInv, FacilityHolds, Facility!FacilityChecks
<1>10. Facility!OneRestorationPerSettlement'
  BY <1>1, <1>6 DEF ReturnsInv, Facility!OneRestorationPerSettlement, Facility!OneLiveRepayment
<1> QED
  BY <1>1, <1>2, <1>6, <1>8, <1>9, <1>10

(***************************************************************************)
(* A repayment an operator requests belongs to no return.                  *)
(***************************************************************************)
LEMMA ManualRequestKeeps ==
  ASSUME ReturnsInv, NEW amount \in ManualAmounts, requestManualRepayment(amount)
  PROVE  ReturnsInv'
<1>0. amount \in Nat
  BY ReturnsAssumption
<1>1. PICK i \in Facility!RepaymentIds :
        /\ repayments[i].status = "NONE"
        /\ repayments'[i] =
             [settlement |-> NoReturn, amount |-> amount, status |-> "REQUESTED", attempt |-> 1]
        /\ \A j \in Facility!RepaymentIds : j # i => repayments'[j] = repayments[j]
        /\ Facility!LiquidityTypeOK'
        /\ FacilityHolds'
        /\ Facility!OneRestorationPerSettlement'
  BY <1>0, RequestedRow DEF requestManualRepayment
<1>2. UNCHANGED returnVars
  BY DEF requestManualRepayment
<1>3. ReturnsTypeOK'
  BY <1>1, <1>2 DEF ReturnsInv, ReturnsTypeOK, returnVars, AttemptChecks
<1>4. CounterCovers'
  BY <1>2 DEF ReturnsInv, CounterCovers, CameBack, returnVars
<1>5. \A r \in References : ReturnIsLinked(r)'
  <2> TAKE r \in References
  <2>1. ReturnIsLinked(r) /\ returns[r].repayment \in {0} \cup Facility!RepaymentIds
    BY DEF ReturnsInv, ReturnsTypeOK
  <2>2. returns[r].repayment # 0 => returns[r].repayment # i
    <3>1. SUFFICES ASSUME returns[r].repayment # 0, returns[r].repayment = i PROVE FALSE
      OBVIOUS
    <3>2. repayments[i].settlement = r /\ r # NoReturn
      BY <2>1, <3>1, ReturnsAssumption DEF ReturnIsLinked
    <3> QED
      BY <1>1, <3>2 DEF ReturnsInv, RepaymentIsLinked
  <2> QED
    BY <1>1, <1>2, <2>1, <2>2 DEF ReturnIsLinked, returnVars
<1>6. \A j \in Facility!RepaymentIds : RepaymentIsLinked(j)'
  BY <1>1, <1>2 DEF ReturnsInv, RepaymentIsLinked, returnVars, proRataRepayment
<1>7. \A n \in notices' : NoticeIsTrue(n)'
  BY <1>2 DEF ReturnsInv, NoticeIsTrue, returnVars
<1> QED
  BY <1>1, <1>3, <1>4, <1>5, <1>6, <1>7 DEF ReturnsInv

(***************************************************************************)
(* A repayment advances: its row keeps its return and its amount, and one  *)
(* that is confirmed stays so.                                             *)
(***************************************************************************)
LEMMA AdvancedRow ==
  ASSUME ReturnsInv, NEW i \in Facility!RepaymentIds, advanceRepayment(i)
  PROVE  /\ repayments'[i].settlement = repayments[i].settlement
         /\ repayments'[i].amount = repayments[i].amount
         /\ repayments[i].status \notin {"NONE", "CONFIRMED"} /\ repayments'[i].status # "NONE"
         /\ \A j \in Facility!RepaymentIds : j # i => repayments'[j] = repayments[j]
         /\ Facility!LiquidityTypeOK'
         /\ FacilityHolds'
         /\ Facility!OneRestorationPerSettlement'
<1>1. PICK u \in Facility!RepaymentTransitions : Facility!advanceRepayment(i, u.trigger)
  BY DEF advanceRepayment
<1>2. PICK t \in Facility!RepaymentTransitions :
        /\ t.trigger = u.trigger
        /\ repayments[i].status = t.from
        /\ u.trigger = "re_request" => /\ repayments[i].attempt < MaxAttempt
                                       /\ Facility!OneLiveRepayment(repayments[i].settlement, i)
        /\ repayments' = [repayments EXCEPT ![i] =
             [settlement |-> repayments[i].settlement,
              amount     |-> repayments[i].amount,
              status     |-> t.to,
              attempt    |-> repayments[i].attempt + (IF u.trigger = "re_request" THEN 1 ELSE 0)]]
        /\ IF t.to = "CONFIRMED"
             THEN Facility!PostMovement("repayment_confirmed", repayments[i].amount)
             ELSE UNCHANGED <<facility, ledger>>
        /\ UNCHANGED reservations
  BY <1>1 DEF Facility!advanceRepayment
<1> DEFINE row ==
      [settlement |-> repayments[i].settlement, amount |-> repayments[i].amount, status |-> t.to,
       attempt |-> repayments[i].attempt + (IF u.trigger = "re_request" THEN 1 ELSE 0)]
<1>3. repayments \in [Facility!RepaymentIds -> Facility!Repayments]
      /\ repayments[i] \in Facility!Repayments
  BY DEF ReturnsInv, ReturnsTypeOK, Facility!LiquidityTypeOK
<1>4. /\ t.from \notin {"NONE", "CONFIRMED"}
      /\ t.to \in {"REQUESTED", "SUBMITTED", "CONFIRMED", "FAILED", "UNKNOWN"}
      /\ t.from = "FAILED" => t.trigger = "re_request"
  BY DEF Facility!RepaymentTransitions
<1>5. row \in Facility!Repayments
  <2>1. repayments[i].attempt + (IF u.trigger = "re_request" THEN 1 ELSE 0) \in 0..MaxAttempt
    BY <1>2, <1>3, ReturnsAssumption DEF Facility!Repayments
  <2> QED
    BY <1>3, <1>4, <2>1 DEF Facility!Repayments
<1>6. /\ repayments' \in [Facility!RepaymentIds -> Facility!Repayments]
      /\ repayments'[i] = row
      /\ \A j \in Facility!RepaymentIds : j # i => repayments'[j] = repayments[j]
  BY <1>2, <1>3, <1>5
<1>7. /\ row.settlement = repayments[i].settlement /\ row.amount = repayments[i].amount
      /\ row.status = t.to
  OBVIOUS
<1> HIDE DEF row
<1>8. facility \in Facility!Facilities /\ ledger \in [Facility!Movements -> Nat]
      /\ reservations \in [Facility!ReservationIds -> Facility!Reservations]
  BY DEF ReturnsInv, ReturnsTypeOK, Facility!LiquidityTypeOK
<1>9. facility' \in Facility!Facilities /\ FacilityHolds' /\ ledger' \in [Facility!Movements -> Nat]
  <2>1. CASE t.to # "CONFIRMED"
    BY <1>2, <1>8, <2>1 DEF ReturnsInv, FacilityHolds, Facility!FacilityChecks
  <2>2. CASE t.to = "CONFIRMED"
    <3>1. Facility!PostMovement("repayment_confirmed", repayments[i].amount)
      BY <1>2, <2>2
    <3>2. repayments[i].amount \in Nat
      BY <1>3, ReturnsAssumption DEF Facility!Repayments
    <3>3. /\ Facility!Delta("repayment_confirmed", repayments[i].amount, "drawn") \in Int
          /\ Facility!Delta("repayment_confirmed", repayments[i].amount, "reserved") = 0
      BY <3>2 DEF Facility!Delta, Facility!MovementPair
    <3>4. ledger' \in [Facility!Movements -> Nat]
      <4>1. ledger["repayment_confirmed"] \in Nat
        BY <1>8 DEF Facility!Movements, Facility!MovementPair
      <4>2. ledger["repayment_confirmed"] + repayments[i].amount \in Nat
        BY <3>2, <4>1
      <4> QED
        BY <1>8, <3>1, <4>2 DEF Facility!PostMovement
    <3>5. /\ facility'.status = facility.status /\ facility'.limit = facility.limit
          /\ facility'.reserved = facility.reserved + 0
          /\ facility'.drawn \in Int
          /\ facility' \in [status : {"ACTIVE", "SUSPENDED"}, limit : 0..(Drawn + OtherDrawn),
                            drawn : Int, reserved : Int]
          /\ Facility!FacilityChecks(facility')
      BY <1>8, <3>1, <3>3 DEF Facility!PostMovement, Facility!Facilities
    <3> QED
      BY <3>4, <3>5 DEF ReturnsInv, FacilityHolds, Facility!FacilityChecks, Facility!Facilities
  <2> QED
    BY <2>1, <2>2
<1>10. Facility!LiquidityTypeOK'
  BY <1>2, <1>6, <1>8, <1>9 DEF Facility!LiquidityTypeOK
<1>11. Facility!OneRestorationPerSettlement'
  <2>1. \A j \in Facility!RepaymentIds : repayments'[j].settlement = repayments[j].settlement
    BY <1>6, <1>7
  <2>2. \A j \in Facility!RepaymentIds : j # i => repayments'[j].status = repayments[j].status
    BY <1>6
  <2>3. CASE t.from # "FAILED"
    BY <1>2, <2>1, <2>2, <2>3 DEF ReturnsInv, Facility!OneRestorationPerSettlement
  <2>4. CASE t.from = "FAILED"
    BY <1>2, <1>4, <2>1, <2>2, <2>4
       DEF ReturnsInv, Facility!OneRestorationPerSettlement, Facility!OneLiveRepayment
  <2> QED
    BY <2>3, <2>4
<1> QED
  BY <1>2, <1>4, <1>6, <1>7, <1>9, <1>10, <1>11

(***************************************************************************)
(* The provider's answer to a repayment, or its next request: the return   *)
(* it belongs to and the amount it restores stay what they were.           *)
(***************************************************************************)
LEMMA AdvanceKeeps ==
  ASSUME ReturnsInv, NEW i \in Facility!RepaymentIds, advanceRepayment(i)
  PROVE  ReturnsInv'
<1>1. /\ repayments'[i].settlement = repayments[i].settlement
      /\ repayments'[i].amount = repayments[i].amount
      /\ repayments[i].status \notin {"NONE", "CONFIRMED"} /\ repayments'[i].status # "NONE"
      /\ \A j \in Facility!RepaymentIds : j # i => repayments'[j] = repayments[j]
      /\ Facility!LiquidityTypeOK'
      /\ FacilityHolds'
      /\ Facility!OneRestorationPerSettlement'
  BY AdvancedRow
<1>2. UNCHANGED returnVars
  BY DEF advanceRepayment
<1>3. ReturnsTypeOK'
  BY <1>1, <1>2 DEF ReturnsInv, ReturnsTypeOK, returnVars, AttemptChecks
<1>4. CounterCovers'
  BY <1>2 DEF ReturnsInv, CounterCovers, CameBack, returnVars
<1>5. \A r \in References : ReturnIsLinked(r)'
  <2> TAKE r \in References
  <2>1. ReturnIsLinked(r) /\ returns[r].repayment \in {0} \cup Facility!RepaymentIds
    BY DEF ReturnsInv, ReturnsTypeOK
  <2> QED
    BY <1>1, <1>2, <2>1 DEF ReturnIsLinked, returnVars
<1>6. \A j \in Facility!RepaymentIds : RepaymentIsLinked(j)'
  <2> TAKE j \in Facility!RepaymentIds
  <2>1. RepaymentIsLinked(j)
    BY DEF ReturnsInv
  <2> QED
    BY <1>1, <1>2, <2>1 DEF RepaymentIsLinked, returnVars, proRataRepayment
<1>7. \A n \in notices' : NoticeIsTrue(n)'
  BY <1>2 DEF ReturnsInv, NoticeIsTrue, returnVars
<1> QED
  BY <1>1, <1>3, <1>4, <1>5, <1>6, <1>7 DEF ReturnsInv

-----------------------------------------------------------------------------
(* Confirming a return *)

(***************************************************************************)
(* The return and the counter once a return is confirmed within the cap,   *)
(* whichever repayment its row names.                                      *)
(***************************************************************************)
LEMMA ConfirmedRowCounts ==
  ASSUME ReturnsInv, NEW r \in References, checkReturnCap(r),
         returns[r].status \in {"OBSERVED", "MANUAL_REVIEW"},
         attempt' = [attempt EXCEPT !.returned = ConfirmedSoFar + returns[r].amount],
         AttemptChecks(attempt'),
         returns' \in [References -> ReturnRows],
         returns'[r].status = "CONFIRMED", returns'[r].amount = returns[r].amount,
         \A q \in References : q # r => returns'[q] = returns[q]
  PROVE  /\ CounterCovers'
         /\ attempt' \in [credited : Nat \cup {Unknown}, returned : Nat]
         /\ attempt'.credited = attempt.credited
         /\ attempt.credited # Unknown
<1>1. /\ ReturnsTypeOK /\ attempt \in [credited : Nat \cup {Unknown}, returned : Nat]
      /\ returns[r].amount \in Nat
      /\ attempt.credited \in (Nat \ {0}) \cup {Unknown}
  BY DEF ReturnsInv, ReturnsTypeOK, CounterCovers
<1> DEFINE total == Total([q \in References |-> CameBack(q)], MaxReturns)
<1>2. ConfirmedSoFar = total
  BY DEF ConfirmedSoFar, ConfirmedRow, countsTowardCap, CameBack
<1>3. total \in Nat
  <2> DEFINE f == [q \in References |-> CameBack(q)]
  <2>1. f \in [1..MaxReturns -> Nat]
    BY <1>1 DEF ReturnsTypeOK, CameBack, References
  <2> HIDE DEF f
  <2>2. Total(f, MaxReturns) \in Nat
    BY <2>1, ReturnsAssumption, TotalOfNaturals
  <2> QED
    BY <2>2 DEF f
<1>4. total' = total + CameBack(r)' - CameBack(r)
  BY <1>1, CameBackChange
<1>5. CameBack(r)' = returns[r].amount /\ CameBack(r) = 0
  BY DEF CameBack
<1> HIDE DEF total
<1>6. total' = total + returns[r].amount /\ total + returns[r].amount \in Nat
  BY <1>1, <1>3, <1>4, <1>5
<1>7. /\ attempt' \in [credited : Nat \cup {Unknown}, returned : Nat]
      /\ attempt'.credited = attempt.credited
      /\ attempt'.returned = total + returns[r].amount
  BY <1>1, <1>2, <1>6
<1>8. total' <= attempt'.returned
  BY <1>6, <1>7
<1> QED
  BY <1>1, <1>7, <1>8 DEF CounterCovers, total, checkReturnCap

(***************************************************************************)
(* N02 and N06 when the repayment is refused: the return is confirmed and  *)
(* the facility is as it was.                                              *)
(***************************************************************************)
LEMMA RefusedConfirmKeeps ==
  ASSUME ReturnsInv, NEW r \in References, NEW to,
         to \in evaluateReturnTransition(returns[r].status, ConfirmTrigger(r)),
         checkReturnCap(r), confirmWithinCap(r, to), RefusedRequest(r),
         checks' = [checks EXCEPT ![r] = "NONE"], UNCHANGED <<reported, swept>>
  PROVE  ReturnsInv'
<1>1. returns[r].status \in {"OBSERVED", "MANUAL_REVIEW"} /\ to = "CONFIRMED"
  BY ReturnTable DEF ConfirmTrigger
<1>2. /\ attempt' = [attempt EXCEPT !.returned = ConfirmedSoFar + returns[r].amount]
      /\ AttemptChecks(attempt')
      /\ returns' = [returns EXCEPT ![r].status = to]
      /\ UNCHANGED <<notices, facility, reservations, repayments, ledger>>
  BY DEF confirmWithinCap
<1>3. returns \in [References -> ReturnRows] /\ returns[r] \in ReturnRows
  BY DEF ReturnsInv, ReturnsTypeOK, ReturnRows, ReturnStatuses
<1> DEFINE row == [returns[r] EXCEPT !.status = to]
<1>4. /\ row \in ReturnRows /\ row.status = "CONFIRMED"
      /\ row.amount = returns[r].amount /\ row.repayment = returns[r].repayment
  BY <1>1, <1>3 DEF ReturnRows, ReturnStatuses
<1>5. returns' = [returns EXCEPT ![r] = row]
  BY <1>2, <1>3
<1> HIDE DEF row
<1>6. /\ returns' \in [References -> ReturnRows]
      /\ returns'[r] = row
      /\ \A q \in References : q # r => returns'[q] = returns[q]
  BY <1>3, <1>4, <1>5
<1>7. /\ CounterCovers'
      /\ attempt' \in [credited : Nat \cup {Unknown}, returned : Nat]
      /\ attempt'.credited = attempt.credited
  BY <1>1, <1>2, <1>4, <1>6, ConfirmedRowCounts
<1>8. \A q \in References :
        /\ returns'[q].amount = returns[q].amount /\ returns'[q].repayment = returns[q].repayment
        /\ returns[q].status # "NONE" => returns'[q].status # "NONE"
  BY <1>4, <1>6
<1>9. ReturnsTypeOK'
  BY <1>2, <1>6, <1>7 DEF ReturnsInv, ReturnsTypeOK, ReturnRows, ReturnStatuses,
      Facility!LiquidityTypeOK
<1>10. FacilityHolds' /\ Facility!OneRestorationPerSettlement'
  BY <1>2 DEF ReturnsInv, FacilityHolds, Facility!FacilityChecks, Facility!OneRestorationPerSettlement
<1>11. \A q \in References : ReturnIsLinked(q)'
  BY <1>2, <1>4, <1>6, <1>8 DEF ReturnsInv, ReturnIsLinked
<1>12. \A i \in Facility!RepaymentIds : RepaymentIsLinked(i)'
  <2> TAKE i \in Facility!RepaymentIds
  <2>1. repayments[i].settlement \in References \cup {NoReturn} /\ RepaymentIsLinked(i)
    BY DEF ReturnsInv, ReturnsTypeOK, Facility!LiquidityTypeOK, Facility!Repayments
  <2> QED
    BY <1>2, <1>7, <1>8, <2>1 DEF RepaymentIsLinked, proRataRepayment
<1>13. \A n \in notices' : NoticeIsTrue(n)'
  <2> TAKE n \in notices'
  <2>1. n \in notices /\ n.return \in References /\ NoticeIsTrue(n)
    BY <1>2 DEF ReturnsInv, ReturnsTypeOK
  <2> QED
    BY <1>8, <2>1 DEF NoticeIsTrue
<1> QED
  BY <1>7, <1>9, <1>10, <1>11, <1>12, <1>13 DEF ReturnsInv

(***************************************************************************)
(* ... and when it is accepted: the return names the new repayment, which  *)
(* is its own, for its share, and a notice says so.                        *)
(***************************************************************************)
LEMMA RequestedConfirmKeeps ==
  ASSUME ReturnsInv, NEW r \in References, NEW to,
         to \in evaluateReturnTransition(returns[r].status, ConfirmTrigger(r)),
         checkReturnCap(r), confirmWithinCap(r, to), ~RefusedRequest(r),
         checks' = [checks EXCEPT ![r] = "NONE"], UNCHANGED <<reported, swept>>
  PROVE  ReturnsInv'
<1>1. returns[r].status \in {"OBSERVED", "MANUAL_REVIEW"} /\ to = "CONFIRMED"
  BY ReturnTable DEF ConfirmTrigger
<1>2. /\ attempt' = [attempt EXCEPT !.returned = ConfirmedSoFar + returns[r].amount]
      /\ AttemptChecks(attempt')
      /\ Facility!requestRepayment(r, proRataRepayment(returns[r].amount))
      /\ issueReturnNotice(r, to)
  BY DEF confirmWithinCap
<1>3. returns \in [References -> ReturnRows] /\ returns[r] \in ReturnRows
  BY DEF ReturnsInv, ReturnsTypeOK, ReturnRows, ReturnStatuses
<1>4. proRataRepayment(returns[r].amount) \in Nat
  <2>1. attempt.credited \in Nat \ {0}
    BY DEF ReturnsInv, CounterCovers, checkReturnCap
  <2>2. Drawn * returns[r].amount \in Nat
    BY <1>3, ReturnsAssumption DEF ReturnRows
  <2> QED
    BY <2>1, <2>2, RoundedDown DEF proRataRepayment
<1>5. PICK i \in Facility!RepaymentIds :
        /\ Facility!IsNextRepayment(i)
        /\ repayments[i].status = "NONE"
        /\ repayments'[i] = [settlement |-> r, amount |-> proRataRepayment(returns[r].amount),
                             status |-> "REQUESTED", attempt |-> 1]
        /\ \A j \in Facility!RepaymentIds : j # i => repayments'[j] = repayments[j]
        /\ Facility!LiquidityTypeOK'
        /\ FacilityHolds'
        /\ Facility!OneRestorationPerSettlement'
  BY <1>2, <1>4, RequestedRow
<1>6. PICK k \in Facility!RepaymentIds :
        /\ Facility!IsNextRepayment(k)
        /\ returns' = [returns EXCEPT ![r].status = to, ![r].repayment = k]
  BY DEF confirmWithinCap
<1>7. k = i
  <2>1. i \in 1..MaxRepayments /\ k \in 1..MaxRepayments /\ MaxRepayments \in Nat
    BY ReturnsAssumption DEF Facility!RepaymentIds
  <2>2. \A p, q \in 1..MaxRepayments :
          Facility!IsNextRepayment(p) /\ Facility!IsNextRepayment(q) => ~(p < q)
    BY <2>1 DEF Facility!IsNextRepayment
  <2> QED
    BY <1>5, <1>6, <2>1, <2>2
<1> DEFINE half == [returns[r] EXCEPT !.status = to]
           row == [half EXCEPT !.repayment = i]
<1>8. half \in ReturnRows /\ half.status = "CONFIRMED" /\ half.amount = returns[r].amount
  BY <1>1, <1>3 DEF ReturnRows, ReturnStatuses
<1>9. returns' = [returns EXCEPT ![r] = row]
  BY <1>3, <1>6, <1>7
<1>10. row \in ReturnRows /\ row.status = "CONFIRMED" /\ row.amount = returns[r].amount
       /\ row.repayment = i
  <2> HIDE DEF half
  <2> QED
    BY <1>8 DEF ReturnRows
<1> HIDE DEF row, half
<1>11. /\ returns' \in [References -> ReturnRows]
       /\ returns'[r] = row
       /\ \A q \in References : q # r => returns'[q] = returns[q]
  BY <1>3, <1>9, <1>10
<1>12. /\ CounterCovers'
       /\ attempt' \in [credited : Nat \cup {Unknown}, returned : Nat]
       /\ attempt'.credited = attempt.credited /\ attempt.credited # Unknown
  BY <1>1, <1>2, <1>10, <1>11, ConfirmedRowCounts
<1>13. \A q \in References :
         /\ returns'[q].amount = returns[q].amount
         /\ returns[q].status # "NONE" => returns'[q].status # "NONE"
  BY <1>10, <1>11
<1>14. /\ \E n \in notices' : n.return = r
       /\ notices \subseteq notices'
       /\ \A n \in notices' : n \in notices \/ n = returnNoticeDocument(r, to)
  <2>1. returnNoticeDocument(r, to).return = r
    BY DEF returnNoticeDocument
  <2> QED
    BY <1>2, <2>1 DEF issueReturnNotice
<1>15. returnNoticeDocument(r, to) \in [return : References, amount : Nat, status_at_issue : {"CONFIRMED"}]
  BY <1>1, <1>3 DEF returnNoticeDocument, ReturnRows
<1>16. ReturnsTypeOK'
  <2>1. notices' \subseteq [return : References, amount : Nat, status_at_issue : {"CONFIRMED"}]
    BY <1>14, <1>15 DEF ReturnsInv, ReturnsTypeOK
  <2>2. checks' \in [References -> {"NONE", "UPHELD", "NOT_UPHELD"}] /\ reported' \in Nat
        /\ swept' \subseteq References
    BY DEF ReturnsInv, ReturnsTypeOK
  <2> QED
    BY <1>2, <1>5, <1>11, <1>12, <2>1, <2>2 DEF ReturnsTypeOK, ReturnRows, ReturnStatuses
<1>17. \A q \in References : ReturnIsLinked(q)'
  <2> TAKE q \in References
  <2>1. CASE q = r
    BY <1>5, <1>10, <1>11, <1>14, <2>1, ReturnsAssumption
       DEF ReturnIsLinked, Facility!RepaymentIds
  <2>2. CASE q # r
    <3>1. ReturnIsLinked(q) /\ returns[q].repayment \in {0} \cup Facility!RepaymentIds
      BY <1>3 DEF ReturnsInv, ReturnRows
    <3>2. returns[q].repayment # 0 => returns[q].repayment # i
      <4>1. SUFFICES ASSUME returns[q].repayment # 0, returns[q].repayment = i PROVE FALSE
        OBVIOUS
      <4>2. repayments[i].settlement = q /\ q # NoReturn
        BY <3>1, <4>1, ReturnsAssumption DEF ReturnIsLinked
      <4> QED
        BY <1>5, <4>2 DEF ReturnsInv, RepaymentIsLinked
    <3> QED
      BY <1>5, <1>11, <1>14, <2>2, <3>1, <3>2 DEF ReturnIsLinked
  <2> QED
    BY <2>1, <2>2
<1>18. \A j \in Facility!RepaymentIds : RepaymentIsLinked(j)'
  <2> TAKE j \in Facility!RepaymentIds
  <2>1. repayments[j].settlement \in References \cup {NoReturn} /\ RepaymentIsLinked(j)
    BY DEF ReturnsInv, ReturnsTypeOK, Facility!LiquidityTypeOK, Facility!Repayments
  <2>2. CASE j # i
    BY <1>5, <1>12, <1>13, <2>1, <2>2 DEF RepaymentIsLinked, proRataRepayment
  <2>3. CASE j = i
    BY <1>5, <1>10, <1>11, <1>12, <2>3 DEF RepaymentIsLinked, proRataRepayment
  <2> QED
    BY <2>2, <2>3
<1>19. \A n \in notices' : NoticeIsTrue(n)'
  <2> TAKE n \in notices'
  <2>1. CASE n \in notices
    <3>1. n.return \in References /\ NoticeIsTrue(n)
      BY <2>1 DEF ReturnsInv, ReturnsTypeOK
    <3> QED
      BY <1>13, <3>1 DEF NoticeIsTrue
  <2>2. CASE n = returnNoticeDocument(r, to)
    BY <1>10, <1>11, <2>2 DEF NoticeIsTrue, returnNoticeDocument
  <2> QED
    BY <1>14, <2>1, <2>2
<1> QED
  BY <1>5, <1>12, <1>16, <1>17, <1>18, <1>19 DEF ReturnsInv

-----------------------------------------------------------------------------
(* The remaining calls, and the invariant *)

(***************************************************************************)
(* Escalating moves a status to one from which nothing has come back.      *)
(***************************************************************************)
LEMMA EscalatedIsStatusStep ==
  ASSUME NEW r \in References, Escalated(r),
         UNCHANGED <<attempt, notices, facility, reservations, repayments, ledger>>
  PROVE  StatusStep(r, "MANUAL_REVIEW")
<1>1. PICK to \in evaluateReturnTransition(returns[r].status, "escalate") :
        returns' = [returns EXCEPT ![r].status = to]
  BY DEF Escalated
<1>2. to = "MANUAL_REVIEW" /\ returns[r].status \notin {"NONE", "REPAID"}
  BY ReturnTable
<1> QED
  BY <1>1, <1>2 DEF StatusStep, ReturnStatuses

(***************************************************************************)
(* confirmReturn: within the cap, beyond it, or with a repayment the       *)
(* facility refuses.                                                       *)
(***************************************************************************)
LEMMA ConfirmKeeps ==
  ASSUME ReturnsInv, NEW r \in References, confirmReturn(r)
  PROVE  ReturnsInv'
<1>1. PICK to \in evaluateReturnTransition(returns[r].status, ConfirmTrigger(r)) :
        IF checkReturnCap(r)
          THEN confirmWithinCap(r, to)
          ELSE /\ Escalated(r)
               /\ UNCHANGED <<attempt, notices>>
               /\ UNCHANGED <<facility, reservations, repayments, ledger>>
  BY DEF confirmReturn
<1>2. checks' = [checks EXCEPT ![r] = "NONE"] /\ UNCHANGED <<reported, swept>>
  BY DEF confirmReturn
<1>3. CASE ~checkReturnCap(r)
  <2>1. StatusStep(r, "MANUAL_REVIEW")
    BY <1>1, <1>3, EscalatedIsStatusStep
  <2>2. /\ reported' \in Nat /\ checks' \in [References -> {"NONE", "UPHELD", "NOT_UPHELD"}]
        /\ swept' \subseteq References
    BY <1>2 DEF ReturnsInv, ReturnsTypeOK
  <2> QED
    BY <2>1, <2>2, StatusStepKeeps
<1>4. CASE checkReturnCap(r) /\ RefusedRequest(r)
  BY <1>1, <1>2, <1>4, RefusedConfirmKeeps
<1>5. CASE checkReturnCap(r) /\ ~RefusedRequest(r)
  BY <1>1, <1>2, <1>5, RequestedConfirmKeeps
<1> QED
  BY <1>3, <1>4, <1>5

(***************************************************************************)
(* rejectReturn.                                                           *)
(***************************************************************************)
LEMMA RejectKeeps ==
  ASSUME ReturnsInv, NEW r \in References, rejectReturn(r)
  PROVE  ReturnsInv'
<1>1. PICK to \in evaluateReturnTransition(returns[r].status, RejectTrigger(r)) :
        returns' = [returns EXCEPT ![r].status = to]
  BY DEF rejectReturn
<1>2. to = "REJECTED" /\ returns[r].status \notin {"NONE", "REPAID"}
  BY ReturnTable DEF RejectTrigger
<1>3. StatusStep(r, "REJECTED")
  BY <1>1, <1>2 DEF StatusStep, ReturnStatuses, rejectReturn
<1>4. /\ reported' \in Nat /\ checks' \in [References -> {"NONE", "UPHELD", "NOT_UPHELD"}]
      /\ swept' \subseteq References
  BY DEF ReturnsInv, ReturnsTypeOK, rejectReturn
<1> QED
  BY <1>3, <1>4, StatusStepKeeps

(***************************************************************************)
(* markReturnRepaid, of a return whose repayment is confirmed.             *)
(***************************************************************************)
LEMMA MarkRepaidKeeps ==
  ASSUME ReturnsInv, NEW r \in References, markReturnRepaid(r)
  PROVE  ReturnsInv'
<1>1. PICK to \in evaluateReturnTransition(returns[r].status, "repaid") :
        returns' = [returns EXCEPT ![r].status = to]
  BY DEF markReturnRepaid
<1>2. to = "REPAID" /\ returns[r].status = "CONFIRMED"
  BY ReturnTable
<1>3. StatusStep(r, "REPAID")
  BY <1>1, <1>2 DEF StatusStep, ReturnStatuses, markReturnRepaid
<1>4. /\ reported' \in Nat /\ checks' \in [References -> {"NONE", "UPHELD", "NOT_UPHELD"}]
      /\ swept' \subseteq References
  BY DEF ReturnsInv, ReturnsTypeOK, markReturnRepaid
<1> QED
  BY <1>3, <1>4, StatusStepKeeps

(***************************************************************************)
(* escalateReturn, or a return that cannot be escalated.                   *)
(***************************************************************************)
LEMMA EscalateKeeps ==
  ASSUME ReturnsInv, NEW r \in References, escalateReturn(r)
  PROVE  ReturnsInv'
<1>1. /\ reported' \in Nat /\ checks' \in [References -> {"NONE", "UPHELD", "NOT_UPHELD"}]
      /\ swept' \subseteq References
  BY DEF ReturnsInv, ReturnsTypeOK, escalateReturn
<1>2. CASE Escalated(r)
  <2>1. StatusStep(r, "MANUAL_REVIEW")
    BY <1>2, EscalatedIsStatusStep DEF escalateReturn
  <2> QED
    BY <1>1, <2>1, StatusStepKeeps
<1>3. CASE UNCHANGED returns
  <2>1. QuietStep
    BY <1>3 DEF QuietStep, escalateReturn
  <2> QED
    BY <1>1, <2>1, QuietStepKeeps
<1> QED
  BY <1>2, <1>3 DEF escalateReturn

(***************************************************************************)
(* Before anything came back the invariant holds.                          *)
(***************************************************************************)
LEMMA ReturnsInitHolds == ReturnsInit => ReturnsInv
<1> SUFFICES ASSUME ReturnsInit PROVE ReturnsInv
  OBVIOUS
<1>1. attempt.credited \in (Nat \ {0}) \cup {Unknown} /\ attempt.returned = 0
      /\ attempt \in [credited : Nat \cup {Unknown}, returned : Nat]
  BY ReturnsAssumption DEF ReturnsInit
<1>2. \A r \in References : returns[r] = UnusedReturn
  BY DEF ReturnsInit
<1>3. Facility!LiquidityTypeOK
  <2>1. facility \in Facility!Facilities
    BY ReturnsAssumption DEF ReturnsInit, Facility!Facilities
  <2>2. reservations \in [Facility!ReservationIds -> Facility!Reservations]
    BY ReturnsAssumption DEF ReturnsInit, Facility!ReservationIds, Facility!Reservations
  <2>3. repayments \in [Facility!RepaymentIds -> Facility!Repayments]
    BY ReturnsAssumption DEF ReturnsInit, Facility!UnusedRepayment, Facility!Repayments
  <2>4. ledger \in [Facility!Movements -> Nat]
    BY ReturnsAssumption DEF ReturnsInit
  <2> QED
    BY <2>1, <2>2, <2>3, <2>4 DEF Facility!LiquidityTypeOK
<1>4. ReturnsTypeOK
  <2>1. returns \in [References ->
          [status : {"NONE", "OBSERVED", "CONFIRMED", "REPAID", "REJECTED", "MANUAL_REVIEW"},
           amount : Nat, repayment : {0} \cup Facility!RepaymentIds]]
    BY DEF ReturnsInit, UnusedReturn
  <2>2. checks \in [References -> {"NONE", "UPHELD", "NOT_UPHELD"}] /\ reported \in Nat
        /\ swept \subseteq References /\ notices = {}
    BY DEF ReturnsInit
  <2> QED
    BY <1>1, <1>3, <2>1, <2>2 DEF ReturnsTypeOK, AttemptChecks
<1>5. CounterCovers
  <2> DEFINE f == [r \in References |-> CameBack(r)]
  <2>1. f \in [1..MaxReturns -> Int] /\ \A k \in 1..MaxReturns : f[k] = 0
    BY <1>2 DEF CameBack, UnusedReturn, References
  <2> HIDE DEF f
  <2>2. Total(f, MaxReturns) = 0
    BY <2>1, ReturnsAssumption, TotalOfZeros
  <2> QED
    BY <1>1, <2>2 DEF CounterCovers, f
<1>6. FacilityHolds
  BY ReturnsAssumption DEF ReturnsInit, FacilityHolds, Facility!FacilityChecks
<1>7. \A i \in Facility!RepaymentIds : repayments[i] = Facility!UnusedRepayment
  BY DEF ReturnsInit
<1>8. \A r \in References : ReturnIsLinked(r)
  BY <1>2 DEF ReturnIsLinked, UnusedReturn
<1>9. /\ \A i \in Facility!RepaymentIds : RepaymentIsLinked(i)
      /\ \A n \in notices : NoticeIsTrue(n)
      /\ Facility!OneRestorationPerSettlement
  BY <1>7 DEF ReturnsInit, RepaymentIsLinked, Facility!OneRestorationPerSettlement,
      Facility!UnusedRepayment
<1> QED
  BY <1>4, <1>5, <1>6, <1>8, <1>9 DEF ReturnsInv

(***************************************************************************)
(* Every step keeps it.                                                    *)
(***************************************************************************)
LEMMA ReturnsNextKeeps == ReturnsInv /\ [ReturnsNext]_allVars => ReturnsInv'
<1> SUFFICES ASSUME ReturnsInv, [ReturnsNext]_allVars PROVE ReturnsInv'
  OBVIOUS
<1>1. ASSUME NEW r \in References, NEW amount \in ReturnAmounts, NEW mapped \in BOOLEAN,
             NEW elapsed \in {Window, Window + 1}, openReturn(r, amount, mapped, elapsed)
      PROVE  ReturnsInv'
  BY <1>1, OpenKeeps
<1>2. ASSUME NEW total \in ReturnAmounts, providerReturns(total) PROVE ReturnsInv'
  <2>1. total \in Nat
    BY ReturnsAssumption
  <2>2. QuietStep /\ reported' \in Nat
        /\ checks' \in [References -> {"NONE", "UPHELD", "NOT_UPHELD"}] /\ swept' \subseteq References
    BY <1>2, <2>1 DEF providerReturns, QuietStep, ReturnsInv, ReturnsTypeOK
  <2> QED
    BY <2>2, QuietStepKeeps
<1>3. ASSUME NEW r \in References, NEW answer, checkReturnWithProvider(r, answer)
      PROVE  ReturnsInv'
  <2>1. QuietStep /\ reported' \in Nat
        /\ checks' \in [References -> {"NONE", "UPHELD", "NOT_UPHELD"}] /\ swept' \subseteq References
    BY <1>3 DEF checkReturnWithProvider, QuietStep, ReturnsInv, ReturnsTypeOK
  <2> QED
    BY <2>1, QuietStepKeeps
<1>4. ASSUME NEW r \in References, confirmReturn(r) PROVE ReturnsInv'
  BY <1>4, ConfirmKeeps
<1>5. ASSUME NEW r \in References, rejectReturn(r) PROVE ReturnsInv'
  BY <1>5, RejectKeeps
<1>6. ASSUME NEW r \in References, markReturnRepaid(r) PROVE ReturnsInv'
  BY <1>6, MarkRepaidKeeps
<1>7. ASSUME selectOverdue PROVE ReturnsInv'
  <2>1. QuietStep /\ reported' \in Nat
        /\ checks' \in [References -> {"NONE", "UPHELD", "NOT_UPHELD"}] /\ swept' \subseteq References
    BY <1>7 DEF selectOverdue, QuietStep, ReturnsInv, ReturnsTypeOK
  <2> QED
    BY <2>1, QuietStepKeeps
<1>8. ASSUME NEW r \in References, escalateReturn(r) PROVE ReturnsInv'
  BY <1>8, EscalateKeeps
<1>9. ASSUME NEW i \in Facility!RepaymentIds, advanceRepayment(i) PROVE ReturnsInv'
  BY <1>9, AdvanceKeeps
<1>10. ASSUME NEW amount \in ManualAmounts, requestManualRepayment(amount) PROVE ReturnsInv'
  BY <1>10, ManualRequestKeeps
<1>11. ASSUME UNCHANGED allVars PROVE ReturnsInv'
  <2>1. QuietStep /\ reported' \in Nat
        /\ checks' \in [References -> {"NONE", "UPHELD", "NOT_UPHELD"}] /\ swept' \subseteq References
    BY <1>11 DEF allVars, returnVars, QuietStep, ReturnsInv, ReturnsTypeOK
  <2> QED
    BY <2>1, QuietStepKeeps
<1> QED
  BY <1>1, <1>2, <1>3, <1>4, <1>5, <1>6, <1>7, <1>8, <1>9, <1>10, <1>11 DEF ReturnsNext

(***************************************************************************)
(* The returns, the counter on the attempt and the facility's repayments   *)
(* agree in every reachable state.                                         *)
(***************************************************************************)
LEMMA ReturnsInvariant == ReturnsSpec => []ReturnsInv
<1> QED
  BY ReturnsInitHolds, ReturnsNextKeeps, PTL DEF ReturnsSpec

-----------------------------------------------------------------------------
(***************************************************************************)
(* INV-49: what came back is within what was delivered, and the counter    *)
(* confirmReturn keeps on the attempt covers it, whatever the amounts and  *)
(* the order in which returns are reported, checked and resolved.          *)
(***************************************************************************)
THEOREM WhatCameBackWasDelivered == ReturnsSpec => []ConfirmedWithinDelivered
<1>1. ReturnsInv => ConfirmedWithinDelivered
  <2> SUFFICES ASSUME ReturnsInv PROVE ConfirmedWithinDelivered
    OBVIOUS
  <2> DEFINE total == Total([r \in References |-> CameBack(r)], MaxReturns)
  <2>1. total \in Int
    <3> DEFINE f == [r \in References |-> CameBack(r)]
    <3>1. f \in [1..MaxReturns -> Nat]
      BY DEF ReturnsInv, ReturnsTypeOK, CameBack, References
    <3> HIDE DEF f
    <3>2. Total(f, MaxReturns) \in Nat
      BY <3>1, ReturnsAssumption, TotalOfNaturals
    <3> QED
      BY <3>2 DEF f
  <2>2. total <= attempt.returned
    BY DEF ReturnsInv, CounterCovers
  <2> HIDE DEF total
  <2>3. attempt.credited # Unknown => total <= attempt.credited
    <3>1. /\ attempt.returned \in Nat
          /\ attempt.credited # Unknown => attempt.credited \in Nat
          /\ AttemptChecks(attempt)
      BY DEF ReturnsInv, ReturnsTypeOK
    <3> QED
      BY <2>1, <2>2, <3>1 DEF AttemptChecks
  <2> QED
    BY <2>2, <2>3 DEF ConfirmedWithinDelivered, total
<1> QED
  BY <1>1, ReturnsInvariant, PTL

(***************************************************************************)
(* The shares add up to no more than the drawdown: each is its return's    *)
(* fraction rounded down, no two are of one return, and the returns are    *)
(* under the cap.                                                          *)
(***************************************************************************)
LEMMA SharesAreWithinDrawdown == ReturnsInv => RestorationWithinDrawdown
<1> SUFFICES ASSUME ReturnsInv PROVE RestorationWithinDrawdown
  OBVIOUS
<1> DEFINE f == [i \in Facility!RepaymentIds |-> ShareOf(i)]
<1>0. /\ Facility!RepaymentIds = 1..MaxRepayments /\ MaxRepayments \in Nat /\ MaxReturns \in Nat
      /\ Drawn \in Nat /\ References = 1..MaxReturns /\ OtherDrawn \in Nat
  BY ReturnsAssumption DEF Facility!RepaymentIds, References
<1>1. \A i \in Facility!RepaymentIds :
        /\ repayments[i].amount \in Nat
        /\ repayments[i].settlement \in References \cup {NoReturn}
        /\ RepaymentIsLinked(i)
  BY <1>0 DEF ReturnsInv, ReturnsTypeOK, Facility!LiquidityTypeOK, Facility!Repayments
<1>2. f \in [1..MaxRepayments -> Nat]
  BY <1>0, <1>1 DEF ShareOf
<1>3. \A i \in 1..MaxRepayments : f[i] = ShareOf(i)
  BY <1>0
<1>4. RestorationWithinDrawdown <=> Total(f, MaxRepayments) <= Drawn
  BY DEF RestorationWithinDrawdown
<1> HIDE DEF f
<1>5. CASE attempt.credited = Unknown
  <2>1. \A i \in 1..MaxRepayments : f[i] = 0
    BY <1>0, <1>1, <1>3, <1>5 DEF RepaymentIsLinked, ShareOf
  <2>2. f \in [1..MaxRepayments -> Int]
    BY <1>2
  <2>3. Total(f, MaxRepayments) = 0
    BY <1>0, <2>1, <2>2, TotalOfZeros
  <2> QED
    BY <1>0, <1>4, <2>3
<1>6. CASE attempt.credited # Unknown
  <2> DEFINE cf == [i \in 1..MaxRepayments |-> attempt.credited * f[i]]
             back == [r \in References |-> ConfirmedRow(r)]
             g == [r \in 1..MaxReturns |-> Drawn * back[r]]
             owner == [i \in 1..MaxRepayments |-> repayments[i].settlement]
  <2>1. attempt.credited \in Nat \ {0}
    BY <1>6 DEF ReturnsInv, CounterCovers
  <2>2. back \in [1..MaxReturns -> Nat]
    BY <1>0 DEF ReturnsInv, ReturnsTypeOK, ConfirmedRow
  <2>3. \A r \in References : back[r] = ConfirmedRow(r)
    OBVIOUS
  <2>4. Total(back, MaxReturns) <= attempt.credited
    <3>1. Total(back, MaxReturns) <= attempt.returned
      BY DEF ReturnsInv, CounterCovers, ConfirmedRow, countsTowardCap, CameBack
    <3> HIDE DEF back
    <3>2. Total(back, MaxReturns) \in Nat
      BY <1>0, <2>2, TotalOfNaturals
    <3>3. attempt.returned \in Nat /\ AttemptChecks(attempt)
      BY DEF ReturnsInv, ReturnsTypeOK
    <3> QED
      BY <2>1, <3>1, <3>2, <3>3 DEF AttemptChecks
  <2> HIDE DEF back
  <2>5. \A i \in 1..MaxRepayments : cf[i] = attempt.credited * f[i] /\ cf[i] \in Nat
    BY <1>2, <2>1
  <2>6. \A r \in 1..MaxReturns : g[r] = Drawn * back[r] /\ g[r] \in Nat
    BY <1>0, <2>2
  <2>7. cf \in [1..MaxRepayments -> Nat] /\ g \in [1..MaxReturns -> Nat]
    BY <2>5, <2>6
  <2>8. \A i \in 1..MaxRepayments : owner[i] = repayments[i].settlement
    OBVIOUS
  <2> HIDE DEF cf, g, owner
  <2>9. ASSUME NEW i \in 1..MaxRepayments, cf[i] # 0
        PROVE  /\ owner[i] \in 1..MaxReturns
               /\ cf[i] <= g[owner[i]]
               /\ repayments[i].status \notin {"NONE", "FAILED"} /\ owner[i] # NoReturn
    <3>1. f[i] # 0
      BY <2>1, <2>5, <2>9
    <3> DEFINE r == repayments[i].settlement
    <3>2. /\ r # NoReturn /\ repayments[i].status \notin {"NONE", "FAILED"}
          /\ countsTowardCap(r) /\ f[i] = repayments[i].amount
      BY <1>3, <3>1 DEF ShareOf
    <3>3. r \in References /\ repayments[i].amount = proRataRepayment(returns[r].amount)
      BY <1>0, <1>1, <3>2 DEF RepaymentIsLinked
    <3> HIDE DEF r
    <3>4. returns[r].amount \in Nat
      BY <3>3 DEF ReturnsInv, ReturnsTypeOK
    <3>5. Drawn * returns[r].amount \in Nat
      BY <1>0, <3>4
    <3>6. f[i] \in Nat /\ f[i] = (Drawn * returns[r].amount) \div attempt.credited
      BY <1>2, <3>2, <3>3 DEF proRataRepayment
    <3>7. f[i] * attempt.credited <= Drawn * returns[r].amount
      BY <2>1, <3>5, <3>6, RoundedDown
    <3>8. cf[i] = f[i] * attempt.credited
      BY <2>1, <2>5, <3>6
    <3>9. g[r] = Drawn * returns[r].amount
      BY <1>0, <2>3, <2>6, <3>2, <3>3 DEF ConfirmedRow
    <3> QED
      BY <1>0, <2>8, <3>2, <3>3, <3>7, <3>8, <3>9 DEF r
  <2>10. ASSUME NEW i \in 1..MaxRepayments, NEW j \in 1..MaxRepayments,
                cf[i] # 0, cf[j] # 0, owner[i] = owner[j]
         PROVE  i = j
    BY <1>0, <2>8, <2>9, <2>10 DEF ReturnsInv, Facility!OneRestorationPerSettlement
  <2>11. Within(cf, g, owner, MaxRepayments, MaxReturns, MaxRepayments)
    BY <2>9, <2>10 DEF Within
  <2>12. Total(cf, MaxRepayments) <= Total(g, MaxReturns)
    BY <1>0, <2>7, <2>11, TotalWithin
  <2>13. Total(cf, MaxRepayments) = attempt.credited * Total(f, MaxRepayments)
    <3>1. attempt.credited \in Nat
      BY <2>1
    <3> QED
      BY <1>0, <1>2, <2>5, <2>7, <3>1, TotalScaled
  <2>14. Total(g, MaxReturns) = Drawn * Total(back, MaxReturns)
    BY <1>0, <2>2, <2>6, <2>7, TotalScaled
  <2>15. Total(f, MaxRepayments) \in Nat /\ Total(back, MaxReturns) \in Nat
    BY <1>0, <1>2, <2>2, TotalOfNaturals
  <2>16. Drawn * Total(back, MaxReturns) <= Drawn * attempt.credited
    BY <1>0, <2>1, <2>4, <2>15, SameFactor
  <2>17. attempt.credited * Total(f, MaxRepayments) <= Drawn * attempt.credited
    <3> DEFINE x == attempt.credited * Total(f, MaxRepayments)
               y == Drawn * Total(back, MaxReturns)
               z == Drawn * attempt.credited
    <3>1. x \in Int /\ y \in Int /\ z \in Int
      BY <1>0, <2>1, <2>15
    <3>2. x <= y /\ y <= z
      BY <2>12, <2>13, <2>14, <2>16
    <3> HIDE DEF x, y, z
    <3>3. x <= z
      BY <3>1, <3>2
    <3> QED
      BY <3>3 DEF x, z
  <2>18. Total(f, MaxRepayments) <= Drawn
    BY <1>0, <2>1, <2>15, <2>17, FactorCancels
  <2> QED
    BY <1>4, <2>18
<1> QED
  BY <1>5, <1>6

(***************************************************************************)
(* INV-41: a REPAID return has its own, confirmed repayment, its notice,   *)
(* and no more of the drawdown than its fraction of the delivery.          *)
(***************************************************************************)
LEMMA RepaidHasItsMoney == ReturnsInv => RepaidIsRestored
<1> SUFFICES ASSUME ReturnsInv, NEW r \in References, returns[r].status = "REPAID"
             PROVE  LET paid == repayments[returns[r].repayment]
                    IN  /\ paid.status = "CONFIRMED"
                        /\ paid.settlement = r
                        /\ \E n \in notices : n.return = r /\ n.amount = returns[r].amount
                        /\ paid.amount * attempt.credited <= Drawn * returns[r].amount
  BY DEF RepaidIsRestored
<1>1. PICK i : i = returns[r].repayment
  OBVIOUS
<1>2. /\ i # 0 /\ repayments[i].status = "CONFIRMED" /\ repayments[i].settlement = r
      /\ \E n \in notices : n.return = r
  BY <1>1 DEF ReturnsInv, ReturnIsLinked
<1>3. i \in Facility!RepaymentIds /\ returns[r].amount \in Nat
  BY <1>1, <1>2 DEF ReturnsInv, ReturnsTypeOK
<1>4. \E n \in notices : n.return = r /\ n.amount = returns[r].amount
  BY <1>2 DEF ReturnsInv, NoticeIsTrue
<1>5. attempt.credited # Unknown /\ repayments[i].amount = proRataRepayment(returns[r].amount)
  BY <1>2, <1>3, ReturnsAssumption DEF ReturnsInv, RepaymentIsLinked
<1>6. attempt.credited \in Nat \ {0}
  BY <1>5 DEF ReturnsInv, CounterCovers
<1>7. Drawn * returns[r].amount \in Nat
  BY <1>3, ReturnsAssumption
<1>8. repayments[i].amount * attempt.credited <= Drawn * returns[r].amount
  BY <1>5, <1>6, <1>7, RoundedDown DEF proRataRepayment
<1> QED
  BY <1>1, <1>2, <1>4, <1>8

(***************************************************************************)
(* What returns give back to the facility is what came back, and never     *)
(* more than was drawn, for every number of returns and repayments, every  *)
(* amount and every number of submissions.                                 *)
(***************************************************************************)
THEOREM ReturnsRestoreExactly == ReturnsSpec => []RestorationIsExact
<1>1. ReturnsInv => RestorationIsExact
  BY SharesAreWithinDrawdown, RepaidHasItsMoney DEF ReturnsInv, RestorationIsExact
<1> QED
  BY <1>1, ReturnsInvariant, PTL
=============================================================================
