---------------------------- MODULE PayoutProofs ----------------------------
(***************************************************************************)
(* The payout leg, for every number of attempts, submission jobs and       *)
(* status pulls; the batch CSV, for files and texts of every length; and   *)
(* batches, for every number of imports, calls, lines and crashes.         *)
(***************************************************************************)
EXTENDS Payout, Batches, CommonProofs

(***************************************************************************)
(* What an attempt implies: the settlement was dispatched and not          *)
(* cancelled.                                                              *)
(***************************************************************************)
AttemptsAreDispatched ==
  (\E n \in AttemptNumbers : attempts[n] # "NONE") =>
    settlement.pastPonr /\ ~settlement.cancelRequested

(***************************************************************************)
(* Jobs and the provider only ever know attempts that were allocated.      *)
(***************************************************************************)
PayoutsHaveAttempts ==
  /\ \A job \in submitting : attempts[job.attempt] # "NONE"
  /\ \A n \in AttemptNumbers : provider[n] # "NONE" => attempts[n] # "NONE"

(***************************************************************************)
(* A pulled credit that is still to be applied was a payment.              *)
(***************************************************************************)
PulledCreditHasPayment ==
  (\E answer \in pulls : answer \in {"CREDITED", "RETURNED"})
    => \E n \in AttemptNumbers : HasCredit(n)

(***************************************************************************)
(* No exception is entered from PAYOUT_CONFIRMED, so no resume leads       *)
(* there.                                                                  *)
(***************************************************************************)
NoResumeToConfirmed == settlement.enteredFrom # "PAYOUT_CONFIRMED"

PayoutInv ==
  /\ PayoutTypeOK
  /\ OneInFlight
  /\ AttemptsAreDispatched
  /\ PayoutsHaveAttempts
  /\ PulledCreditHasPayment
  /\ CreditHasPayment
  /\ NoResumeToConfirmed
  /\ ConfirmedIsCredited

-----------------------------------------------------------------------------
(***************************************************************************)
(* The step of an attempt, as the trigger allows it.                       *)
(***************************************************************************)
FinalStep ==
  \A n \in AttemptNumbers :
    attempts[n] \in TerminalAttemptStatuses =>
      \/ attempts'[n] = attempts[n]
      \/ attempts[n] = "CREDITED" /\ attempts'[n] = "RETURNED"

AttemptsOK(a) ==
  /\ a \in [AttemptNumbers -> AttemptStatuses \cup {"NONE"}]
  /\ \A n \in AttemptNumbers, m \in AttemptNumbers :
       m < n /\ a[n] # "NONE" => a[m] = "REJECTED"

(***************************************************************************)
(* Writing the status of an allocated attempt, the latest or, for a late   *)
(* acknowledgement, any: the trigger keeps the earlier rejections.         *)
(***************************************************************************)
LEMMA SetAttemptFacts ==
  ASSUME AttemptsOK(attempts), NEW n \in AttemptNumbers, NEW status \in AttemptStatuses,
         attempts[n] # "NONE", SetAttempt(n, status)
  PROVE  /\ AttemptsOK(attempts')
         /\ attempts' = [attempts EXCEPT ![n] = status]
         /\ \A k \in AttemptNumbers : attempts'[k] # "NONE" <=> attempts[k] # "NONE"
         /\ FinalStep
<1>1. /\ ProtectPayoutAttempt(attempts[n], status)
      /\ attempts' = [attempts EXCEPT ![n] = status]
  BY DEF SetAttempt
<1>2. attempts \in [AttemptNumbers -> AttemptStatuses \cup {"NONE"}]
  BY DEF AttemptsOK
<1>3. attempts' \in [AttemptNumbers -> AttemptStatuses \cup {"NONE"}]
  BY <1>1, <1>2
<1>4. \A k \in AttemptNumbers : attempts'[k] = IF k = n THEN status ELSE attempts[k]
  BY <1>1, <1>2
<1>5. "NONE" \notin AttemptStatuses
  BY DEF AttemptStatuses
<1>6. \A k \in AttemptNumbers : attempts'[k] # "NONE" <=> attempts[k] # "NONE"
  BY <1>4, <1>5
<1>7. FinalStep
  BY <1>1, <1>4 DEF FinalStep, ProtectPayoutAttempt
<1>8. ASSUME NEW k \in AttemptNumbers, NEW m \in AttemptNumbers, m < k, attempts'[k] # "NONE"
      PROVE  attempts'[m] = "REJECTED"
  <2>1. attempts[m] = "REJECTED"
    BY <1>6, <1>8 DEF AttemptsOK
  <2> QED
    BY <1>7, <2>1 DEF FinalStep, TerminalAttemptStatuses
<1> QED
  BY <1>1, <1>3, <1>6, <1>7, <1>8 DEF AttemptsOK

(***************************************************************************)
(* Allocating the next attempt after a rejected one, or the first.         *)
(***************************************************************************)
LEMMA AllocateFacts ==
  ASSUME AttemptsOK(attempts), NEW n \in AttemptNumbers,
         \A k \in AttemptNumbers : k >= n => attempts[k] = "NONE",
         \A m \in AttemptNumbers : m < n => attempts[m] = "REJECTED",
         attempts' = [attempts EXCEPT ![n] = "SUBMITTED"]
  PROVE  /\ AttemptsOK(attempts')
         /\ \A k \in AttemptNumbers : attempts'[k] = IF k = n THEN "SUBMITTED" ELSE attempts[k]
         /\ FinalStep
<1>1. attempts \in [AttemptNumbers -> AttemptStatuses \cup {"NONE"}]
  BY DEF AttemptsOK
<1>2. \A k \in AttemptNumbers : attempts'[k] = IF k = n THEN "SUBMITTED" ELSE attempts[k]
  BY <1>1
<1>3. attempts' \in [AttemptNumbers -> AttemptStatuses \cup {"NONE"}]
  BY <1>1 DEF AttemptStatuses
<1>4. FinalStep
  <2>1. attempts[n] = "NONE"
    BY DEF AttemptNumbers
  <2> QED
    BY <1>2, <2>1 DEF FinalStep, TerminalAttemptStatuses
<1>5. ASSUME NEW k \in AttemptNumbers, NEW m \in AttemptNumbers, m < k, attempts'[k] # "NONE"
      PROVE  attempts'[m] = "REJECTED"
  <2>1. k <= n
    BY <1>2, <1>5 DEF AttemptNumbers
  <2>2. m < n /\ m # n
    BY <1>5, <2>1 DEF AttemptNumbers
  <2> QED
    BY <1>2, <2>2
<1> QED
  BY <1>2, <1>3, <1>4, <1>5 DEF AttemptsOK

(***************************************************************************)
(* What a transition of the settlement does to the columns the invariant   *)
(* speaks of.                                                              *)
(***************************************************************************)
LEMMA TransitionFacts ==
  ASSUME settlement \in Rows, NEW trigger, NEW answers, applyTransition(trigger, answers)
  PROVE  /\ settlement' \in Rows
         /\ settlement'.pastPonr <=> settlement.pastPonr \/ trigger = "dispatch_payout"
         /\ settlement'.cancelRequested <=>
              settlement.cancelRequested \/ trigger = "request_cancellation"
         /\ NoResumeToConfirmed => NoResumeToConfirmed'
         /\ NoResumeToConfirmed /\ settlement'.status = "PAYOUT_CONFIRMED" =>
              settlement.status = "PAYOUT_CONFIRMED" \/ trigger = "payout_credited"
<1>1. PICK t \in Permitted(settlement, trigger, answers) : settlement' = Applied(settlement, t)
  BY DEF applyTransition
<1>2. /\ t.trigger = trigger /\ settlement.status \in t.from
      /\ RowFacts(t) /\ settlement' \in Rows
  BY <1>1, AppliedIsRow
<1>3. /\ settlement'.status = Destination(settlement, t)
      /\ settlement'.enteredFrom =
           IF t.to = "EXCEPTION" THEN settlement.status ELSE settlement.enteredFrom
      /\ settlement'.pastPonr <=> settlement.pastPonr \/ trigger = "dispatch_payout"
      /\ settlement'.cancelRequested <=>
           settlement.cancelRequested \/ trigger = "request_cancellation"
  BY <1>1, <1>2 DEF Applied
<1>4. NoResumeToConfirmed => NoResumeToConfirmed'
  BY <1>2, <1>3 DEF NoResumeToConfirmed, RowFacts
<1>5. NoResumeToConfirmed /\ settlement'.status = "PAYOUT_CONFIRMED" =>
        settlement.status = "PAYOUT_CONFIRMED" \/ trigger = "payout_credited"
  BY <1>2, <1>3 DEF NoResumeToConfirmed, RowFacts, Destination
<1> QED
  BY <1>2, <1>3, <1>4, <1>5

-----------------------------------------------------------------------------
(***************************************************************************)
(* The invariant in the form the lemmas about attempts use.                *)
(***************************************************************************)
LEMMA AttemptsOKOfInv ==
  ASSUME PayoutInv
  PROVE  /\ AttemptsOK(attempts)
         /\ settlement \in Rows
         /\ submitting \subseteq [attempt : AttemptNumbers, ack : {"NONE", "SUBMITTED", "ACCEPTED"}]
         /\ pulls \subseteq TerminalAttemptStatuses
         /\ ingested \subseteq AttemptNumbers \X AttemptStatuses
         /\ provider \in [AttemptNumbers ->
                          {"NONE", "ACCEPTED", "CREDITED", "REJECTED", "RETURNED"}]
BY DEF PayoutInv, PayoutTypeOK, OneInFlight, AttemptsOK

(***************************************************************************)
(* And back, for the next state.                                           *)
(***************************************************************************)
LEMMA InvOfAttemptsOK ==
  ASSUME AttemptsOK(attempts)',
         (settlement \in Rows)',
         (submitting \subseteq
            [attempt : AttemptNumbers, ack : {"NONE", "SUBMITTED", "ACCEPTED"}])',
         (pulls \subseteq TerminalAttemptStatuses)',
         (ingested \subseteq AttemptNumbers \X AttemptStatuses)',
         (provider \in [AttemptNumbers ->
                          {"NONE", "ACCEPTED", "CREDITED", "REJECTED", "RETURNED"}])'
  PROVE  PayoutTypeOK' /\ OneInFlight'
<1>1. \A n \in AttemptNumbers, m \in AttemptNumbers :
        m < n /\ attempts'[n] # "NONE" => attempts'[m] # "NONE"
  BY DEF AttemptsOK
<1> QED
  BY <1>1 DEF PayoutTypeOK, OneInFlight, AttemptsOK

(***************************************************************************)
(* A trusted outcome moves the latest attempt and perhaps the settlement.  *)
(* It is sound to record a credit, because somebody was paid.              *)
(***************************************************************************)
LEMMA OutcomeKeepsInv ==
  ASSUME PayoutInv, NEW outcome \in AttemptStatuses,
         outcome \in {"CREDITED", "RETURNED"} => \E n \in AttemptNumbers : HasCredit(n),
         applyPayoutOutcome(outcome),
         UNCHANGED <<submitting, provider>>, pulls' \subseteq pulls,
         (ingested \subseteq AttemptNumbers \X AttemptStatuses)'
  PROVE  PayoutInv' /\ FinalStep
<1>0. /\ AttemptsOK(attempts) /\ settlement \in Rows
      /\ AttemptsAreDispatched /\ PayoutsHaveAttempts /\ PulledCreditHasPayment
      /\ CreditHasPayment /\ NoResumeToConfirmed /\ ConfirmedIsCredited
  BY AttemptsOKOfInv DEF PayoutInv
<1>1. PICK o \in OutcomeTransitions, n \in AttemptNumbers :
        /\ o.outcome = outcome
        /\ IsLatest(n)
        /\ \/ attempts[n] \in o.from /\ MoveOnOutcome(o, n)
           \/ attempts[n] \notin o.from /\ UNCHANGED <<attempts, settlement>>
  BY DEF applyPayoutOutcome
<1>2. /\ attempts[n] # "NONE"
      /\ \A m \in AttemptNumbers : attempts[m] # "NONE" => m <= n
  BY <1>1 DEF IsLatest, AttemptNumbers
<1>3. /\ (provider \in [AttemptNumbers ->
                          {"NONE", "ACCEPTED", "CREDITED", "REJECTED", "RETURNED"}])'
      /\ (submitting \subseteq
            [attempt : AttemptNumbers, ack : {"NONE", "SUBMITTED", "ACCEPTED"}])'
      /\ (pulls \subseteq TerminalAttemptStatuses)'
  BY AttemptsOKOfInv
<1>4. PulledCreditHasPayment'
  BY <1>0 DEF PulledCreditHasPayment, HasCredit
<1>5. CASE UNCHANGED <<attempts, settlement>>
  <2>1. PayoutTypeOK' /\ OneInFlight'
    BY <1>0, <1>3, <1>5, InvOfAttemptsOK
  <2>2. /\ AttemptsAreDispatched' /\ PayoutsHaveAttempts' /\ CreditHasPayment'
        /\ NoResumeToConfirmed' /\ ConfirmedIsCredited'
    BY <1>0, <1>5 DEF AttemptsAreDispatched, PayoutsHaveAttempts, CreditHasPayment, HasCredit,
                      NoResumeToConfirmed, ConfirmedIsCredited, IsLatest
  <2> QED
    BY <1>4, <1>5, <2>1, <2>2 DEF PayoutInv, FinalStep
<1>6. CASE attempts[n] \in o.from /\ MoveOnOutcome(o, n)
  <2>1. SetAttempt(n, outcome)
    BY <1>1, <1>6 DEF MoveOnOutcome
  <2>2. /\ AttemptsOK(attempts')
        /\ attempts' = [attempts EXCEPT ![n] = outcome]
        /\ \A k \in AttemptNumbers : attempts'[k] # "NONE" <=> attempts[k] # "NONE"
        /\ FinalStep
    BY <1>0, <1>2, <2>1, SetAttemptFacts
  <2>3. \A k \in AttemptNumbers : attempts'[k] = IF k = n THEN outcome ELSE attempts[k]
    BY <1>0, <2>2 DEF AttemptsOK
  <2>4. \/ UNCHANGED settlement
        \/ applyTransition(o.trigger, EvidenceAnswers)
    BY <1>6 DEF MoveOnOutcome, applyOrReturnRefusal
  <2>5. /\ o.trigger \in {"none", "payout_credited", "payout_rejected"}
        /\ o.trigger = "payout_credited" => outcome = "CREDITED"
        /\ o.outcome = "RETURNED" => o.from = {"CREDITED"}
        /\ o.outcome # "RETURNED" => o.from \cap {"CREDITED", "RETURNED"} = {}
    BY <1>1 DEF OutcomeTransitions, InFlightAttemptStatuses, AttemptStatuses,
                TerminalAttemptStatuses
  <2>6. /\ settlement' \in Rows
        /\ settlement'.pastPonr <=> settlement.pastPonr
        /\ settlement'.cancelRequested <=> settlement.cancelRequested
        /\ NoResumeToConfirmed'
        /\ settlement'.status = "PAYOUT_CONFIRMED" =>
              settlement.status = "PAYOUT_CONFIRMED" \/ outcome = "CREDITED"
    <3>1. CASE UNCHANGED settlement
      BY <1>0, <3>1 DEF NoResumeToConfirmed
    <3>2. CASE applyTransition(o.trigger, EvidenceAnswers)
      BY <1>0, <2>5, <3>2, TransitionFacts
    <3> QED
      BY <2>4, <3>1, <3>2
  <2>7. PayoutTypeOK' /\ OneInFlight'
    BY <1>3, <2>2, <2>6, InvOfAttemptsOK
  <2>8. AttemptsAreDispatched' /\ PayoutsHaveAttempts'
    <3>1. AttemptsAreDispatched'
      BY <1>0, <2>2, <2>6 DEF AttemptsAreDispatched
    <3>2. \A job \in submitting : job.attempt \in AttemptNumbers
      BY AttemptsOKOfInv
    <3> QED
      BY <1>0, <2>2, <3>1, <3>2 DEF PayoutsHaveAttempts
  <2>9. CreditHasPayment'
    BY <1>0, <2>3 DEF CreditHasPayment, HasCredit
  <2>10. ConfirmedIsCredited'
    <3> SUFFICES ASSUME settlement'.status = "PAYOUT_CONFIRMED",
                        NEW k \in AttemptNumbers, IsLatest(k)'
                 PROVE  attempts'[k] \in {"CREDITED", "RETURNED"}
      BY DEF ConfirmedIsCredited
    <3>1. k = n
      <4>1. attempts'[k] # "NONE" /\ \A m \in AttemptNumbers : m > k => attempts'[m] = "NONE"
        BY DEF IsLatest
      <4> QED
        BY <1>2, <2>2, <4>1 DEF AttemptNumbers
    <3>2. outcome \in {"CREDITED", "RETURNED"}
      <4>1. CASE settlement.status = "PAYOUT_CONFIRMED"
        BY <1>0, <1>1, <1>6, <2>5, <4>1 DEF ConfirmedIsCredited
      <4> QED
        BY <2>6, <4>1
    <3> QED
      BY <2>3, <3>1, <3>2
  <2> QED
    BY <1>4, <2>2, <2>6, <2>7, <2>8, <2>9, <2>10 DEF PayoutInv
<1> QED
  BY <1>1, <1>5, <1>6

(***************************************************************************)
(* Steps that leave attempts and settlement alone: jobs read and lost,     *)
(* pulls asked, the provider's own work.  What the provider holds has an   *)
(* attempt, and what it credited stays credited.                           *)
(***************************************************************************)
LEMMA QuietStepKeepsInv ==
  ASSUME PayoutInv, UNCHANGED <<settlement, attempts>>,
         UNCHANGED ingested \/ (ingested \subseteq AttemptNumbers \X AttemptStatuses)',
         (submitting \subseteq
            [attempt : AttemptNumbers, ack : {"NONE", "SUBMITTED", "ACCEPTED"}])',
         (pulls \subseteq TerminalAttemptStatuses)',
         (provider \in [AttemptNumbers ->
                          {"NONE", "ACCEPTED", "CREDITED", "REJECTED", "RETURNED"}])',
         \A job \in submitting' : attempts[job.attempt] # "NONE",
         \A n \in AttemptNumbers : provider'[n] # "NONE" => attempts[n] # "NONE",
         \A n \in AttemptNumbers : HasCredit(n) => HasCredit(n)',
         PulledCreditHasPayment'
  PROVE  PayoutInv' /\ FinalStep
<1>0. /\ AttemptsOK(attempts) /\ settlement \in Rows
      /\ ingested \subseteq AttemptNumbers \X AttemptStatuses
      /\ AttemptsAreDispatched /\ CreditHasPayment /\ NoResumeToConfirmed /\ ConfirmedIsCredited
  BY AttemptsOKOfInv DEF PayoutInv
<1>1. PayoutTypeOK' /\ OneInFlight'
  BY <1>0, InvOfAttemptsOK
<1>2. AttemptsAreDispatched' /\ NoResumeToConfirmed' /\ ConfirmedIsCredited'
  BY <1>0 DEF AttemptsAreDispatched, NoResumeToConfirmed, ConfirmedIsCredited, IsLatest
<1>3. PayoutsHaveAttempts'
  BY DEF PayoutsHaveAttempts
<1>4. CreditHasPayment'
  BY <1>0 DEF CreditHasPayment
<1> QED
  BY <1>1, <1>2, <1>3, <1>4 DEF PayoutInv, FinalStep

(***************************************************************************)
(* The settlement's own steps while no attempt changes.                    *)
(***************************************************************************)
LEMMA SettlementStepKeepsInv ==
  ASSUME PayoutInv,
         requestCancellation \/ honourCancellation \/ resolveException
  PROVE  PayoutInv' /\ FinalStep
<1>0. /\ AttemptsOK(attempts) /\ settlement \in Rows
      /\ AttemptsAreDispatched /\ PayoutsHaveAttempts /\ PulledCreditHasPayment
      /\ CreditHasPayment /\ NoResumeToConfirmed /\ ConfirmedIsCredited
      /\ UNCHANGED <<attempts, submitting, pulls, ingested, provider>>
  BY AttemptsOKOfInv DEF PayoutInv, requestCancellation, honourCancellation, resolveException
<1>1. PICK trigger \in {"request_cancellation", "cancellation_honoured", "resolve_resume"} :
        /\ \E answers : applyTransition(trigger, answers)
        /\ trigger = "request_cancellation" => ~settlement.pastPonr
  BY DEF requestCancellation, honourCancellation, resolveException
<1>2. /\ settlement' \in Rows
      /\ settlement'.pastPonr <=> settlement.pastPonr
      /\ settlement'.cancelRequested <=>
           settlement.cancelRequested \/ trigger = "request_cancellation"
      /\ NoResumeToConfirmed'
      /\ settlement'.status = "PAYOUT_CONFIRMED" => settlement.status = "PAYOUT_CONFIRMED"
  BY <1>0, <1>1, TransitionFacts
<1>3. PayoutTypeOK' /\ OneInFlight'
  BY <1>0, <1>2, AttemptsOKOfInv, InvOfAttemptsOK
<1>4. AttemptsAreDispatched'
  BY <1>0, <1>1, <1>2 DEF AttemptsAreDispatched
<1>5. /\ PayoutsHaveAttempts' /\ PulledCreditHasPayment' /\ CreditHasPayment'
      /\ ConfirmedIsCredited'
  BY <1>0, <1>2 DEF PayoutsHaveAttempts, PulledCreditHasPayment, CreditHasPayment, HasCredit,
                    ConfirmedIsCredited, IsLatest
<1> QED
  BY <1>0, <1>2, <1>3, <1>4, <1>5 DEF PayoutInv, FinalStep

(***************************************************************************)
(* T15 with P01: the first attempt, of a settlement that is now past its   *)
(* point of no return.                                                     *)
(***************************************************************************)
LEMMA DispatchKeepsInv ==
  ASSUME PayoutInv, dispatchPayout
  PROVE  PayoutInv' /\ FinalStep
<1>0. /\ AttemptsOK(attempts) /\ settlement \in Rows
      /\ PayoutsHaveAttempts /\ PulledCreditHasPayment
      /\ CreditHasPayment /\ NoResumeToConfirmed
      /\ ~settlement.cancelRequested
      /\ \A n \in AttemptNumbers : attempts[n] = "NONE"
      /\ attempts' = [attempts EXCEPT ![1] = "SUBMITTED"]
      /\ UNCHANGED <<submitting, pulls, ingested, provider>>
  <2>1. \A n \in AttemptNumbers : attempts[n] = "NONE"
    BY DEF PayoutInv, AttemptsAreDispatched, dispatchPayout
  <2>2. PICK n \in AttemptNumbers :
          allocateAttemptNumber(n) /\ attempts' = [attempts EXCEPT ![n] = "SUBMITTED"]
    BY DEF dispatchPayout
  <2>3. n = 1
    BY <2>1, <2>2 DEF allocateAttemptNumber, IsLatest
  <2> QED
    BY <2>1, <2>2, <2>3, AttemptsOKOfInv DEF PayoutInv, dispatchPayout
<1>1. PICK t \in Permitted(settlement, "dispatch_payout",
                           {"rail_selected", "destination_version_verified",
                            "no_cancellation_pending", "before_point_of_no_return"}) :
        settlement' = Applied(settlement, t)
  BY DEF dispatchPayout, applyTransition
<1>2. settlement'.status = "PAYOUT_SUBMITTED"
  BY <1>0, <1>1, AppliedIsRow DEF RowFacts, Applied, Destination
<1>3. /\ settlement' \in Rows /\ settlement'.pastPonr /\ ~settlement'.cancelRequested
      /\ NoResumeToConfirmed'
  <2>1. applyTransition("dispatch_payout",
                        {"rail_selected", "destination_version_verified",
                         "no_cancellation_pending", "before_point_of_no_return"})
    BY DEF dispatchPayout
  <2> QED
    BY <1>0, <2>1, TransitionFacts
<1>4. 1 \in AttemptNumbers
  BY PayoutAssumption DEF AttemptNumbers
<1>5. /\ AttemptsOK(attempts') /\ FinalStep
      /\ \A k \in AttemptNumbers : attempts'[k] = IF k = 1 THEN "SUBMITTED" ELSE attempts[k]
  <2>1. \A m \in AttemptNumbers : m < 1 => attempts[m] = "REJECTED"
    BY DEF AttemptNumbers
  <2> QED
    BY <1>0, <1>4, <2>1, AllocateFacts
<1>6. PayoutTypeOK' /\ OneInFlight'
  BY <1>0, <1>3, <1>5, AttemptsOKOfInv, InvOfAttemptsOK
<1>7. AttemptsAreDispatched' /\ ConfirmedIsCredited'
  BY <1>2, <1>3 DEF AttemptsAreDispatched, ConfirmedIsCredited
<1>8. PayoutsHaveAttempts'
  <2>1. \A job \in submitting : job.attempt \in AttemptNumbers
    BY AttemptsOKOfInv
  <2> QED
    BY <1>0, <1>5, <2>1 DEF PayoutsHaveAttempts
<1>9. PulledCreditHasPayment' /\ CreditHasPayment'
  BY <1>0, <1>5 DEF PulledCreditHasPayment, CreditHasPayment, HasCredit
<1> QED
  BY <1>3, <1>5, <1>6, <1>7, <1>8, <1>9 DEF PayoutInv

(***************************************************************************)
(* INV-24: a retry follows a rejection and nothing else.                   *)
(***************************************************************************)
LEMMA RetryKeepsInv ==
  ASSUME PayoutInv, NEW n \in AttemptNumbers, retryPayout(n)
  PROVE  PayoutInv' /\ FinalStep
<1>0. /\ AttemptsOK(attempts) /\ settlement \in Rows
      /\ AttemptsAreDispatched /\ PayoutsHaveAttempts /\ PulledCreditHasPayment
      /\ CreditHasPayment /\ NoResumeToConfirmed /\ ConfirmedIsCredited
  BY AttemptsOKOfInv DEF PayoutInv
<1>1. /\ IsLatest(n) /\ n < MaxAttempts /\ attempts[n] = "REJECTED"
      /\ attempts' = [attempts EXCEPT ![n + 1] = "SUBMITTED"]
      /\ UNCHANGED <<settlement, submitting, pulls, ingested, provider>>
  BY DEF retryPayout
<1>2. n + 1 \in AttemptNumbers
  BY <1>1, PayoutAssumption DEF AttemptNumbers
<1>3. /\ \A k \in AttemptNumbers : k >= n + 1 => attempts[k] = "NONE"
      /\ \A m \in AttemptNumbers : m < n + 1 => attempts[m] = "REJECTED"
  <2>1. ASSUME NEW k \in AttemptNumbers, k >= n + 1 PROVE attempts[k] = "NONE"
    BY <1>1, <2>1 DEF IsLatest, AttemptNumbers
  <2>2. ASSUME NEW m \in AttemptNumbers, m < n + 1 PROVE attempts[m] = "REJECTED"
    <3>1. m = n \/ m < n
      BY <2>2 DEF AttemptNumbers
    <3> QED
      BY <1>0, <1>1, <3>1 DEF AttemptsOK
  <2> QED
    BY <2>1, <2>2
<1>4. /\ AttemptsOK(attempts') /\ FinalStep
      /\ \A k \in AttemptNumbers : attempts'[k] = IF k = n + 1 THEN "SUBMITTED" ELSE attempts[k]
  BY <1>0, <1>1, <1>2, <1>3, AllocateFacts
<1>5. PayoutTypeOK' /\ OneInFlight'
  BY <1>0, <1>1, <1>4, AttemptsOKOfInv, InvOfAttemptsOK
<1>6. settlement.status # "PAYOUT_CONFIRMED"
  BY <1>0, <1>1 DEF ConfirmedIsCredited
<1>7. AttemptsAreDispatched' /\ NoResumeToConfirmed' /\ ConfirmedIsCredited'
  <2>1. attempts[n] # "NONE"
    BY <1>1
  <2> QED
    BY <1>0, <1>1, <1>6, <2>1
    DEF AttemptsAreDispatched, NoResumeToConfirmed, ConfirmedIsCredited
<1>8. PayoutsHaveAttempts'
  <2>1. \A job \in submitting : job.attempt \in AttemptNumbers
    BY AttemptsOKOfInv
  <2> QED
    BY <1>0, <1>1, <1>4, <2>1 DEF PayoutsHaveAttempts
<1>9. PulledCreditHasPayment' /\ CreditHasPayment'
  BY <1>0, <1>1, <1>4 DEF PulledCreditHasPayment, CreditHasPayment, HasCredit
<1> QED
  BY <1>4, <1>5, <1>7, <1>8, <1>9 DEF PayoutInv

(***************************************************************************)
(* The sweep and the acknowledgement write an allocated attempt that is    *)
(* not answered, and no evidence; the settlement may take T18.             *)
(***************************************************************************)
LEMMA UnansweredStepKeepsInv ==
  ASSUME PayoutInv, NEW n \in AttemptNumbers, NEW status \in {"ACCEPTED", "UNKNOWN"},
         attempts[n] # "NONE", SetAttempt(n, status),
         UNCHANGED settlement \/ applyTransition("payout_timeout", {"rail_sla_elapsed"}),
         submitting' \subseteq submitting, UNCHANGED <<pulls, ingested, provider>>
  PROVE  PayoutInv' /\ FinalStep
<1>0. /\ AttemptsOK(attempts) /\ settlement \in Rows
      /\ AttemptsAreDispatched /\ PayoutsHaveAttempts /\ PulledCreditHasPayment
      /\ CreditHasPayment /\ NoResumeToConfirmed /\ ConfirmedIsCredited
  BY AttemptsOKOfInv DEF PayoutInv
<1>1. status \in AttemptStatuses
  BY DEF AttemptStatuses
<1>2. /\ AttemptsOK(attempts')
      /\ attempts' = [attempts EXCEPT ![n] = status]
      /\ \A k \in AttemptNumbers : attempts'[k] # "NONE" <=> attempts[k] # "NONE"
      /\ FinalStep
  BY <1>0, <1>1, SetAttemptFacts
<1>3. \A k \in AttemptNumbers : attempts'[k] = IF k = n THEN status ELSE attempts[k]
  BY <1>0, <1>2 DEF AttemptsOK
<1>4. /\ settlement' \in Rows
      /\ settlement'.pastPonr <=> settlement.pastPonr
      /\ settlement'.cancelRequested <=> settlement.cancelRequested
      /\ NoResumeToConfirmed'
      /\ settlement'.status = "PAYOUT_CONFIRMED" => settlement.status = "PAYOUT_CONFIRMED"
  <2>1. CASE UNCHANGED settlement
    BY <1>0, <2>1 DEF NoResumeToConfirmed
  <2>2. CASE applyTransition("payout_timeout", {"rail_sla_elapsed"})
    BY <1>0, <2>2, TransitionFacts
  <2> QED
    BY <2>1, <2>2
<1>5. PayoutTypeOK' /\ OneInFlight'
  BY <1>2, <1>4, AttemptsOKOfInv, InvOfAttemptsOK
<1>6. AttemptsAreDispatched'
  BY <1>0, <1>2, <1>4 DEF AttemptsAreDispatched
<1>7. PayoutsHaveAttempts'
  <2>1. \A job \in submitting : job.attempt \in AttemptNumbers
    BY AttemptsOKOfInv
  <2> QED
    BY <1>0, <1>2, <2>1 DEF PayoutsHaveAttempts
<1>8. PulledCreditHasPayment' /\ CreditHasPayment'
  BY <1>0, <1>3 DEF PulledCreditHasPayment, CreditHasPayment, HasCredit
<1>9. ConfirmedIsCredited'
  <2> SUFFICES ASSUME settlement'.status = "PAYOUT_CONFIRMED",
                      NEW k \in AttemptNumbers, IsLatest(k)'
               PROVE  attempts'[k] \in {"CREDITED", "RETURNED"}
    BY DEF ConfirmedIsCredited
  <2>1. IsLatest(k)
    BY <1>2 DEF IsLatest
  <2>2. attempts[k] \in {"CREDITED", "RETURNED"}
    BY <1>0, <1>4, <2>1 DEF ConfirmedIsCredited
  <2> QED
    BY <1>2, <2>2 DEF FinalStep, TerminalAttemptStatuses
<1> QED
  BY <1>2, <1>4, <1>5, <1>6, <1>7, <1>8, <1>9 DEF PayoutInv

(***************************************************************************)
(* However an event is interpreted, what is applied of it is the outcome   *)
(* the provider sent.                                                      *)
(***************************************************************************)
LEMMA OnlyKnownOutcomesApply ==
  ASSUME NEW outcome, NEW read \in Interpretations(outcome), applyPayoutOutcome(read)
  PROVE  applyPayoutOutcome(outcome)
<1>1. read \in {"unmapped", outcome, "UNKNOWN"}
  BY DEF Interpretations, interpretProviderCode
<1>2. read \notin {"unmapped", "UNKNOWN"}
  BY DEF applyPayoutOutcome, OutcomeTransitions
<1> QED
  BY <1>1, <1>2

(***************************************************************************)
(* A recorded event or an applied pull that reports a credit is backed by  *)
(* one.                                                                    *)
(***************************************************************************)
LEMMA EvidenceKeepsInv ==
  ASSUME PayoutInv,
         \/ \E n \in AttemptNumbers, outcome \in {"ACCEPTED", "CREDITED", "REJECTED", "RETURNED"} :
              ingestPayoutWebhook(n, outcome)
         \/ \E answer \in pulls : pullPayoutStatus(answer)
  PROVE  PayoutInv' /\ FinalStep
<1>1. ASSUME NEW n \in AttemptNumbers,
             NEW outcome \in {"ACCEPTED", "CREDITED", "REJECTED", "RETURNED"},
             ingestPayoutWebhook(n, outcome)
      PROVE  PayoutInv' /\ FinalStep
  <2>1. /\ outcome \in SentEvents(n) /\ (applyPayoutOutcome(outcome) \/ notApplied)
        /\ ingested' = ingested \cup {<<n, outcome>>}
        /\ UNCHANGED <<submitting, pulls, provider>>
    BY <1>1, OnlyKnownOutcomesApply DEF ingestPayoutWebhook
  <2>2. outcome \in AttemptStatuses
    BY DEF AttemptStatuses
  <2>3. outcome \in {"CREDITED", "RETURNED"} => HasCredit(n)
    BY <2>1 DEF SentEvents, HasCredit
  <2>4. (ingested \subseteq AttemptNumbers \X AttemptStatuses)'
    BY <2>1, <2>2, AttemptsOKOfInv
  <2>5. CASE applyPayoutOutcome(outcome)
    BY <2>1, <2>2, <2>3, <2>4, <2>5, OutcomeKeepsInv
  <2>6. CASE notApplied
    <3>1. UNCHANGED <<settlement, attempts, submitting, pulls, provider>>
      BY <2>1, <2>6 DEF notApplied
    <3>2. PulledCreditHasPayment' /\ \A m \in AttemptNumbers : HasCredit(m) => HasCredit(m)'
      BY <3>1 DEF PayoutInv, PulledCreditHasPayment, HasCredit
    <3> QED
      BY <2>4, <3>1, <3>2, QuietStepKeepsInv, AttemptsOKOfInv
      DEF PayoutInv, PayoutTypeOK, PayoutsHaveAttempts
  <2> QED
    BY <2>1, <2>5, <2>6
<1>2. ASSUME NEW answer \in pulls, pullPayoutStatus(answer)
      PROVE  PayoutInv' /\ FinalStep
  <2>1. /\ applyPayoutOutcome(answer) /\ pulls' \subseteq pulls
        /\ UNCHANGED <<submitting, ingested, provider>>
    BY <1>2 DEF pullPayoutStatus
  <2>2. answer \in AttemptStatuses
    BY AttemptsOKOfInv DEF AttemptStatuses, TerminalAttemptStatuses
  <2>3. answer \in {"CREDITED", "RETURNED"} => \E n \in AttemptNumbers : HasCredit(n)
    BY DEF PayoutInv, PulledCreditHasPayment
  <2>4. (ingested \subseteq AttemptNumbers \X AttemptStatuses)'
    BY <2>1, AttemptsOKOfInv
  <2> QED
    BY <2>1, <2>2, <2>3, <2>4, OutcomeKeepsInv
<1> QED
  BY <1>1, <1>2

(***************************************************************************)
(* Submission jobs, pulls and the provider.                                *)
(***************************************************************************)
LEMMA JobStepKeepsInv ==
  ASSUME PayoutInv,
         \/ \E n \in AttemptNumbers : readForSubmission(n) \/ getPayout(n) \/ providerProgress(n)
         \/ \E job \in submitting : submitPayout(job) \/ loseSubmission(job)
  PROVE  PayoutInv' /\ FinalStep
<1>0. /\ submitting \subseteq [attempt : AttemptNumbers, ack : {"NONE", "SUBMITTED", "ACCEPTED"}]
      /\ pulls \subseteq TerminalAttemptStatuses
      /\ provider \in [AttemptNumbers ->
                          {"NONE", "ACCEPTED", "CREDITED", "REJECTED", "RETURNED"}]
      /\ PayoutsHaveAttempts /\ PulledCreditHasPayment
  BY AttemptsOKOfInv DEF PayoutInv
<1>1. ASSUME NEW n \in AttemptNumbers, readForSubmission(n) PROVE PayoutInv' /\ FinalStep
  <2>1. /\ attempts[n] # "NONE"
        /\ submitting' = submitting \cup {[attempt |-> n, ack |-> "NONE"]}
        /\ UNCHANGED <<settlement, attempts, pulls, ingested, provider>>
    BY <1>1 DEF readForSubmission, IsLatest
  <2>2. PulledCreditHasPayment' /\ \A m \in AttemptNumbers : HasCredit(m) => HasCredit(m)'
    BY <1>0, <2>1 DEF PulledCreditHasPayment, HasCredit
  <2> QED
    BY <1>0, <2>1, <2>2, QuietStepKeepsInv DEF PayoutsHaveAttempts
<1>2. ASSUME NEW n \in AttemptNumbers, getPayout(n) PROVE PayoutInv' /\ FinalStep
  <2>1. PICK answer \in PullAnswers(n) : pulls' = pulls \cup {answer}
    BY <1>2 DEF getPayout
  <2>2. UNCHANGED <<settlement, attempts, submitting, ingested, provider>>
    BY <1>2 DEF getPayout
  <2>3. /\ answer \in TerminalAttemptStatuses
        /\ answer \in {"CREDITED", "RETURNED"} => HasCredit(n)
    BY DEF PullAnswers, HasCredit
  <2>4. PulledCreditHasPayment' /\ \A m \in AttemptNumbers : HasCredit(m) => HasCredit(m)'
    BY <1>0, <2>1, <2>2, <2>3 DEF PulledCreditHasPayment, HasCredit
  <2> QED
    BY <1>0, <2>1, <2>2, <2>3, <2>4, QuietStepKeepsInv DEF PayoutsHaveAttempts
<1>3. ASSUME NEW n \in AttemptNumbers, providerProgress(n) PROVE PayoutInv' /\ FinalStep
  <2>1. PICK result \in {"CREDITED", "REJECTED", "RETURNED"} :
          /\ provider' = [provider EXCEPT ![n] = result]
          /\ provider[n] # "NONE"
          /\ HasCredit(n) => result \in {"CREDITED", "RETURNED"}
    BY <1>3 DEF providerProgress, HasCredit
  <2>2. UNCHANGED <<settlement, attempts, submitting, pulls, ingested>>
    BY <1>3 DEF providerProgress
  <2>3. /\ \A m \in AttemptNumbers : provider'[m] = IF m = n THEN result ELSE provider[m]
        /\ (provider \in [AttemptNumbers ->
                          {"NONE", "ACCEPTED", "CREDITED", "REJECTED", "RETURNED"}])'
    BY <1>0, <2>1
  <2>4. \A m \in AttemptNumbers : HasCredit(m) => HasCredit(m)'
    BY <2>1, <2>3 DEF HasCredit
  <2>5. PulledCreditHasPayment'
    BY <1>0, <2>2, <2>4 DEF PulledCreditHasPayment
  <2> QED
    BY <1>0, <2>1, <2>2, <2>3, <2>4, <2>5, QuietStepKeepsInv DEF PayoutsHaveAttempts
<1>4. ASSUME NEW job \in submitting, submitPayout(job) PROVE PayoutInv' /\ FinalStep
  <2>1. /\ provider' = [provider EXCEPT ![job.attempt] = IF @ = "NONE" THEN "ACCEPTED" ELSE @]
        /\ UNCHANGED <<settlement, attempts, pulls, ingested>>
    BY <1>4 DEF submitPayout
  <2>2. PICK ack \in {"SUBMITTED", "ACCEPTED"} :
          submitting' = (submitting \ {job}) \cup {[attempt |-> job.attempt, ack |-> ack]}
    BY <1>4 DEF submitPayout
  <2>3. job.attempt \in AttemptNumbers /\ attempts[job.attempt] # "NONE"
    BY <1>0 DEF PayoutsHaveAttempts
  <2>4. /\ \A m \in AttemptNumbers : provider[m] # "NONE" => provider'[m] = provider[m]
        /\ \A m \in AttemptNumbers : m # job.attempt => provider'[m] = provider[m]
        /\ (provider \in [AttemptNumbers ->
                          {"NONE", "ACCEPTED", "CREDITED", "REJECTED", "RETURNED"}])'
    BY <1>0, <2>1, <2>3
  <2>5. \A m \in AttemptNumbers : HasCredit(m) => HasCredit(m)'
    BY <2>4 DEF HasCredit
  <2>6. PulledCreditHasPayment'
    BY <1>0, <2>1, <2>5 DEF PulledCreditHasPayment
  <2>7. /\ \A j \in submitting' : attempts[j.attempt] # "NONE"
        /\ (submitting \subseteq
              [attempt : AttemptNumbers, ack : {"NONE", "SUBMITTED", "ACCEPTED"}])'
    BY <1>0, <2>2, <2>3 DEF PayoutsHaveAttempts
  <2>8. \A m \in AttemptNumbers : provider'[m] # "NONE" => attempts[m] # "NONE"
    BY <1>0, <2>3, <2>4 DEF PayoutsHaveAttempts
  <2> QED
    BY <1>0, <2>1, <2>4, <2>5, <2>6, <2>7, <2>8, QuietStepKeepsInv
<1>5. ASSUME NEW job \in submitting, loseSubmission(job) PROVE PayoutInv' /\ FinalStep
  <2>1. /\ submitting' \subseteq submitting
        /\ UNCHANGED <<settlement, attempts, pulls, ingested, provider>>
    BY <1>5 DEF loseSubmission
  <2>2. PulledCreditHasPayment' /\ \A m \in AttemptNumbers : HasCredit(m) => HasCredit(m)'
    BY <1>0, <2>1 DEF PulledCreditHasPayment, HasCredit
  <2> QED
    BY <1>0, <2>1, <2>2, QuietStepKeepsInv DEF PayoutsHaveAttempts
<1> QED
  BY <1>1, <1>2, <1>3, <1>4, <1>5

(***************************************************************************)
(* The SLA sweeper (P05, T18).                                             *)
(***************************************************************************)
LEMMA SweepKeepsInv ==
  ASSUME PayoutInv, NEW n \in AttemptNumbers, sweepPayoutSla(n)
  PROVE  PayoutInv' /\ FinalStep
<1>1. /\ attempts[n] # "NONE" /\ SetAttempt(n, "UNKNOWN")
      /\ applyOrReturnRefusal("payout_timeout", {"rail_sla_elapsed"})
      /\ UNCHANGED <<submitting, pulls, ingested, provider>>
  BY DEF sweepPayoutSla, IsLatest
<1>2. UNCHANGED settlement \/ applyTransition("payout_timeout", {"rail_sla_elapsed"})
  BY <1>1 DEF applyOrReturnRefusal
<1> QED
  BY <1>1, <1>2, UnansweredStepKeepsInv

(***************************************************************************)
(* An acknowledgement, however late (submitDispatchedPayout).              *)
(***************************************************************************)
LEMMA AcknowledgementKeepsInv ==
  ASSUME PayoutInv, NEW job \in submitting, recordAcknowledgement(job)
  PROVE  PayoutInv' /\ FinalStep
<1>0. /\ submitting \subseteq [attempt : AttemptNumbers, ack : {"NONE", "SUBMITTED", "ACCEPTED"}]
      /\ pulls \subseteq TerminalAttemptStatuses
      /\ provider \in [AttemptNumbers ->
                          {"NONE", "ACCEPTED", "CREDITED", "REJECTED", "RETURNED"}]
      /\ PayoutsHaveAttempts /\ PulledCreditHasPayment
  BY AttemptsOKOfInv DEF PayoutInv
<1>1. job.attempt \in AttemptNumbers /\ attempts[job.attempt] # "NONE"
  BY <1>0 DEF PayoutsHaveAttempts
<1>2. submitting' \subseteq submitting /\ UNCHANGED <<settlement, pulls, ingested, provider>>
  BY DEF recordAcknowledgement
<1>3. CASE SetAttempt(job.attempt, "ACCEPTED")
  BY <1>1, <1>2, <1>3, UnansweredStepKeepsInv
<1>4. CASE UNCHANGED attempts
  <2>1. PulledCreditHasPayment' /\ \A m \in AttemptNumbers : HasCredit(m) => HasCredit(m)'
    BY <1>0, <1>2 DEF PulledCreditHasPayment, HasCredit
  <2> QED
    BY <1>0, <1>2, <1>4, <2>1, QuietStepKeepsInv DEF PayoutsHaveAttempts
<1> QED
  BY <1>3, <1>4 DEF recordAcknowledgement

-----------------------------------------------------------------------------
(***************************************************************************)
(* A funded settlement without attempts satisfies the invariant.           *)
(***************************************************************************)
LEMMA PayoutInitEstablishesInv == PayoutInit => PayoutInv
<1> SUFFICES ASSUME PayoutInit PROVE PayoutInv
  OBVIOUS
<1>1. settlement \in Rows
  BY DEF PayoutInit, Rows, Statuses
<1>2. \A n \in AttemptNumbers : attempts[n] = "NONE" /\ provider[n] = "NONE"
  BY DEF PayoutInit
<1>3. PayoutTypeOK
  BY <1>1, <1>2 DEF PayoutInit, PayoutTypeOK
<1>4. /\ OneInFlight /\ AttemptsAreDispatched /\ PayoutsHaveAttempts
      /\ PulledCreditHasPayment /\ CreditHasPayment
  BY <1>2 DEF PayoutInit, OneInFlight, AttemptsAreDispatched, PayoutsHaveAttempts,
              PulledCreditHasPayment, CreditHasPayment
<1>5. NoResumeToConfirmed /\ ConfirmedIsCredited
  BY DEF PayoutInit, NoResumeToConfirmed, ConfirmedIsCredited
<1> QED
  BY <1>3, <1>4, <1>5 DEF PayoutInv

(***************************************************************************)
(* Every step keeps the invariant and the answers already recorded.        *)
(***************************************************************************)
LEMMA PayoutNextKeepsInv ==
  PayoutInv /\ [PayoutNext]_payoutVars => PayoutInv' /\ [FinalStep]_payoutVars
<1> SUFFICES ASSUME PayoutInv, [PayoutNext]_payoutVars PROVE PayoutInv' /\ FinalStep
  OBVIOUS
<1>1. CASE dispatchPayout
  BY <1>1, DispatchKeepsInv
<1>2. CASE requestCancellation \/ honourCancellation \/ resolveException
  BY <1>2, SettlementStepKeepsInv
<1>3. ASSUME NEW n \in AttemptNumbers, AttemptStep(n) PROVE PayoutInv' /\ FinalStep
  <2>1. CASE readForSubmission(n) \/ getPayout(n) \/ providerProgress(n)
    BY <2>1, JobStepKeepsInv
  <2>2. CASE sweepPayoutSla(n)
    BY <2>2, SweepKeepsInv
  <2>3. CASE retryPayout(n)
    BY <2>3, RetryKeepsInv
  <2>4. CASE \E outcome \in {"ACCEPTED", "CREDITED", "REJECTED", "RETURNED"} :
               ingestPayoutWebhook(n, outcome)
    BY <2>4, EvidenceKeepsInv
  <2> QED
    BY <1>3, <2>1, <2>2, <2>3, <2>4 DEF AttemptStep
<1>4. CASE \E job \in submitting : submitPayout(job) \/ loseSubmission(job)
  BY <1>4, JobStepKeepsInv
<1>5. CASE \E job \in submitting : recordAcknowledgement(job)
  BY <1>5, AcknowledgementKeepsInv
<1>6. CASE \E answer \in pulls : pullPayoutStatus(answer)
  BY <1>6, EvidenceKeepsInv
<1>7. CASE UNCHANGED payoutVars
  <2>1. PayoutInv'
    BY <1>7
    DEF payoutVars, PayoutInv, PayoutTypeOK, OneInFlight, AttemptsAreDispatched,
        PayoutsHaveAttempts, PulledCreditHasPayment, CreditHasPayment, HasCredit,
        NoResumeToConfirmed, ConfirmedIsCredited, IsLatest
  <2> QED
    BY <1>7, <2>1 DEF payoutVars, FinalStep
<1> QED
  BY <1>1, <1>2, <1>3, <1>4, <1>5, <1>6, <1>7 DEF PayoutNext

(***************************************************************************)
(* Every reachable state of the payout leg is well typed and numbers its   *)
(* attempts without a gap.                                                 *)
(***************************************************************************)
THEOREM PayoutTypeCorrect == PayoutSpec => []PayoutTypeOK
<1>1. PayoutInv => PayoutTypeOK
  BY DEF PayoutInv
<1> QED
  BY <1>1, PayoutInitEstablishesInv, PayoutNextKeepsInv, PTL DEF PayoutSpec

(***************************************************************************)
(* INV-24: a further attempt exists only while every earlier one stands    *)
(* rejected, whatever webhooks, pulls, sweeps, late acknowledgements and   *)
(* retries do (retryPayout, protect_payout_attempt).                       *)
(***************************************************************************)
THEOREM AttemptsAreExclusive == PayoutSpec => []OneInFlight
<1>1. PayoutInv => OneInFlight
  BY DEF PayoutInv
<1> QED
  BY <1>1, PayoutInitEstablishesInv, PayoutNextKeepsInv, PTL DEF PayoutSpec

(***************************************************************************)
(* T16 has its evidence, and the evidence is true: a confirmed payout has  *)
(* a credited latest attempt, and a recorded credit means that the         *)
(* provider paid this settlement (applyPayoutOutcome, pullPayoutStatus).   *)
(***************************************************************************)
THEOREM ConfirmationsAreBacked == PayoutSpec => [](ConfirmedIsCredited /\ CreditHasPayment)
<1>1. PayoutInv => ConfirmedIsCredited /\ CreditHasPayment
  BY DEF PayoutInv
<1> QED
  BY <1>1, PayoutInitEstablishesInv, PayoutNextKeepsInv, PTL DEF PayoutSpec

(***************************************************************************)
(* INV-36: the provider never holds a payout of a settlement on which a    *)
(* cancellation was accepted (dispatchPayout, requestCancellation).        *)
(***************************************************************************)
THEOREM CancelledIsNeverPaid == PayoutSpec => []NoPayoutWhenCancelled
<1>1. PayoutInv => NoPayoutWhenCancelled
  BY DEF PayoutInv, AttemptsAreDispatched, PayoutsHaveAttempts, NoPayoutWhenCancelled
<1> QED
  BY <1>1, PayoutInitEstablishesInv, PayoutNextKeepsInv, PTL DEF PayoutSpec

(***************************************************************************)
(* No late acknowledgement, delayed event or slow pull reopens an answered *)
(* attempt (protect_payout_attempt).                                       *)
(***************************************************************************)
THEOREM AnswersAreFinal == PayoutSpec => AnswerIsFinal
<1>1. AnswerIsFinal <=> [][FinalStep]_payoutVars
  BY DEF AnswerIsFinal, FinalStep
<1> QED
  BY <1>1, PayoutInitEstablishesInv, PayoutNextKeepsInv, PTL DEF PayoutSpec

(***************************************************************************)
(* CreditsAreBacked: however webhooks, pulls, sweeps and retries           *)
(* interleave, confirmations and credits are backed by payments, and       *)
(* nothing is paid for a cancelled settlement (applyPayoutOutcome,         *)
(* dispatchPayout).                                                        *)
(***************************************************************************)
THEOREM CreditsAreSound == PayoutSpec => []CreditsAreBacked
<1>1. PayoutInv => CreditsAreBacked
  BY DEF PayoutInv, CreditsAreBacked, AttemptsAreDispatched, PayoutsHaveAttempts, NoPayoutWhenCancelled
<1> QED
  BY <1>1, PayoutInitEstablishesInv, PayoutNextKeepsInv, PTL DEF PayoutSpec

-----------------------------------------------------------------------------
(* The CSV *)

(***************************************************************************)
(* A state of the parser, field by field, and what one character makes of  *)
(* it.                                                                     *)
(***************************************************************************)
Parser(g, r, f, q) == [grid |-> g, row |-> r, field |-> f, quoted |-> q]
Quoting == {"no", "yes", "closing", "cr"}
Parsers(C) == [grid : Seq(Seq(Seq(C))), row : Seq(Seq(C)), field : Seq(C), quoted : Quoting]

LEMMA EndFieldIs ==
  ASSUME NEW g, NEW r, NEW f, NEW q
  PROVE  /\ endField(Parser(g, r, f, q)) = Parser(g, Append(r, f), << >>, "no")
         /\ endRow(Parser(g, r, f, q)) = Parser(Append(g, Append(r, f)), << >>, << >>, "no")
<1>1. PICK s : s = Parser(g, r, f, q)
  OBVIOUS
<1>2. PICK row : row = Append(r, f)
  OBVIOUS
<1>3. PICK s1 : s1 = [s EXCEPT !.row = row]
  OBVIOUS
<1>4. PICK s2 : s2 = [s1 EXCEPT !.field = << >>]
  OBVIOUS
<1>5. PICK s3 : s3 = [s2 EXCEPT !.quoted = "no"]
  OBVIOUS
<1>6. s1 = Parser(g, row, f, q)
  BY <1>1, <1>3 DEF Parser
<1>7. s2 = Parser(g, row, << >>, q)
  BY <1>4, <1>6 DEF Parser
<1>8. s3 = Parser(g, row, << >>, "no")
  BY <1>5, <1>7 DEF Parser
<1>9. endField(s) = s3
  <2>1. s1 = [s EXCEPT !.row = Append(@, s.field)]
    <3>1. Append(s.row, s.field) = row
      BY <1>1, <1>2 DEF Parser
    <3> QED
      BY <1>3, <3>1
  <2> QED
    BY <1>4, <1>5, <2>1, Zenon DEF endField
<1>10. PICK s4 : s4 = [s3 EXCEPT !.grid = Append(@, s3.row)]
  OBVIOUS
<1>11. s4 = Parser(Append(g, row), row, << >>, "no")
  BY <1>8, <1>10 DEF Parser
<1>12. PICK s5 : s5 = [s4 EXCEPT !.row = << >>]
  OBVIOUS
<1>13. s5 = Parser(Append(g, row), << >>, << >>, "no")
  BY <1>11, <1>12 DEF Parser
<1>14. endRow(s) = s5
  BY <1>9, <1>10, <1>12, Zenon DEF endRow
<1> QED
  BY <1>1, <1>2, <1>8, <1>9, <1>13, <1>14

LEMMA TakeIs ==
  ASSUME NEW C, NEW g \in Seq(Seq(Seq(C))), NEW r \in Seq(Seq(C)), NEW f \in Seq(C),
         NEW q \in Quoting, NEW ch \in C
  PROVE  /\ take(Parser(g, r, f, q), ch) \in Parsers(C)
         /\ q = "yes" /\ ch = QUOTE => take(Parser(g, r, f, q), ch) = Parser(g, r, f, "closing")
         /\ q = "yes" /\ ch # QUOTE => take(Parser(g, r, f, q), ch) = Parser(g, r, Append(f, ch), "yes")
         /\ q = "closing" /\ ch = QUOTE => take(Parser(g, r, f, q), ch) = Parser(g, r, Append(f, ch), "yes")
         /\ q # "yes" /\ ch = COMMA =>
              take(Parser(g, r, f, q), ch) = Parser(g, Append(r, f), << >>, "no")
         /\ q \in {"no", "closing"} /\ ch = NEWLINE =>
              take(Parser(g, r, f, q), ch) = Parser(Append(g, Append(r, f)), << >>, << >>, "no")
         /\ q = "no" /\ ch \notin {QUOTE, COMMA, NEWLINE, CR} =>
              take(Parser(g, r, f, q), ch) = Parser(g, r, Append(f, ch), "no")
<1>1. PICK s : s = Parser(g, r, f, q)
  OBVIOUS
<1>2. /\ s.quoted = q /\ s.field = f /\ s.row = r /\ s.grid = g
      /\ [s EXCEPT !.quoted = "closing"] = Parser(g, r, f, "closing")
      /\ [s EXCEPT !.quoted = "yes"] = Parser(g, r, f, "yes")
      /\ [s EXCEPT !.field = Append(@, ch)] = Parser(g, r, Append(f, ch), q)
  <2>1. PICK longer : longer = Append(f, ch)
    OBVIOUS
  <2>2. /\ s.quoted = q /\ s.field = f /\ s.row = r /\ s.grid = g
        /\ [s EXCEPT !.quoted = "closing"] = Parser(g, r, f, "closing")
        /\ [s EXCEPT !.quoted = "yes"] = Parser(g, r, f, "yes")
    BY <1>1 DEF Parser
  <2>3. [s EXCEPT !.field = longer] = Parser(g, r, longer, q)
    BY <1>1 DEF Parser
  <2>4. [s EXCEPT !.field = Append(@, ch)] = [s EXCEPT !.field = longer]
    BY <2>1, <2>2
  <2> QED
    BY <2>1, <2>2, <2>3, <2>4
<1>3. \A x \in Quoting : [s EXCEPT !.quoted = x, !.field = Append(@, ch)] = Parser(g, r, Append(f, ch), x)
  <2> TAKE x \in Quoting
  <2>1. PICK s1 : s1 = [s EXCEPT !.quoted = x]
    OBVIOUS
  <2>2. s1 = Parser(g, r, f, x)
    BY <1>1, <2>1 DEF Parser
  <2>3. [s1 EXCEPT !.field = Append(@, ch)] = Parser(g, r, Append(f, ch), x)
    <3>1. PICK longer : longer = Append(f, ch)
      OBVIOUS
    <3>2. s1.field = f /\ [s1 EXCEPT !.field = longer] = Parser(g, r, longer, x)
      BY <2>2 DEF Parser
    <3>3. [s1 EXCEPT !.field = Append(@, ch)] = [s1 EXCEPT !.field = longer]
      BY <3>1, <3>2
    <3> QED
      BY <3>1, <3>2, <3>3
  <2>4. [s EXCEPT !.quoted = x, !.field = Append(@, ch)] = [s1 EXCEPT !.field = Append(@, ch)]
    BY <2>1, Zenon
  <2> QED
    BY <2>3, <2>4
<1>4. /\ [s EXCEPT !.quoted = "yes", !.field = Append(@, ch)] = Parser(g, r, Append(f, ch), "yes")
      /\ [s EXCEPT !.quoted = "no", !.field = Append(@, ch)] = Parser(g, r, Append(f, ch), "no")
  <2>1. "yes" \in Quoting /\ "no" \in Quoting
    BY DEF Quoting
  <2> QED
    BY <1>3, <2>1, Zenon
<1>5. endField(s) = Parser(g, Append(r, f), << >>, "no")
      /\ endRow(s) = Parser(Append(g, Append(r, f)), << >>, << >>, "no")
  BY <1>1, EndFieldIs
<1>6. /\ QUOTE # COMMA /\ QUOTE # NEWLINE /\ QUOTE # CR
      /\ COMMA # NEWLINE /\ COMMA # CR /\ NEWLINE # CR
      /\ q = "no" \/ q = "yes" \/ q = "closing" \/ q = "cr"
  BY DEF QUOTE, COMMA, NEWLINE, CR, Quoting
<1>7. \A a \in Seq(Seq(Seq(C))), b \in Seq(Seq(C)), c \in Seq(C), x \in Quoting : Parser(a, b, c, x) \in Parsers(C)
  BY DEF Parser, Parsers
<1>8. /\ Append(f, ch) \in Seq(C) /\ Append(r, f) \in Seq(Seq(C))
      /\ Append(g, Append(r, f)) \in Seq(Seq(Seq(C)))
      /\ << >> \in Seq(C) /\ << >> \in Seq(Seq(C))
      /\ "no" \in Quoting /\ "yes" \in Quoting /\ "closing" \in Quoting /\ "cr" \in Quoting
  BY DEF Quoting
<1>9. CASE q = "yes" /\ ch = QUOTE
  <2>1. take(s, ch) = Parser(g, r, f, "closing")
    BY <1>2, <1>9, Zenon DEF take
  <2> QED
    BY <1>1, <1>6, <1>9, <2>1, <1>7, <1>8
<1>10. CASE q = "yes" /\ ch # QUOTE
  <2>1. take(s, ch) = Parser(g, r, Append(f, ch), "yes")
    BY <1>2, <1>10 DEF take
  <2> QED
    BY <1>1, <1>6, <1>10, <2>1, <1>7, <1>8
<1>11. CASE q = "closing" /\ ch = QUOTE
  <2>1. take(s, ch) = Parser(g, r, Append(f, ch), "yes")
    BY <1>2, <1>4, <1>6, <1>11 DEF take
  <2> QED
    BY <1>1, <1>6, <1>11, <2>1, <1>7, <1>8
<1>12. CASE q \in {"no", "cr"} /\ ch = QUOTE
  <2>1. take(s, ch) = IF f = << >> THEN Parser(g, r, f, "yes") ELSE Parser(g, r, Append(f, ch), q)
    <3>1. /\ ~(s.quoted = "yes" /\ ch = QUOTE) /\ ~(s.quoted = "yes" /\ ch # QUOTE)
          /\ ~(s.quoted = "closing" /\ ch = QUOTE)
          /\ s.quoted \in {"no", "cr"} /\ ch = QUOTE
          /\ ~(s.quoted # "yes" /\ ch = COMMA) /\ ~(s.quoted # "yes" /\ ch = CR)
          /\ ~(s.quoted = "cr" /\ ch = NEWLINE) /\ ~(s.quoted \in {"no", "closing"} /\ ch = NEWLINE)
      BY <1>2, <1>6, <1>12
    <3>2. take(s, ch) = IF s.field = << >> THEN [s EXCEPT !.quoted = "yes"]
                        ELSE [s EXCEPT !.field = Append(@, ch)]
      BY <3>1, Zenon DEF take
    <3> QED
      BY <1>2, <3>2, Zenon
  <2>2. Len(f) = 0 => f = << >>
    OBVIOUS
  <2> QED
    BY <1>1, <1>6, <1>12, <2>1, <2>2, <1>7, <1>8
<1>13. CASE q # "yes" /\ ch = COMMA
  <2>1. take(s, ch) = Parser(g, Append(r, f), << >>, "no")
    BY <1>2, <1>5, <1>6, <1>13 DEF take
  <2> QED
    BY <1>1, <1>6, <1>13, <2>1, <1>7, <1>8
<1>14. CASE q \in {"no", "closing"} /\ ch = NEWLINE
  <2>1. take(s, ch) = Parser(Append(g, Append(r, f)), << >>, << >>, "no")
    BY <1>2, <1>5, <1>6, <1>14 DEF take
  <2> QED
    BY <1>1, <1>6, <1>14, <2>1, <1>7, <1>8
<1>15. CASE q # "yes" /\ ch \notin {QUOTE, COMMA, NEWLINE, CR}
  <2>1. take(s, ch) = Parser(g, r, Append(f, ch), "no")
    BY <1>2, <1>4, <1>6, <1>15 DEF take
  <2> QED
    BY <1>1, <1>6, <1>15, <2>1, <1>7, <1>8
<1>16. CASE q # "yes" /\ ch = CR
  <2>1. PICK ended : ended = endRow(s)
    OBVIOUS
  <2>2. take(s, ch) = [ended EXCEPT !.quoted = "cr"]
    BY <1>2, <1>6, <1>16, <2>1 DEF take
  <2>3. take(s, ch) = Parser(Append(g, Append(r, f)), << >>, << >>, "cr")
    <3>1. PICK grid : grid = Append(g, Append(r, f))
      OBVIOUS
    <3>2. ended = Parser(grid, << >>, << >>, "no")
      BY <1>5, <2>1, <3>1
    <3>3. [ended EXCEPT !.quoted = "cr"] = Parser(grid, << >>, << >>, "cr")
      BY <3>2 DEF Parser
    <3> QED
      BY <2>2, <3>1, <3>3
  <2> QED
    BY <1>1, <1>6, <1>16, <2>3, <1>7, <1>8
<1>17. CASE q = "cr" /\ ch = NEWLINE
  <2>1. take(s, ch) = [s EXCEPT !.quoted = "no"]
    BY <1>2, <1>6, <1>17 DEF take
  <2>2. take(s, ch) = Parser(g, r, f, "no")
    BY <1>1, <2>1 DEF Parser
  <2> QED
    BY <1>1, <1>6, <1>17, <2>2, <1>7, <1>8
<1> QED
  BY <1>6, <1>9, <1>10, <1>11, <1>12, <1>13, <1>14, <1>15, <1>16, <1>17

(***************************************************************************)
(* A quote at the start of a field opens it; a comma or a line break ends  *)
(* it unless it is open.                                                   *)
(***************************************************************************)
LEMMA QuoteOpens ==
  ASSUME NEW g, NEW r, NEW f, f = << >>
  PROVE  take(Parser(g, r, f, "no"), QUOTE) = Parser(g, r, f, "yes")
<1>1. PICK s : s = Parser(g, r, f, "no")
  OBVIOUS
<1>2. s.quoted = "no" /\ s.field = f /\ [s EXCEPT !.quoted = "yes"] = Parser(g, r, f, "yes")
  BY <1>1 DEF Parser
<1>3. take(s, QUOTE) = IF s.field = << >> THEN [s EXCEPT !.quoted = "yes"]
                       ELSE [s EXCEPT !.field = Append(@, QUOTE)]
  <2>1. /\ ~(s.quoted = "yes" /\ QUOTE = QUOTE)
        /\ ~(s.quoted = "yes" /\ QUOTE # QUOTE)
        /\ ~(s.quoted = "closing" /\ QUOTE = QUOTE)
        /\ s.quoted \in {"no", "cr"} /\ QUOTE = QUOTE
        /\ ~(s.quoted # "yes" /\ QUOTE = COMMA) /\ ~(s.quoted # "yes" /\ QUOTE = CR)
        /\ ~(s.quoted = "cr" /\ QUOTE = NEWLINE)
        /\ ~(s.quoted \in {"no", "closing"} /\ QUOTE = NEWLINE)
    BY <1>2 DEF QUOTE, COMMA, NEWLINE, CR
  <2> QED
    BY <2>1, Zenon DEF take
<1>4. s.field = << >>
  BY <1>2
<1>5. take(s, QUOTE) = [s EXCEPT !.quoted = "yes"]
  BY <1>3, <1>4, Zenon
<1> QED
  BY <1>1, <1>2, <1>5, Zenon

LEMMA EndsField ==
  ASSUME NEW C, {COMMA, NEWLINE} \subseteq C, NEW g \in Seq(Seq(Seq(C))), NEW r \in Seq(Seq(C)),
         NEW f \in Seq(C), NEW q \in {"no", "closing"}
  PROVE  /\ take(Parser(g, r, f, q), COMMA) = Parser(g, Append(r, f), << >>, "no")
         /\ take(Parser(g, r, f, q), NEWLINE) = Parser(Append(g, Append(r, f)), << >>, << >>, "no")
<1>1. PICK at \in Quoting, comma \in C, newline \in C : at = q /\ comma = COMMA /\ newline = NEWLINE
  BY DEF Quoting
<1>2. at # "yes" /\ at \in {"no", "closing"}
  BY <1>1
<1>3. take(Parser(g, r, f, at), comma) = Parser(g, Append(r, f), << >>, "no")
  BY <1>1, <1>2, TakeIs
<1>4. take(Parser(g, r, f, at), newline) = Parser(Append(g, Append(r, f)), << >>, << >>, "no")
  BY <1>1, <1>2, TakeIs
<1> QED
  BY <1>1, <1>3, <1>4, Zenon

(***************************************************************************)
(* The parser after each character of a text.                              *)
(***************************************************************************)
LEMMA ReadingIs ==
  ASSUME NEW C, NEW first \in Parsers(C), NEW text \in Seq(C)
  PROVE  /\ reading(first, text)[0] = first
         /\ \A k \in 1..Len(text) : reading(first, text)[k] = take(reading(first, text)[k - 1], text[k])
         /\ \A k \in 0..Len(text) : reading(first, text)[k] \in Parsers(C)
<1>1. PICK n \in Nat : n = Len(text)
  OBVIOUS
<1>2. PICK S : S = Parsers(C)
  OBVIOUS
<1>3. \A st \in S, ch \in C : take(st, ch) \in S
  <2> TAKE st \in S, ch \in C
  <2>1. /\ st.grid \in Seq(Seq(Seq(C))) /\ st.row \in Seq(Seq(C)) /\ st.field \in Seq(C)
        /\ st.quoted \in Quoting /\ st = Parser(st.grid, st.row, st.field, st.quoted)
    BY <1>2 DEF Parsers, Parser
  <2>2. take(Parser(st.grid, st.row, st.field, st.quoted), ch) \in Parsers(C)
    BY <2>1, TakeIs
  <2> QED
    BY <1>2, <2>1, <2>2
<1>4. \A k \in 1..n : text[k] \in C
  BY <1>1
<1>5. PICK step : step = [at \in (1..n) \X S |-> take(at[2], text[at[1]])]
  OBVIOUS
<1>6. step \in [(1..n) \X S -> S] /\ \A k \in 1..n, st \in S : step[<<k, st>>] = take(st, text[k])
  BY <1>3, <1>4, <1>5
<1>7. PICK h \in [0..n -> S] : h[0] = first /\ \A k \in 1..n : h[k] = step[<<k, h[k - 1]>>]
  <2>1. Solvable(n, S, first, step)
    BY <1>2, <1>6, RecursionExists
  <2> QED
    BY <2>1 DEF Solvable
<1>8. \A k \in 0..n : h[k] = IF k = 0 THEN first ELSE take(h[k - 1], text[k])
  <2> TAKE k \in 0..n
  <2>1. k # 0 => k \in 1..n /\ k - 1 \in 0..n
    OBVIOUS
  <2>2. k # 0 => h[k] = take(h[k - 1], text[k])
    BY <1>6, <1>7, <2>1
  <2> QED
    BY <1>7, <2>2
<1>9. h = [i \in 0..n |-> IF i = 0 THEN first ELSE take(h[i - 1], text[i])]
  BY <1>7, <1>8
<1>10. PICK g : g = reading(first, text)
  OBVIOUS
<1>11. g = [i \in 0..n |-> IF i = 0 THEN first ELSE take(g[i - 1], text[i])]
  BY <1>1, <1>9, <1>10 DEF reading
<1>12. \A k \in 0..n : g[k] = IF k = 0 THEN first ELSE take(g[k - 1], text[k])
  BY <1>11, Zenon
<1>13. g[0] = first /\ \A k \in 1..n : g[k] = take(g[k - 1], text[k])
  <2>1. 0 \in 0..n /\ \A k \in 1..n : k \in 0..n /\ k # 0
    OBVIOUS
  <2> QED
    BY <1>12, <2>1, Zenon
<1>14. \A k \in 0..n : g[k] \in S
  <2> DEFINE T == {k \in 0..n : g[k] \in S}
  <2>1. 0 \in T
    BY <1>2, <1>13
  <2>2. ASSUME NEW k \in 1..n, k - 1 \in T PROVE k \in T
    <3>1. g[k - 1] \in S /\ g[k] = take(g[k - 1], text[k]) /\ text[k] \in C
      BY <1>4, <1>13, <2>2
    <3>2. g[k] \in S
      BY <1>3, <3>1
    <3> QED
      BY <3>2
  <2> HIDE DEF T
  <2>3. \A k \in 0..n : k \in T
    BY <2>1, <2>2, IntervalInduction
  <2> QED
    BY <2>3 DEF T
<1> QED
  BY <1>1, <1>2, <1>10, <1>13, <1>14

After(st, text) == reading(st, text)[Len(text)]

(***************************************************************************)
(* Reading two texts one after the other is reading them joined.           *)
(***************************************************************************)
LEMMA AfterIsTyped ==
  ASSUME NEW C, NEW st \in Parsers(C), NEW text \in Seq(C)
  PROVE  After(st, text) \in Parsers(C)
<1>1. Len(text) \in 0..Len(text)
  OBVIOUS
<1> QED
  BY <1>1, ReadingIs DEF After

LEMMA AfterOne ==
  ASSUME NEW C, NEW st \in Parsers(C), NEW ch \in C
  PROVE  After(st, <<ch>>) = take(st, ch)
<1>1. PICK text \in Seq(C) : text = <<ch>>
  <2>1. <<ch>> \in Seq(C)
    OBVIOUS
  <2> QED
    BY <2>1
<1>2. Len(text) = 1 /\ text[1] = ch
  BY <1>1
<1>3. reading(st, text)[0] = st /\ reading(st, text)[1] = take(reading(st, text)[1 - 1], text[1])
  BY <1>2, ReadingIs
<1> QED
  BY <1>1, <1>2, <1>3 DEF After

LEMMA AfterJoined ==
  ASSUME NEW C, NEW st \in Parsers(C), NEW s \in Seq(C), NEW t \in Seq(C)
  PROVE  After(st, s \o t) = After(After(st, s), t)
<1>1. PICK n \in Nat, m \in Nat : n = Len(s) /\ m = Len(t)
  OBVIOUS
<1>2. PICK u \in Seq(C) : u = s \o t
  <2>1. s \o t \in Seq(C)
    OBVIOUS
  <2> QED
    BY <2>1
<1>3. /\ Len(u) = n + m
      /\ \A k \in 1..n : u[k] = s[k]
      /\ \A k \in 1..m : u[n + k] = t[k]
  BY <1>1, <1>2
<1>4. PICK a : a = reading(st, s)
  OBVIOUS
<1>5. PICK mid \in Parsers(C) : mid = After(st, s)
  BY AfterIsTyped
<1>6. PICK b : b = reading(mid, t)
  OBVIOUS
<1>7. PICK c : c = reading(st, u)
  OBVIOUS
<1>8. a[0] = st /\ (\A k \in 1..n : a[k] = take(a[k - 1], s[k])) /\ a[n] = mid
  BY <1>1, <1>4, <1>5, ReadingIs DEF After
<1>9. b[0] = mid /\ \A k \in 1..m : b[k] = take(b[k - 1], t[k])
  BY <1>1, <1>6, ReadingIs
<1>10. c[0] = st /\ \A k \in 1..(n + m) : c[k] = take(c[k - 1], u[k])
  <2>1. c[0] = st /\ \A k \in 1..Len(u) : c[k] = take(c[k - 1], u[k])
    BY <1>7, ReadingIs
  <2> QED
    BY <1>3, <2>1
<1>11. c[n] = a[n]
  <2> DEFINE T == {k \in 0..n : c[k] = a[k]}
  <2>1. 0 \in T
    BY <1>8, <1>10
  <2>2. ASSUME NEW k \in 1..n, k - 1 \in T PROVE k \in T
    <3>1. k \in 1..(n + m) /\ u[k] = s[k] /\ c[k - 1] = a[k - 1]
      BY <1>3, <2>2
    <3>2. c[k] = a[k]
      BY <1>8, <1>10, <3>1
    <3> QED
      BY <3>2
  <2> HIDE DEF T
  <2>3. \A k \in 0..n : k \in T
    BY <2>1, <2>2, IntervalInduction
  <2>4. n \in T
    BY <2>3
  <2> QED
    BY <2>4 DEF T
<1>12. c[n + m] = b[m]
  <2> DEFINE T == {k \in 0..m : c[n + k] = b[k]}
  <2>1. 0 \in T
    BY <1>8, <1>9, <1>11
  <2>2. ASSUME NEW k \in 1..m, k - 1 \in T PROVE k \in T
    <3>1. n + k \in 1..(n + m) /\ u[n + k] = t[k] /\ (n + k) - 1 = n + (k - 1)
      BY <1>3
    <3>2. c[n + (k - 1)] = b[k - 1]
      BY <2>2
    <3>3. c[n + k] = take(c[n + (k - 1)], t[k]) /\ b[k] = take(b[k - 1], t[k])
      BY <1>9, <1>10, <3>1
    <3>4. c[n + k] = b[k]
      BY <3>2, <3>3
    <3> QED
      BY <3>4
  <2> HIDE DEF T
  <2>3. \A k \in 0..m : k \in T
    BY <2>1, <2>2, IntervalInduction
  <2>4. m \in T
    BY <2>3
  <2> QED
    BY <2>4 DEF T
<1> QED
  BY <1>1, <1>2, <1>3, <1>5, <1>6, <1>7, <1>12 DEF After

(***************************************************************************)
(* What the lemmas below are instantiated with.                            *)
(***************************************************************************)
LEMMA ParserIsTyped ==
  ASSUME NEW C, NEW g \in Seq(Seq(Seq(C))), NEW r \in Seq(Seq(C)), NEW f \in Seq(C), NEW q \in Quoting
  PROVE  Parser(g, r, f, q) \in Parsers(C)
BY DEF Parser, Parsers

LEMMA NothingIsText ==
  ASSUME NEW C
  PROVE  << >> \in Seq(C) /\ Len(<< >>) = 0
OBVIOUS

(***************************************************************************)
(* Reading nothing, and one character more than before.                    *)
(***************************************************************************)
LEMMA AfterNothing ==
  ASSUME NEW C, NEW st \in Parsers(C)
  PROVE  After(st, << >>) = st
<1>1. PICK none \in Seq(C) : none = << >> /\ Len(none) = 0
  BY NothingIsText
<1> QED
  BY <1>1, ReadingIs DEF After

LEMMA AfterMore ==
  ASSUME NEW C, NEW st \in Parsers(C), NEW s \in Seq(C), NEW ch \in C
  PROVE  Append(s, ch) \in Seq(C) /\ After(st, Append(s, ch)) = take(After(st, s), ch)
<1>1. PICK one \in Seq(C) : one = <<ch>>
  <2>1. <<ch>> \in Seq(C)
    OBVIOUS
  <2> QED
    BY <2>1
<1>2. Append(s, ch) \in Seq(C) /\ Append(s, ch) = s \o one
  BY <1>1
<1>3. PICK mid \in Parsers(C) : mid = After(st, s)
  BY AfterIsTyped
<1>4. After(st, s \o one) = After(mid, one)
  BY <1>3, AfterJoined
<1>5. After(mid, one) = take(mid, ch)
  BY <1>1, AfterOne
<1> QED
  BY <1>1, <1>2, <1>3, <1>4, <1>5

(***************************************************************************)
(* FirstOf(v, k): the first k characters of v.                             *)
(***************************************************************************)
FirstOf(v, k) == [j \in 1..k |-> v[j]]

LEMMA FirstOfIs ==
  ASSUME NEW C, NEW v \in Seq(C)
  PROVE  /\ FirstOf(v, 0) = << >> /\ FirstOf(v, Len(v)) = v
         /\ \A k \in 0..Len(v) : FirstOf(v, k) \in Seq(C)
         /\ \A k \in 1..Len(v) : FirstOf(v, k) = Append(FirstOf(v, k - 1), v[k])
<1>1. PICK n \in Nat : n = Len(v)
  OBVIOUS
<1>2. \A k \in 1..n : v[k] \in C
  BY <1>1
<1>3. \A k \in 0..n : FirstOf(v, k) \in Seq(C) /\ Len(FirstOf(v, k)) = k /\ \A j \in 1..k : FirstOf(v, k)[j] = v[j]
  <2> TAKE k \in 0..n
  <2>1. PICK f : f = [j \in 1..k |-> v[j]]
    OBVIOUS
  <2>2. f \in [1..k -> C]
    BY <1>2, <2>1
  <2>3. k \in Nat
    OBVIOUS
  <2>4. f \in Seq(C) /\ Len(f) = k
    BY <2>2, <2>3
  <2> QED
    BY <2>1, <2>4 DEF FirstOf
<1>4. FirstOf(v, 0) = << >>
  <2>1. PICK f \in Seq(C) : f = FirstOf(v, 0) /\ Len(f) = 0
    BY <1>3
  <2> QED
    BY <2>1
<1>5. FirstOf(v, n) = v
  <2>1. PICK f \in Seq(C) : f = FirstOf(v, n) /\ Len(f) = n /\ \A j \in 1..n : f[j] = v[j]
    BY <1>3
  <2> QED
    BY <1>1, <2>1
<1>6. \A k \in 1..n : FirstOf(v, k) = Append(FirstOf(v, k - 1), v[k])
  <2> TAKE k \in 1..n
  <2>1. PICK f \in Seq(C) : f = FirstOf(v, k) /\ Len(f) = k /\ \A j \in 1..k : f[j] = v[j]
    BY <1>3
  <2>2. k - 1 \in 0..n
    OBVIOUS
  <2>3. PICK e \in Seq(C) : e = FirstOf(v, k - 1) /\ Len(e) = k - 1 /\ \A j \in 1..(k - 1) : e[j] = v[j]
    BY <1>3, <2>2
  <2>4. PICK ch \in C : ch = v[k]
    BY <1>2
  <2>5. f = Append(e, ch)
    <3>1. PICK h \in Seq(C) : h = Append(e, ch)
      <4>1. Append(e, ch) \in Seq(C)
        OBVIOUS
      <4> QED
        BY <4>1
    <3>2. Len(h) = k /\ h[k] = ch /\ \A j \in 1..(k - 1) : h[j] = e[j]
      BY <2>3, <3>1
    <3>3. \A j \in 1..k : h[j] = f[j]
      BY <2>1, <2>3, <2>4, <3>2
    <3> QED
      BY <2>1, <3>1, <3>2, <3>3
  <2> QED
    BY <2>1, <2>3, <2>4, <2>5
<1> QED
  BY <1>1, <1>3, <1>4, <1>5, <1>6

(***************************************************************************)
(* A text without a character that matters becomes the field.              *)
(***************************************************************************)
LEMMA PlainText ==
  ASSUME NEW C, NEW g \in Seq(Seq(Seq(C))), NEW r \in Seq(Seq(C)), NEW v \in Seq(C), ~Special(v)
  PROVE  After(Parser(g, r, << >>, "no"), v) = Parser(g, r, v, "no")
<1>1. PICK n \in Nat : n = Len(v)
  OBVIOUS
<1>2. PICK st \in Parsers(C) : st = Parser(g, r, << >>, "no")
  <2>1. PICK none \in Seq(C), q \in Quoting : none = << >> /\ q = "no"
    BY NothingIsText DEF Quoting
  <2>2. Parser(g, r, none, q) \in Parsers(C)
    BY ParserIsTyped
  <2> QED
    BY <2>1, <2>2
<1>3. PICK a : a = reading(st, v)
  OBVIOUS
<1>4. a[0] = st /\ (\A k \in 1..n : a[k] = take(a[k - 1], v[k])) /\ After(st, v) = a[n]
  <2>1. reading(st, v)[0] = st
    BY ReadingIs
  <2>2. \A k \in 1..Len(v) : reading(st, v)[k] = take(reading(st, v)[k - 1], v[k])
    BY ReadingIs
  <2> QED
    BY <1>1, <1>3, <2>1, <2>2, Zenon DEF After
<1>5. \A k \in 1..n : v[k] \in C /\ v[k] \notin {QUOTE, COMMA, NEWLINE, CR}
  BY <1>1 DEF Special
<1> DEFINE T == {k \in 0..n : a[k] = Parser(g, r, FirstOf(v, k), "no")}
<1>6. 0 \in T
  BY <1>2, <1>4, FirstOfIs
<1>7. ASSUME NEW k \in 1..n, k - 1 \in T PROVE k \in T
  <2>1. PICK f \in Seq(C) : f = FirstOf(v, k - 1)
    <3>1. k - 1 \in 0..n
      OBVIOUS
    <3> QED
      BY <1>1, <3>1, FirstOfIs
  <2>2. PICK ch \in C : ch = v[k] /\ ch \notin {QUOTE, COMMA, NEWLINE, CR}
    BY <1>5
  <2>3. PICK q \in Quoting : q = "no"
    BY DEF Quoting
  <2>4. a[k - 1] = Parser(g, r, f, q)
    BY <1>7, <2>1, <2>3
  <2>5. take(Parser(g, r, f, q), ch) = Parser(g, r, Append(f, ch), "no")
    BY <2>2, <2>3, TakeIs
  <2>6. FirstOf(v, k) = Append(f, ch)
    BY <1>1, <2>1, <2>2, FirstOfIs
  <2>7. a[k] = Parser(g, r, FirstOf(v, k), "no")
    BY <1>4, <2>2, <2>4, <2>5, <2>6
  <2> QED
    BY <2>7
<1>8. n \in T
  <2> HIDE DEF T
  <2>1. \A k \in 0..n : k \in T
    BY <1>6, <1>7, IntervalInduction
  <2> QED
    BY <2>1
<1>9. a[n] = Parser(g, r, v, "no")
  <2>1. FirstOf(v, n) = v
    BY <1>1, FirstOfIs
  <2> QED
    BY <1>8, <2>1
<1> QED
  BY <1>2, <1>4, <1>9

(***************************************************************************)
(* Between quotes everything does, and a quote that was doubled once.      *)
(***************************************************************************)
LEMMA QuotedText ==
  ASSUME NEW C, QUOTE \in C, NEW g \in Seq(Seq(Seq(C))), NEW r \in Seq(Seq(C)), NEW v \in Seq(C)
  PROVE  /\ doubled(v) \in Seq(C)
         /\ After(Parser(g, r, << >>, "yes"), doubled(v)) = Parser(g, r, v, "yes")
<1>1. PICK n \in Nat : n = Len(v)
  OBVIOUS
<1>2. PICK S : S = Seq(C)
  OBVIOUS
<1> DEFINE More(s, k) == IF v[k] = QUOTE THEN s \o <<QUOTE, QUOTE>> ELSE Append(s, v[k])
<1>3. \A s \in S, k \in 1..n : More(s, k) \in S
  <2> TAKE s \in S, k \in 1..n
  <2>1. v[k] \in C /\ <<QUOTE, QUOTE>> \in Seq(C)
    BY <1>1
  <2>2. s \o <<QUOTE, QUOTE>> \in Seq(C) /\ Append(s, v[k]) \in Seq(C)
    BY <1>2, <2>1
  <2> QED
    BY <1>2, <2>2
<1>4. PICK out : /\ out = [i \in 0..n |-> IF i = 0 THEN << >> ELSE More(out[i - 1], i)]
                 /\ doubled(v) = out[n]
  <2> HIDE DEF More
  <2>1. PICK step : step = [at \in (1..n) \X S |-> More(at[2], at[1])]
    OBVIOUS
  <2>2. step \in [(1..n) \X S -> S] /\ \A k \in 1..n, s \in S : step[<<k, s>>] = More(s, k)
    BY <1>3, <2>1
  <2>3. PICK none \in S : none = << >>
    BY <1>2, NothingIsText
  <2>4. PICK h \in [0..n -> S] : h[0] = none /\ \A k \in 1..n : h[k] = step[<<k, h[k - 1]>>]
    <3>1. Solvable(n, S, none, step)
      BY <2>2, RecursionExists
    <3> QED
      BY <3>1 DEF Solvable
  <2>5. \A k \in 0..n : h[k] = IF k = 0 THEN << >> ELSE More(h[k - 1], k)
    <3> TAKE k \in 0..n
    <3>1. k # 0 => k \in 1..n /\ k - 1 \in 0..n
      OBVIOUS
    <3>2. k # 0 => h[k] = More(h[k - 1], k)
      BY <2>2, <2>4, <3>1
    <3> QED
      BY <2>3, <2>4, <3>2
  <2>6. h = [i \in 0..n |-> IF i = 0 THEN << >> ELSE More(h[i - 1], i)]
    BY <2>4, <2>5
  <2> USE DEF More
  <2>7. h = [i \in 0..Len(v) |-> IF i = 0 THEN << >>
              ELSE IF v[i] = QUOTE THEN h[i - 1] \o <<QUOTE, QUOTE>> ELSE Append(h[i - 1], v[i])]
    BY <1>1, <2>6
  <2>8. PICK out : out = CHOOSE o : o = [i \in 0..Len(v) |-> IF i = 0 THEN << >>
              ELSE IF v[i] = QUOTE THEN o[i - 1] \o <<QUOTE, QUOTE>> ELSE Append(o[i - 1], v[i])]
    OBVIOUS
  <2>9. out = [i \in 0..Len(v) |-> IF i = 0 THEN << >>
              ELSE IF v[i] = QUOTE THEN out[i - 1] \o <<QUOTE, QUOTE>> ELSE Append(out[i - 1], v[i])]
    BY <2>7, <2>8
  <2>10. doubled(v) = out[Len(v)]
    BY <2>8 DEF doubled
  <2> QED
    BY <1>1, <2>9, <2>10
<1>5. out[0] = << >> /\ \A k \in 1..n : out[k] = More(out[k - 1], k)
  <2> HIDE DEF More
  <2>1. \A k \in 0..n : out[k] = IF k = 0 THEN << >> ELSE More(out[k - 1], k)
    BY <1>4, Zenon
  <2>2. 0 \in 0..n /\ \A k \in 1..n : k \in 0..n /\ k # 0
    OBVIOUS
  <2> QED
    BY <2>1, <2>2, Zenon
<1>6. PICK st \in Parsers(C) : st = Parser(g, r, << >>, "yes")
  <2>1. PICK none \in Seq(C), q \in Quoting : none = << >> /\ q = "yes"
    BY NothingIsText DEF Quoting
  <2>2. Parser(g, r, none, q) \in Parsers(C)
    BY ParserIsTyped
  <2> QED
    BY <2>1, <2>2
<1> DEFINE T == {k \in 0..n : /\ out[k] \in Seq(C)
                              /\ After(st, out[k]) = Parser(g, r, FirstOf(v, k), "yes")}
<1>7. 0 \in T
  <2>1. PICK none \in Seq(C) : none = << >>
    BY NothingIsText
  <2>2. After(st, none) = st
    BY <2>1, AfterNothing
  <2>3. out[0] = none /\ FirstOf(v, 0) = none
    BY <1>5, <2>1, FirstOfIs
  <2>4. st = Parser(g, r, none, "yes")
    BY <1>6, <2>1
  <2> QED
    BY <2>2, <2>3, <2>4
<1>8. ASSUME NEW k \in 1..n, k - 1 \in T PROVE k \in T
  <2>1. PICK f \in Seq(C) : f = FirstOf(v, k - 1)
    <3>1. k - 1 \in 0..n
      OBVIOUS
    <3> QED
      BY <1>1, <3>1, FirstOfIs
  <2>2. PICK before \in Seq(C) : before = out[k - 1]
    BY <1>8
  <2>3. PICK ch \in C : ch = v[k]
    BY <1>1
  <2>4. PICK q \in Quoting, closing \in Quoting : q = "yes" /\ closing = "closing"
    BY DEF Quoting
  <2>5. After(st, before) = Parser(g, r, f, q)
    BY <1>8, <2>1, <2>2, <2>4
  <2>6. out[k] = IF ch = QUOTE THEN before \o <<ch, ch>> ELSE Append(before, ch)
    <3>1. out[k] = More(out[k - 1], k)
      BY <1>5
    <3> QED
      BY <2>2, <2>3, <3>1
  <2>7. FirstOf(v, k) = Append(f, ch)
    BY <1>1, <2>1, <2>3, FirstOfIs
  <2>8. Append(before, ch) \in Seq(C) /\ After(st, Append(before, ch)) = take(Parser(g, r, f, q), ch)
    <3>1. Append(before, ch) \in Seq(C) /\ After(st, Append(before, ch)) = take(After(st, before), ch)
      BY AfterMore
    <3> QED
      BY <2>5, <3>1
  <2>9. PICK half \in Seq(C) : half = Append(before, ch)
    BY <2>8
  <2>10. out[k] \in Seq(C) /\ After(st, out[k]) = Parser(g, r, Append(f, ch), "yes")
    <3>1. CASE ch # QUOTE
      <4>1. take(Parser(g, r, f, q), ch) = Parser(g, r, Append(f, ch), "yes")
        BY <2>4, <3>1, TakeIs
      <4> QED
        BY <2>6, <2>8, <3>1, <4>1
    <3>2. CASE ch = QUOTE
      <4>1. take(Parser(g, r, f, q), ch) = Parser(g, r, f, closing)
        BY <2>4, <3>2, TakeIs
      <4>2. After(st, half) = Parser(g, r, f, closing)
        BY <2>8, <2>9, <4>1
      <4>3. Append(half, ch) \in Seq(C) /\ After(st, Append(half, ch)) = take(After(st, half), ch)
        BY AfterMore
      <4>4. take(Parser(g, r, f, closing), ch) = Parser(g, r, Append(f, ch), "yes")
        BY <2>4, <3>2, TakeIs
      <4>5. before \o <<ch, ch>> = Append(half, ch)
        BY <2>9
      <4> QED
        BY <2>6, <3>2, <4>2, <4>3, <4>4, <4>5
    <3> QED
      BY <3>1, <3>2
  <2>11. out[k] \in Seq(C) /\ After(st, out[k]) = Parser(g, r, FirstOf(v, k), "yes")
    BY <2>7, <2>10
  <2> QED
    BY <2>11
<1>9. n \in T
  <2> HIDE DEF T
  <2>1. \A k \in 0..n : k \in T
    BY <1>7, <1>8, IntervalInduction
  <2> QED
    BY <2>1
<1>10. out[n] \in Seq(C) /\ After(st, out[n]) = Parser(g, r, v, "yes")
  <2>1. FirstOf(v, n) = v
    BY <1>1, FirstOfIs
  <2> QED
    BY <1>9, <2>1
<1> QED
  BY <1>4, <1>6, <1>10

(***************************************************************************)
(* What the parser is left with once a field was read, its last quote      *)
(* still open to a second one; and a rendered field read back.             *)
(***************************************************************************)
FieldIsRead(st, g, r, f) == st \in {Parser(g, r, f, "no"), Parser(g, r, f, "closing")}

LEMMA EscapedIsRead ==
  ASSUME NEW C, QUOTE \in C, NEW g \in Seq(Seq(Seq(C))), NEW r \in Seq(Seq(C)), NEW v \in Seq(C)
  PROVE  /\ escape(v) \in Seq(C)
         /\ FieldIsRead(After(Parser(g, r, << >>, "no"), escape(v)), g, r, v)
<1>1. PICK none \in Seq(C), no \in Quoting, yes \in Quoting :
        none = << >> /\ no = "no" /\ yes = "yes"
  BY NothingIsText DEF Quoting
<1>2. PICK st \in Parsers(C) : st = Parser(g, r, none, no)
  BY ParserIsTyped
<1>3. CASE ~Special(v)
  <2>1. escape(v) = v
    BY <1>3 DEF escape
  <2>2. After(Parser(g, r, << >>, "no"), v) = Parser(g, r, v, "no")
    BY <1>3, PlainText
  <2> QED
    BY <2>1, <2>2 DEF FieldIsRead
<1>4. CASE Special(v)
  <2>1. PICK d \in Seq(C) : d = doubled(v)
    BY QuotedText
  <2>2. PICK q \in C : q = QUOTE
    OBVIOUS
  <2>3. PICK open \in Seq(C) : open = <<q>>
    <3>1. <<q>> \in Seq(C)
      OBVIOUS
    <3> QED
      BY <3>1
  <2>4. After(st, open) = Parser(g, r, none, "yes")
    <3>1. take(Parser(g, r, none, "no"), QUOTE) = Parser(g, r, none, "yes")
      BY <1>1, QuoteOpens, Zenon
    <3>2. take(Parser(g, r, none, no), q) = Parser(g, r, none, "yes")
      BY <1>1, <2>2, <3>1, Zenon
    <3>3. After(st, open) = take(st, q)
      BY <2>3, AfterOne
    <3> QED
      BY <1>2, <3>2, <3>3
  <2>5. PICK inside \in Seq(C) : inside = open \o d
    <3>1. open \o d \in Seq(C)
      OBVIOUS
    <3> QED
      BY <3>1
  <2>6. After(st, inside) = Parser(g, r, v, yes)
    <3>1. After(st, inside) = After(After(st, open), d)
      BY <2>5, AfterJoined
    <3>2. After(Parser(g, r, << >>, "yes"), d) = Parser(g, r, v, "yes")
      BY <2>1, QuotedText
    <3> QED
      BY <1>1, <2>4, <3>1, <3>2
  <2>7. Append(inside, q) \in Seq(C) /\ After(st, Append(inside, q)) = take(After(st, inside), q)
    BY AfterMore
  <2>8. take(Parser(g, r, v, yes), q) = Parser(g, r, v, "closing")
    BY <1>1, <2>2, TakeIs
  <2>9. escape(v) = Append(inside, q)
    <3>1. escape(v) = <<q>> \o d \o <<q>>
      BY <1>4, <2>1, <2>2 DEF escape
    <3>2. inside \o <<q>> = Append(inside, q)
      OBVIOUS
    <3> QED
      BY <2>3, <2>5, <3>1, <3>2
  <2> QED
    BY <1>1, <1>2, <2>6, <2>7, <2>8, <2>9 DEF FieldIsRead
<1> QED
  BY <1>3, <1>4

(***************************************************************************)
(* A rendered row read back: its first cell in the row, its second the     *)
(* field at hand.                                                          *)
(***************************************************************************)
LineOf(row) == escape(<<row.instr>>) \o <<COMMA>> \o escape(row.ref)
RowsOver(C) == [instr : C, ref : Seq(C)]

LEMMA LineIsRead ==
  ASSUME NEW C, {QUOTE, COMMA, NEWLINE} \subseteq C, NEW g \in Seq(Seq(Seq(C))), NEW row \in RowsOver(C)
  PROVE  /\ LineOf(row) \in Seq(C)
         /\ FieldIsRead(After(Parser(g, << >>, << >>, "no"), LineOf(row)), g, <<<<row.instr>>>>, row.ref)
<1>1. PICK none \in Seq(C), nocell \in Seq(Seq(C)), no \in Quoting, closing \in Quoting :
        none = << >> /\ nocell = << >> /\ no = "no" /\ closing = "closing"
  BY NothingIsText DEF Quoting
<1>2. PICK st \in Parsers(C) : st = Parser(g, nocell, none, no)
  BY ParserIsTyped
<1>3. PICK cell \in Seq(C), ref \in Seq(C) : cell = <<row.instr>> /\ ref = row.ref
  <2>1. row.instr \in C /\ row.ref \in Seq(C)
    BY DEF RowsOver
  <2>2. <<row.instr>> \in Seq(C)
    BY <2>1
  <2> QED
    BY <2>1, <2>2
<1>4. PICK e \in Seq(C), f \in Seq(C) : e = escape(cell) /\ f = escape(ref)
  BY EscapedIsRead
<1>5. PICK comma \in C : comma = COMMA
  OBVIOUS
<1>6. FieldIsRead(After(st, e), g, nocell, cell)
  <2>1. FieldIsRead(After(Parser(g, nocell, << >>, "no"), escape(cell)), g, nocell, cell)
    BY EscapedIsRead
  <2> QED
    BY <1>1, <1>2, <1>4, <2>1
<1>7. PICK head \in Seq(C) : head = Append(e, comma) /\ After(st, head) = take(After(st, e), comma)
  <2>1. Append(e, comma) \in Seq(C) /\ After(st, Append(e, comma)) = take(After(st, e), comma)
    BY AfterMore
  <2> QED
    BY <2>1
<1>8. PICK r \in Seq(Seq(C)) : r = <<cell>>
  <2>1. <<cell>> \in Seq(Seq(C))
    OBVIOUS
  <2> QED
    BY <2>1
<1>9. After(st, head) = Parser(g, r, << >>, "no")
  <2>1. \A q \in {"no", "closing"} :
          take(Parser(g, nocell, cell, q), comma) = Parser(g, Append(nocell, cell), << >>, "no")
    BY <1>5, EndsField
  <2>2. Append(nocell, cell) = r
    BY <1>1, <1>8
  <2>3. PICK q \in {"no", "closing"} : After(st, e) = Parser(g, nocell, cell, q)
    BY <1>6 DEF FieldIsRead
  <2> QED
    BY <1>7, <2>1, <2>2, <2>3
<1>10. PICK line \in Seq(C) : line = head \o f
  <2>1. head \o f \in Seq(C)
    OBVIOUS
  <2> QED
    BY <2>1
<1>11. LineOf(row) = line
  <2>1. LineOf(row) = e \o <<comma>> \o f
    BY <1>3, <1>4, <1>5 DEF LineOf
  <2>2. e \o <<comma>> = Append(e, comma)
    OBVIOUS
  <2> QED
    BY <1>7, <1>10, <2>1, <2>2
<1>12. FieldIsRead(After(st, line), g, r, ref)
  <2>1. After(st, line) = After(After(st, head), f)
    BY <1>10, AfterJoined
  <2>2. FieldIsRead(After(Parser(g, r, << >>, "no"), escape(ref)), g, r, ref)
    BY EscapedIsRead
  <2> QED
    BY <1>4, <1>9, <2>1, <2>2
<1> QED
  BY <1>1, <1>2, <1>3, <1>8, <1>11, <1>12

(***************************************************************************)
(* The grid of a sheet's first k rows, the heading included.               *)
(***************************************************************************)
Cells(row) == <<<<row.instr>>, row.ref>>
GridOf(given, k) == [n \in 1..k |-> Cells(given[n])]

(***************************************************************************)
(* A row of one cell and another.                                          *)
(***************************************************************************)
LEMMA PairIs ==
  ASSUME NEW S, NEW a \in S, NEW b \in S
  PROVE  Append(<<a>>, b) = <<a, b>>
<1>1. PICK one \in Seq(S) : one = <<a>> /\ Len(one) = 1 /\ one[1] = a
  <2>1. <<a>> \in Seq(S) /\ Len(<<a>>) = 1 /\ <<a>>[1] = a
    OBVIOUS
  <2> QED
    BY <2>1
<1>2. PICK two \in Seq(S) : two = <<a, b>> /\ Len(two) = 2 /\ two[1] = a /\ two[2] = b
  <2>1. <<a, b>> \in Seq(S) /\ Len(<<a, b>>) = 2 /\ <<a, b>>[1] = a /\ <<a, b>>[2] = b
    OBVIOUS
  <2> QED
    BY <2>1
<1>3. PICK longer \in Seq(S) : longer = Append(one, b)
  <2>1. Append(one, b) \in Seq(S)
    OBVIOUS
  <2> QED
    BY <2>1
<1>4. Len(longer) = 2 /\ longer[1] = a /\ longer[2] = b
  BY <1>1, <1>3
<1>5. longer = two
  BY <1>2, <1>4
<1> QED
  BY <1>1, <1>2, <1>3, <1>5

LEMMA GridIs ==
  ASSUME NEW C, NEW given \in Seq(RowsOver(C))
  PROVE  /\ GridOf(given, 0) = << >>
         /\ \A k \in 0..Len(given) :
              /\ GridOf(given, k) \in Seq(Seq(Seq(C))) /\ Len(GridOf(given, k)) = k
              /\ \A n \in 1..k : GridOf(given, k)[n] = Cells(given[n])
         /\ \A k \in 1..Len(given) : GridOf(given, k) = Append(GridOf(given, k - 1), Cells(given[k]))
         /\ \A k \in 1..Len(given) : Cells(given[k]) \in Seq(Seq(C)) /\ Len(Cells(given[k])) = 2
<1>1. PICK n \in Nat : n = Len(given)
  OBVIOUS
<1>2. \A k \in 1..n : Cells(given[k]) \in Seq(Seq(C)) /\ Len(Cells(given[k])) = 2
  <2> TAKE k \in 1..n
  <2>1. PICK a \in Seq(C), b \in Seq(C) : a = <<given[k].instr>> /\ b = given[k].ref
    <3>1. given[k] \in RowsOver(C)
      BY <1>1
    <3>2. given[k].instr \in C /\ given[k].ref \in Seq(C)
      BY <3>1 DEF RowsOver
    <3>3. <<given[k].instr>> \in Seq(C)
      BY <3>2
    <3> QED
      BY <3>2, <3>3
  <2>2. <<a, b>> \in Seq(Seq(C)) /\ Len(<<a, b>>) = 2
    OBVIOUS
  <2> QED
    BY <2>1, <2>2 DEF Cells
<1>3. PICK cells : cells = [k \in 1..n |-> Cells(given[k])]
  OBVIOUS
<1>4. \A k \in 1..n : cells[k] = Cells(given[k]) /\ cells[k] \in Seq(Seq(C))
  BY <1>2, <1>3
<1>5. cells \in Seq(Seq(Seq(C))) /\ Len(cells) = n
  <2>1. PICK S : S = Seq(Seq(C))
    OBVIOUS
  <2>2. cells \in [1..n -> S]
    BY <1>3, <1>4, <2>1
  <2>3. cells \in Seq(S) /\ Len(cells) = n
    BY <2>2
  <2> QED
    BY <2>1, <2>3
<1>6. \A k \in 0..n : GridOf(given, k) = FirstOf(cells, k)
  <2> TAKE k \in 0..n
  <2>1. \A j \in 1..k : Cells(given[j]) = cells[j]
    BY <1>4
  <2> QED
    BY <2>1, Zenon DEF GridOf, FirstOf
<1>7. \A k \in 0..n : Len(FirstOf(cells, k)) = k
  <2> TAKE k \in 0..n
  <2>1. PICK f : f = [j \in 1..k |-> cells[j]]
    OBVIOUS
  <2>2. PICK S : S = Seq(Seq(C))
    OBVIOUS
  <2>3. k \in Nat /\ f \in [1..k -> S]
    BY <1>4, <2>1, <2>2
  <2>4. Len(f) = k
    BY <2>3
  <2> QED
    BY <2>1, <2>4 DEF FirstOf
<1>8. \A k \in 0..n : \A j \in 1..k : GridOf(given, k)[j] = Cells(given[j])
  BY Zenon DEF GridOf
<1>9. /\ FirstOf(cells, 0) = << >>
      /\ \A k \in 0..n : FirstOf(cells, k) \in Seq(Seq(Seq(C)))
      /\ \A k \in 1..n : FirstOf(cells, k) = Append(FirstOf(cells, k - 1), cells[k])
  <2>1. PICK S : S = Seq(Seq(C))
    OBVIOUS
  <2>2. cells \in Seq(S)
    BY <1>5, <2>1
  <2>3. /\ FirstOf(cells, 0) = << >>
        /\ \A k \in 0..Len(cells) : FirstOf(cells, k) \in Seq(S)
        /\ \A k \in 1..Len(cells) : FirstOf(cells, k) = Append(FirstOf(cells, k - 1), cells[k])
    BY <2>2, FirstOfIs
  <2> QED
    BY <1>5, <2>1, <2>3, Zenon
<1>10. GridOf(given, 0) = << >>
  <2>1. 0 \in 0..n
    OBVIOUS
  <2> QED
    BY <1>6, <1>9, <2>1, Zenon
<1>11. \A k \in 1..n : GridOf(given, k) = Append(GridOf(given, k - 1), Cells(given[k]))
  <2> TAKE k \in 1..n
  <2>1. k \in 0..n /\ k - 1 \in 0..n
    OBVIOUS
  <2>2. GridOf(given, k) = FirstOf(cells, k) /\ GridOf(given, k - 1) = FirstOf(cells, k - 1)
    BY <1>6, <2>1
  <2> QED
    BY <1>4, <1>9, <2>2, Zenon
<1>12. \A k \in 0..n : GridOf(given, k) \in Seq(Seq(Seq(C))) /\ Len(GridOf(given, k)) = k
  BY <1>6, <1>7, <1>9, Zenon
<1> QED
  BY <1>1, <1>2, <1>8, <1>10, <1>11, <1>12, Zenon

(***************************************************************************)
(* joined is the last of the texts, each a line longer than the one before *)
(* it.                                                                     *)
(***************************************************************************)
TextsOf(given, text) ==
  /\ joined(given) = text[Len(given)]
  /\ Len(given) > 0 => text[1] = LineOf(given[1])
  /\ \A k \in 2..Len(given) : text[k] = Append(text[k - 1], NEWLINE) \o LineOf(given[k])

LEMMA RenderIs ==
  ASSUME NEW C, {QUOTE, COMMA, NEWLINE} \subseteq C, NEW given \in Seq(RowsOver(C))
  PROVE  \E text : TextsOf(given, text)
<1>1. PICK n \in Nat : n = Len(given)
  OBVIOUS
<1>2. PICK S : S = Seq(C)
  OBVIOUS
<1> DEFINE Line(k) == escape(<<given[k].instr>>) \o <<COMMA>> \o escape(given[k].ref)
           More(s, k) == IF k = 1 THEN Line(1) ELSE Append(s, NEWLINE) \o Line(k)
<1>3. \A k \in 1..n : Line(k) = LineOf(given[k]) /\ Line(k) \in Seq(C)
  <2> TAKE k \in 1..n
  <2>1. PICK row \in RowsOver(C) : row = given[k]
    BY <1>1
  <2>2. LineOf(row) \in Seq(C)
    <3>1. PICK g \in Seq(Seq(Seq(C))) : g = << >>
      BY NothingIsText
    <3> QED
      BY LineIsRead
  <2>3. Line(k) = LineOf(row)
    BY <2>1, Zenon DEF LineOf
  <2> QED
    BY <2>1, <2>2, <2>3
<1> HIDE DEF Line
<1>4. \A s \in S, k \in 1..n : More(s, k) \in S
  <2> TAKE s \in S, k \in 1..n
  <2>1. Line(k) \in Seq(C) /\ (k = 1 => Line(1) \in Seq(C))
    BY <1>3
  <2>2. PICK line \in Seq(C) : line = Line(k)
    BY <2>1
  <2>3. PICK longer \in Seq(C) : longer = Append(s, NEWLINE)
    <3>1. Append(s, NEWLINE) \in Seq(C)
      BY <1>2
    <3> QED
      BY <3>1
  <2>4. longer \o line \in Seq(C)
    OBVIOUS
  <2> QED
    BY <1>2, <2>1, <2>2, <2>3, <2>4
<1> HIDE DEF More
<1>5. PICK step : step = [at \in (1..n) \X S |-> More(at[2], at[1])]
  OBVIOUS
<1>6. step \in [(1..n) \X S -> S] /\ \A k \in 1..n, s \in S : step[<<k, s>>] = More(s, k)
  BY <1>4, <1>5
<1>7. PICK none \in S : none = << >>
  BY <1>2, NothingIsText
<1>8. PICK h \in [0..n -> S] : h[0] = none /\ \A k \in 1..n : h[k] = step[<<k, h[k - 1]>>]
  <2>1. Solvable(n, S, none, step)
    BY <1>6, RecursionExists
  <2> QED
    BY <2>1 DEF Solvable
<1>9. \A k \in 0..n : h[k] = IF k = 0 THEN << >> ELSE More(h[k - 1], k)
  <2> TAKE k \in 0..n
  <2>1. k # 0 => k \in 1..n /\ k - 1 \in 0..n
    OBVIOUS
  <2>2. k # 0 => h[k] = More(h[k - 1], k)
    BY <1>6, <1>8, <2>1
  <2> QED
    BY <1>7, <1>8, <2>2
<1>10. h = [k \in 0..n |-> IF k = 0 THEN << >> ELSE More(h[k - 1], k)]
  BY <1>8, <1>9
<1> USE DEF More
<1>11. \A o : [k \in 0..n |-> IF k = 0 THEN << >> ELSE More(o[k - 1], k)]
            = [k \in 0..n |-> IF k = 0 THEN << >>
                 ELSE IF k = 1 THEN Line(1) ELSE Append(o[k - 1], NEWLINE) \o Line(k)]
  BY Zenon
<1>12. PICK text : text = CHOOSE o : o = [k \in 0..n |-> IF k = 0 THEN << >>
                 ELSE IF k = 1 THEN Line(1) ELSE Append(o[k - 1], NEWLINE) \o Line(k)]
  OBVIOUS
<1>13. text = [k \in 0..n |-> IF k = 0 THEN << >>
                 ELSE IF k = 1 THEN Line(1) ELSE Append(text[k - 1], NEWLINE) \o Line(k)]
  <2>1. h = [k \in 0..n |-> IF k = 0 THEN << >>
                 ELSE IF k = 1 THEN Line(1) ELSE Append(h[k - 1], NEWLINE) \o Line(k)]
    BY <1>10, <1>11
  <2> QED
    BY <1>12, <2>1
<1>14. joined(given) = text[n]
  <2>1. text = CHOOSE o : o = [k \in 0..Len(given) |-> IF k = 0 THEN << >>
                 ELSE IF k = 1 THEN escape(<<given[1].instr>>) \o <<COMMA>> \o escape(given[1].ref)
                 ELSE Append(o[k - 1], NEWLINE) \o
                        (escape(<<given[k].instr>>) \o <<COMMA>> \o escape(given[k].ref))]
    BY <1>1, <1>12, Zenon DEF Line
  <2>2. joined(given) = text[Len(given)]
    BY <2>1 DEF joined
  <2> QED
    BY <1>1, <2>2
<1>15. /\ n > 0 => text[1] = Line(1)
       /\ \A k \in 2..n : text[k] = Append(text[k - 1], NEWLINE) \o Line(k)
  <2>1. \A k \in 0..n : text[k] = IF k = 0 THEN << >>
                 ELSE IF k = 1 THEN Line(1) ELSE Append(text[k - 1], NEWLINE) \o Line(k)
    BY <1>13, Zenon
  <2>2. (n > 0 => 1 \in 0..n) /\ 1 # 0 /\ \A k \in 2..n : k \in 0..n /\ k # 0 /\ k # 1
    OBVIOUS
  <2> QED
    BY <2>1, <2>2, Zenon
<1>16. /\ n > 0 => text[1] = LineOf(given[1])
       /\ \A k \in 2..n : text[k] = Append(text[k - 1], NEWLINE) \o LineOf(given[k])
  <2>1. (n > 0 => 1 \in 1..n) /\ \A k \in 2..n : k \in 1..n
    OBVIOUS
  <2> QED
    BY <1>3, <1>15, <2>1, Zenon
<1> QED
  BY <1>1, <1>14, <1>16 DEF TextsOf

(***************************************************************************)
(* Each text read: the rows before its last line in the grid, the last     *)
(* line's first cell in the row, its second the field.                     *)
(***************************************************************************)
LEMMA RenderedIsRead ==
  ASSUME NEW C, {QUOTE, COMMA, NEWLINE} \subseteq C,
         NEW given \in Seq(RowsOver(C)), NEW n \in Nat, n = Len(given), n > 0
  PROVE  /\ joined(given) \in Seq(C)
         /\ FieldIsRead(After(start, joined(given)), GridOf(given, n - 1), <<<<given[n].instr>>>>, given[n].ref)
<1>1. PICK text : TextsOf(given, text)
  BY RenderIs
<1>2. PICK none \in Seq(C), nocell \in Seq(Seq(C)), norow \in Seq(Seq(Seq(C))), no \in Quoting :
        none = << >> /\ nocell = << >> /\ norow = << >> /\ no = "no"
  BY NothingIsText DEF Quoting
<1>3. PICK st \in Parsers(C) : st = start
  <2>1. Parser(norow, nocell, none, no) \in Parsers(C)
    BY ParserIsTyped
  <2>2. start = Parser(norow, nocell, none, no)
    BY <1>2 DEF start, Parser
  <2> QED
    BY <2>1, <2>2
<1>4. st = Parser(<< >>, << >>, << >>, "no")
  BY <1>3 DEF start, Parser
<1> DEFINE Read(k) == /\ text[k] \in Seq(C)
                      /\ FieldIsRead(After(st, text[k]), GridOf(given, k - 1), <<<<given[k].instr>>>>, given[k].ref)
<1>5. Read(1)
  <2>1. PICK row \in RowsOver(C) : row = given[1]
    OBVIOUS
  <2>2. /\ LineOf(row) \in Seq(C)
        /\ FieldIsRead(After(Parser(norow, << >>, << >>, "no"), LineOf(row)), norow, <<<<row.instr>>>>, row.ref)
    BY LineIsRead
  <2>3. text[1] = LineOf(row)
    BY <1>1, <2>1 DEF TextsOf
  <2>4. GridOf(given, 1 - 1) = norow
    <3>1. GridOf(given, 0) = norow
      BY <1>2, GridIs
    <3> QED
      BY <3>1
  <2> QED
    BY <1>2, <1>4, <2>1, <2>2, <2>3, <2>4, Zenon
<1>6. ASSUME NEW k \in 2..n, Read(k - 1) PROVE Read(k)
  <2>1. PICK before \in RowsOver(C), row \in RowsOver(C) : before = given[k - 1] /\ row = given[k]
    OBVIOUS
  <2>2. PICK prior \in Seq(C) : prior = text[k - 1]
    BY <1>6
  <2>3. PICK g \in Seq(Seq(Seq(C))) : g = GridOf(given, (k - 1) - 1)
    <3>1. (k - 1) - 1 \in 0..Len(given)
      OBVIOUS
    <3> QED
      BY <3>1, GridIs
  <2>4. PICK cell \in Seq(Seq(C)), ref \in Seq(C) : cell = <<<<before.instr>>>> /\ ref = before.ref
    <3>1. before.instr \in C /\ before.ref \in Seq(C)
      BY DEF RowsOver
    <3>2. <<before.instr>> \in Seq(C)
      BY <3>1
    <3>3. <<<<before.instr>>>> \in Seq(Seq(C))
      BY <3>2
    <3> QED
      BY <3>1, <3>3
  <2>5. FieldIsRead(After(st, prior), g, cell, ref)
    BY <1>6, <2>1, <2>2, <2>3, <2>4
  <2>6. PICK newline \in C : newline = NEWLINE
    OBVIOUS
  <2>7. PICK broken \in Seq(C) : broken = Append(prior, newline) /\ After(st, broken) = take(After(st, prior), newline)
    <3>1. Append(prior, newline) \in Seq(C) /\ After(st, Append(prior, newline)) = take(After(st, prior), newline)
      BY AfterMore
    <3> QED
      BY <3>1
  <2>8. PICK q \in {"no", "closing"} : After(st, prior) = Parser(g, cell, ref, q)
    BY <2>5 DEF FieldIsRead
  <2>9. take(Parser(g, cell, ref, q), newline) = Parser(Append(g, Append(cell, ref)), << >>, << >>, "no")
    BY <2>6, EndsField
  <2>10. PICK grid \in Seq(Seq(Seq(C))) : grid = GridOf(given, k - 1) /\ grid = Append(g, Append(cell, ref))
    <3>1. k - 1 \in 1..Len(given) /\ k - 1 \in 0..Len(given)
      OBVIOUS
    <3>2. GridOf(given, k - 1) = Append(GridOf(given, (k - 1) - 1), Cells(given[k - 1]))
      BY <3>1, GridIs
    <3>3. Append(cell, ref) = Cells(before)
      <4>1. PICK a \in Seq(C) : a = <<before.instr>>
        <5>1. before.instr \in C
          BY DEF RowsOver
        <5>2. <<before.instr>> \in Seq(C)
          BY <5>1
        <5> QED
          BY <5>2
      <4>2. cell = <<a>> /\ Cells(before) = <<a, ref>>
        BY <2>4, <4>1 DEF Cells
      <4>3. Append(<<a>>, ref) = <<a, ref>>
        BY PairIs
      <4> QED
        BY <4>2, <4>3
    <3>4. GridOf(given, k - 1) \in Seq(Seq(Seq(C)))
      BY <3>1, GridIs
    <3> QED
      BY <2>1, <2>3, <3>2, <3>3, <3>4
  <2>11. /\ LineOf(row) \in Seq(C)
         /\ FieldIsRead(After(Parser(grid, << >>, << >>, "no"), LineOf(row)), grid, <<<<row.instr>>>>, row.ref)
    BY LineIsRead
  <2>12. PICK line \in Seq(C) : line = LineOf(row)
    BY <2>11
  <2>13. After(st, broken \o line) = After(After(st, broken), line) /\ broken \o line \in Seq(C)
    <3>1. After(st, broken \o line) = After(After(st, broken), line)
      BY AfterJoined
    <3>2. broken \o line \in Seq(C)
      OBVIOUS
    <3> QED
      BY <3>1, <3>2
  <2>14. text[k] = broken \o line
    <3>1. text[k] = Append(text[k - 1], NEWLINE) \o LineOf(given[k])
      BY <1>1 DEF TextsOf
    <3> QED
      BY <2>1, <2>2, <2>6, <2>7, <2>12, <3>1
  <2>15. After(st, broken) = Parser(grid, << >>, << >>, "no")
    BY <2>7, <2>8, <2>9, <2>10
  <2> QED
    BY <2>1, <2>10, <2>11, <2>12, <2>13, <2>14, <2>15
<1>7. Read(n)
  <2> HIDE DEF Read
  <2> DEFINE T == {k \in 0..n : k > 0 => Read(k)}
  <2>1. 0 \in T
    OBVIOUS
  <2>2. ASSUME NEW k \in 1..n, k - 1 \in T PROVE k \in T
    <3>1. CASE k = 1
      BY <1>5, <3>1
    <3>2. CASE k > 1
      BY <1>6, <2>2, <3>2
    <3> QED
      BY <3>1, <3>2
  <2> HIDE DEF T
  <2>3. \A k \in 0..n : k \in T
    BY <2>1, <2>2, IntervalInduction
  <2> QED
    BY <2>3 DEF T
<1> QED
  BY <1>1, <1>3, <1>7 DEF TextsOf

(***************************************************************************)
(* A text that begins with the heading begins with no byte-order mark.     *)
(***************************************************************************)
LEMMA LineIsText ==
  ASSUME NEW C, {QUOTE, COMMA, NEWLINE} \subseteq C, NEW row \in RowsOver(C)
  PROVE  LineOf(row) \in Seq(C) /\ Len(LineOf(row)) > 0
<1>1. PICK cell \in Seq(C), ref \in Seq(C) : cell = <<row.instr>> /\ ref = row.ref
  <2>1. row.instr \in C /\ row.ref \in Seq(C)
    BY DEF RowsOver
  <2>2. <<row.instr>> \in Seq(C)
    BY <2>1
  <2> QED
    BY <2>1, <2>2
<1>2. PICK g \in Seq(Seq(Seq(C))), r \in Seq(Seq(C)) : g = << >> /\ r = << >>
  BY NothingIsText
<1>3. PICK e \in Seq(C), f \in Seq(C) : e = escape(cell) /\ f = escape(ref)
  BY EscapedIsRead
<1>4. LineOf(row) = e \o <<COMMA>> \o f
  BY <1>1, <1>3 DEF LineOf
<1>5. e \o <<COMMA>> \o f \in Seq(C) /\ Len(e \o <<COMMA>> \o f) > 0
  OBVIOUS
<1> QED
  BY <1>4, <1>5

LEMMA JoinedStarts ==
  ASSUME NEW C, {QUOTE, COMMA, NEWLINE} \subseteq C, NEW given \in Seq(RowsOver(C)), Len(given) > 0
  PROVE  Len(joined(given)) > 0 /\ joined(given)[1] = LineOf(given[1])[1]
<1>1. PICK n \in Nat : n = Len(given) /\ n > 0
  OBVIOUS
<1>2. PICK text : TextsOf(given, text)
  BY RenderIs
<1> DEFINE Starts(s) == s \in Seq(C) /\ Len(s) > 0 /\ s[1] = LineOf(given[1])[1]
<1>3. \A k \in 1..n : LineOf(given[k]) \in Seq(C) /\ Len(LineOf(given[k])) > 0
  BY <1>1, LineIsText
<1>4. Starts(text[1])
  BY <1>1, <1>2, <1>3 DEF TextsOf
<1>5. ASSUME NEW k \in 2..n, Starts(text[k - 1]) PROVE Starts(text[k])
  <2>1. PICK before \in Seq(C), line \in Seq(C) : before = text[k - 1] /\ line = LineOf(given[k])
    BY <1>3, <1>5
  <2>2. text[k] = Append(before, NEWLINE) \o line
    BY <1>1, <1>2, <2>1 DEF TextsOf
  <2>3. PICK broken \in Seq(C) : broken = Append(before, NEWLINE) /\ Len(broken) > 0 /\ broken[1] = before[1]
    <3>1. /\ Append(before, NEWLINE) \in Seq(C)
          /\ Len(Append(before, NEWLINE)) > 0 /\ Append(before, NEWLINE)[1] = before[1]
      BY <1>5, <2>1
    <3> QED
      BY <3>1
  <2>4. broken \o line \in Seq(C) /\ Len(broken \o line) > 0 /\ (broken \o line)[1] = broken[1]
    BY <2>3
  <2> QED
    BY <1>5, <2>1, <2>2, <2>3, <2>4
<1>6. Starts(text[n])
  <2> HIDE DEF Starts
  <2> DEFINE T == {k \in 0..n : k > 0 => Starts(text[k])}
  <2>1. 0 \in T
    OBVIOUS
  <2>2. ASSUME NEW k \in 1..n, k - 1 \in T PROVE k \in T
    <3>1. CASE k = 1
      BY <1>4, <3>1
    <3>2. CASE k > 1
      BY <1>5, <2>2, <3>2
    <3> QED
      BY <3>1, <3>2
  <2> HIDE DEF T
  <2>3. \A k \in 0..n : k \in T
    BY <2>1, <2>2, IntervalInduction
  <2>4. n \in T
    BY <2>3
  <2> QED
    BY <1>1, <2>4 DEF T
<1> QED
  BY <1>1, <1>2, <1>6 DEF TextsOf

LEMMA HeadingStarts ==
  ASSUME NEW C, HEADER \in C
  PROVE  Heading \in RowsOver(C) /\ LineOf(Heading)[1] = HEADER /\ HEADER # BOM
<1>1. PICK h, comma : h \in C /\ h = HEADER /\ comma = COMMA
  OBVIOUS
<1>2. PICK cell : cell = <<h>> /\ cell \in Seq(C) /\ Len(cell) = 1 /\ cell[1] = h
  <2>1. <<h>> \in Seq(C) /\ Len(<<h>>) = 1 /\ <<h>>[1] = h
    BY <1>1
  <2> QED
    BY <2>1
<1>3. h \notin {QUOTE, COMMA, NEWLINE, CR, BOM}
  BY <1>1 DEF HEADER, QUOTE, COMMA, NEWLINE, CR, BOM
<1>4. ~Special(cell)
  BY <1>2, <1>3 DEF Special
<1>5. escape(cell) = cell
  BY <1>4 DEF escape
<1>6. Heading = [instr |-> h, ref |-> cell]
  BY <1>1, <1>2, Zenon DEF Heading
<1>7. LineOf(Heading) = cell \o <<comma>> \o cell
  <2>1. Heading.instr = h /\ Heading.ref = cell
    BY <1>6
  <2>2. escape(<<Heading.instr>>) = cell /\ escape(Heading.ref) = cell
    BY <1>2, <1>5, <2>1, Zenon
  <2> QED
    BY <1>1, <2>2, Zenon DEF LineOf
<1>8. (cell \o <<comma>> \o cell)[1] = h
  BY <1>2
<1>9. Heading \in RowsOver(C)
  BY <1>2, <1>6 DEF RowsOver
<1> QED
  BY <1>1, <1>3, <1>7, <1>8, <1>9

(***************************************************************************)
(* A grid of rows of two cells has no blank row to lose.                   *)
(***************************************************************************)
LEMMA NothingIsBlank ==
  ASSUME NEW C, NEW grid \in Seq(Seq(Seq(C))), \A k \in 1..Len(grid) : Len(grid[k]) = 2
  PROVE  withoutBlank(grid) = grid
<1>1. PICK n \in Nat : n = Len(grid)
  OBVIOUS
<1> DEFINE Keep(s, k) == IF Blank(grid[k]) THEN s ELSE Append(s, grid[k])
<1>2. \A k \in 1..n : ~Blank(grid[k])
  <2> TAKE k \in 1..n
  <2>1. PICK row : row = grid[k]
    OBVIOUS
  <2>2. Len(row) = 2
    BY <1>1, <2>1
  <2>3. ~(Len(row) = 1)
    BY <2>2
  <2> QED
    BY <2>1, <2>3, Zenon DEF Blank
<1>3. PICK S : S = Seq(Seq(C))
  OBVIOUS
<1>4. /\ FirstOf(grid, 0) = << >> /\ FirstOf(grid, n) = grid
      /\ \A k \in 1..n : FirstOf(grid, k) = Append(FirstOf(grid, k - 1), grid[k])
  BY <1>1, <1>3, FirstOfIs
<1>5. PICK h : h = [k \in 0..n |-> FirstOf(grid, k)]
  OBVIOUS
<1>6. \A k \in 0..n : h[k] = IF k = 0 THEN << >> ELSE Keep(h[k - 1], k)
  <2> TAKE k \in 0..n
  <2>1. k # 0 => k \in 1..n /\ k - 1 \in 0..n
    OBVIOUS
  <2>2. h[k] = FirstOf(grid, k) /\ (k # 0 => h[k - 1] = FirstOf(grid, k - 1))
    BY <1>5, <2>1, Zenon
  <2>3. k # 0 => FirstOf(grid, k) = Append(FirstOf(grid, k - 1), grid[k])
    BY <1>4, <2>1, Zenon
  <2>4. k # 0 => Keep(h[k - 1], k) = Append(h[k - 1], grid[k])
    BY <1>2, <2>1, Zenon
  <2> HIDE DEF Keep
  <2> QED
    BY <1>4, <2>2, <2>3, <2>4, Zenon
<1>7. h = [k \in 0..Len(grid) |-> IF k = 0 THEN << >>
              ELSE IF Blank(grid[k]) THEN h[k - 1] ELSE Append(h[k - 1], grid[k])]
  <2> HIDE DEF Keep
  <2>1. h = [k \in 0..n |-> IF k = 0 THEN << >> ELSE Keep(h[k - 1], k)]
    BY <1>5, <1>6, Zenon
  <2> QED
    BY <1>1, <2>1, Zenon DEF Keep
<1>8. PICK kept : kept = CHOOSE o : o = [k \in 0..Len(grid) |-> IF k = 0 THEN << >>
              ELSE IF Blank(grid[k]) THEN o[k - 1] ELSE Append(o[k - 1], grid[k])]
  OBVIOUS
<1>9. kept = [k \in 0..Len(grid) |-> IF k = 0 THEN << >>
              ELSE IF Blank(grid[k]) THEN kept[k - 1] ELSE Append(kept[k - 1], grid[k])]
  BY <1>7, <1>8
<1>10. withoutBlank(grid) = kept[Len(grid)]
  BY <1>8 DEF withoutBlank
<1>11. \A k \in 0..n : kept[k] = IF k = 0 THEN << >> ELSE Keep(kept[k - 1], k)
  BY <1>1, <1>9, Zenon
<1> DEFINE T == {k \in 0..n : kept[k] = FirstOf(grid, k)}
<1>12. 0 \in T
  BY <1>4, <1>11
<1>13. ASSUME NEW k \in 1..n, k - 1 \in T PROVE k \in T
  <2>1. k \in 0..n /\ k # 0 /\ kept[k - 1] = FirstOf(grid, k - 1)
    BY <1>13
  <2>2. kept[k] = Append(kept[k - 1], grid[k])
    BY <1>2, <1>11, <2>1, Zenon
  <2>3. kept[k] = FirstOf(grid, k)
    BY <1>4, <2>1, <2>2, Zenon
  <2> QED
    BY <2>3
<1>14. n \in T
  <2> HIDE DEF T
  <2>1. \A k \in 0..n : k \in T
    BY <1>12, <1>13, IntervalInduction
  <2> QED
    BY <2>1
<1> QED
  BY <1>1, <1>4, <1>10, <1>14

(***************************************************************************)
(* A cell of one character is trimmed to VALID only if it is VALID.        *)
(***************************************************************************)
LEMMA OneTrimmed ==
  ASSUME NEW C, NEW c \in C
  PROVE  (trim(<<c>>) = <<VALID>>) = (c = VALID)
<1>0. PICK s \in Seq(C) : s = <<c>>
  <2>1. <<c>> \in Seq(C)
    OBVIOUS
  <2> QED
    BY <2>1
<1>1. s = <<c>> /\ Len(s) = 1 /\ s[1] = c
  BY <1>0
<1>2. PICK kept : kept = {i \in 1..Len(s) : s[i] \notin Whitespace}
  OBVIOUS
<1>3. CASE c \in Whitespace
  <2>1. kept = {}
    BY <1>1, <1>2, <1>3
  <2>2. trim(s) = << >>
    BY <1>2, <2>1 DEF trim
  <2>3. << >> # <<VALID>>
    OBVIOUS
  <2>4. c # VALID
    BY <1>3 DEF Whitespace, SPACE, NEWLINE, CR, BOM, VALID
  <2> QED
    BY <1>1, <2>2, <2>3, <2>4
<1>4. CASE c \notin Whitespace
  <2>1. kept = {1}
    BY <1>1, <1>2, <1>4
  <2>2. /\ (CHOOSE i \in kept : \A j \in kept : i <= j) = 1
        /\ (CHOOSE i \in kept : \A j \in kept : j <= i) = 1
    BY <2>1
  <2>3. trim(s) = SubSeq(s, 1, 1)
    BY <1>2, <2>1, <2>2 DEF trim
  <2>4. SubSeq(s, 1, 1) = s
    <3>1. PICK u \in Seq(C) : u = SubSeq(s, 1, 1)
      <4>1. SubSeq(s, 1, 1) \in Seq(C)
        BY <1>1
      <4> QED
        BY <4>1
    <3>2. Len(u) = 1 /\ u[1] = s[1]
      BY <1>1, <3>1
    <3>3. u = s
      BY <1>1, <3>2
    <3> QED
      BY <3>1, <3>3
  <2>5. (<<c>> = <<VALID>>) = (c = VALID)
    OBVIOUS
  <2> QED
    BY <1>1, <2>3, <2>4, <2>5
<1> QED
  BY <1>3, <1>4

(***************************************************************************)
(* A sheet that begins with the heading parses to the grid it was.         *)
(***************************************************************************)
LEMMA GridSurvives ==
  ASSUME NEW C, {QUOTE, COMMA, NEWLINE, HEADER} \subseteq C,
         NEW given \in Seq(RowsOver(C)), Len(given) > 0, given[1] = Heading
  PROVE  parseCsvGrid(joined(given)) = GridOf(given, Len(given))
<1>1. PICK n \in Nat : n = Len(given)
  OBVIOUS
<1>2. PICK text \in Seq(C) : text = joined(given)
  BY <1>1, RenderedIsRead
<1>3. PICK last : last = reading(start, text)[Len(text)]
  OBVIOUS
<1>4. FieldIsRead(last, GridOf(given, n - 1), <<<<given[n].instr>>>>, given[n].ref)
  BY <1>1, <1>2, <1>3, RenderedIsRead DEF After
<1>5. PICK a \in Seq(C), ref \in Seq(C) : a = <<given[n].instr>> /\ ref = given[n].ref
  <2>1. given[n] \in RowsOver(C)
    BY <1>1
  <2>2. given[n].instr \in C /\ given[n].ref \in Seq(C)
    BY <2>1 DEF RowsOver
  <2>3. <<given[n].instr>> \in Seq(C)
    BY <2>2
  <2> QED
    BY <2>2, <2>3
<1>6. PICK g : g = GridOf(given, n - 1)
  OBVIOUS
<1>7. PICK q \in {"no", "closing"} : last = Parser(g, <<a>>, ref, q)
  BY <1>4, <1>5, <1>6 DEF FieldIsRead
<1>8. last.row # << >>
  <2>1. last.row = <<a>>
    BY <1>7 DEF Parser
  <2>2. <<a>> # << >>
    OBVIOUS
  <2> QED
    BY <2>1, <2>2
<1>9. endRow(last).grid = Append(g, Append(<<a>>, ref))
  <2>1. endRow(last) = Parser(Append(g, Append(<<a>>, ref)), << >>, << >>, "no")
    BY <1>7, EndFieldIs
  <2> QED
    BY <2>1 DEF Parser
<1>10. Append(<<a>>, ref) = Cells(given[n])
  BY <1>5, PairIs DEF Cells
<1>11. PICK grid \in Seq(Seq(Seq(C))) : grid = GridOf(given, n) /\ grid = endRow(last).grid
  <2>1. n \in 1..Len(given) /\ n \in 0..Len(given)
    BY <1>1
  <2>2. GridOf(given, n) = Append(GridOf(given, n - 1), Cells(given[n])) /\ GridOf(given, n) \in Seq(Seq(Seq(C)))
    BY <2>1, GridIs
  <2> QED
    BY <1>6, <1>9, <1>10, <2>2
<1>12. parseCsvGrid(text) = withoutBlank(grid)
  <2>1. text[1] # BOM
    BY <1>2, JoinedStarts, HeadingStarts
  <2>2. withoutMark(text) = text
    BY <2>1 DEF withoutMark
  <2> QED
    BY <1>3, <1>8, <1>11, <2>2, Zenon DEF parseCsvGrid
<1>13. \A k \in 1..Len(grid) : Len(grid[k]) = 2
  <2>1. n \in 0..Len(given)
    BY <1>1
  <2>2. Len(GridOf(given, n)) = n /\ \A k \in 1..n : GridOf(given, n)[k] = Cells(given[k])
    BY <2>1, GridIs
  <2>3. \A k \in 1..n : Len(Cells(given[k])) = 2
    BY <1>1, GridIs
  <2> QED
    BY <1>11, <2>2, <2>3, Zenon
<1>14. withoutBlank(grid) = grid
  BY <1>13, NothingIsBlank
<1> QED
  BY <1>1, <1>2, <1>11, <1>12, <1>14

(***************************************************************************)
(* The rows of a rendered file, parsed, are the rows as they were given.   *)
(***************************************************************************)
LEMMA FileSurvives ==
  ASSUME NEW C, {QUOTE, COMMA, NEWLINE, HEADER} \subseteq C, NEW given \in Seq(RowsOver(C))
  PROVE  parseBatchCsv(render(given)) =
           [l \in 1..Len(given) |-> [ok |-> given[l].instr = VALID, ref |-> trim(given[l].ref)]]
<1>1. PICK n \in Nat : n = Len(given)
  OBVIOUS
<1>2. PICK sheet \in Seq(RowsOver(C)) :
        /\ sheet = <<Heading>> \o given /\ Len(sheet) = n + 1 /\ sheet[1] = Heading
        /\ \A l \in 1..n : sheet[l + 1] = given[l]
  <2>1. PICK heading \in RowsOver(C) : heading = Heading
    BY HeadingStarts
  <2>2. /\ <<heading>> \o given \in Seq(RowsOver(C)) /\ Len(<<heading>> \o given) = n + 1
        /\ (<<heading>> \o given)[1] = heading
        /\ \A l \in 1..n : (<<heading>> \o given)[l + 1] = given[l]
    BY <1>1
  <2> QED
    BY <2>1, <2>2
<1>3. PICK grid : grid = parseCsvGrid(render(given))
  OBVIOUS
<1>4. Len(grid) = n + 1 /\ \A l \in 1..(n + 1) : grid[l] = Cells(sheet[l])
  <2>1. grid = GridOf(sheet, n + 1)
    <3>1. Len(sheet) > 0 /\ {QUOTE, COMMA, NEWLINE, HEADER} \subseteq C
      BY <1>2
    <3>2. parseCsvGrid(joined(sheet)) = GridOf(sheet, Len(sheet))
      BY <1>2, <3>1, GridSurvives
    <3> QED
      BY <1>2, <1>3, <3>2 DEF render
  <2>2. n + 1 \in 0..Len(sheet)
    BY <1>2
  <2> QED
    BY <2>1, <2>2, GridIs
<1>5. \A l \in 1..n : grid[l + 1] = Cells(given[l])
  <2> TAKE l \in 1..n
  <2>1. l + 1 \in 1..(n + 1)
    OBVIOUS
  <2> QED
    BY <1>2, <1>4, <2>1
<1>6. \A l \in 1..n : parseRow(grid[l + 1]) = [ok |-> given[l].instr = VALID, ref |-> trim(given[l].ref)]
  <2> TAKE l \in 1..n
  <2>1. PICK a \in Seq(C), ref \in Seq(C), c \in C : c = given[l].instr /\ a = <<c>> /\ ref = given[l].ref
    <3>1. given[l] \in RowsOver(C)
      BY <1>1
    <3>2. PICK c \in C : c = given[l].instr
      BY <3>1 DEF RowsOver
    <3>3. <<c>> \in Seq(C) /\ given[l].ref \in Seq(C)
      BY <3>1 DEF RowsOver
    <3> QED
      BY <3>2, <3>3
  <2>2. PICK cells : cells = <<a, ref>>
    OBVIOUS
  <2>3. grid[l + 1] = cells
    BY <1>5, <2>1, <2>2 DEF Cells
  <2>4. Len(cells) = 2 /\ cells[1] = a /\ cells[2] = ref
    BY <2>2
  <2>5. 1 <= Len(cells) /\ 2 <= Len(cells)
    BY <2>4
  <2>6. parseRow(cells) = [ok |-> trim(a) = <<VALID>>, ref |-> trim(ref)]
    BY <2>4, <2>5, Zenon DEF parseRow
  <2>7. (trim(a) = <<VALID>>) = (c = VALID)
    BY <2>1, OneTrimmed
  <2> QED
    BY <2>1, <2>3, <2>6, <2>7, Zenon
<1>7. parseBatchCsv(render(given)) = [l \in 1..(Len(grid) - 1) |-> parseRow(grid[l + 1])]
  BY <1>3, Zenon DEF parseBatchCsv
<1>8. Len(grid) - 1 = n
  BY <1>4
<1> QED
  BY <1>1, <1>6, <1>7, <1>8, Zenon

-----------------------------------------------------------------------------
(* Batches *)

(***************************************************************************)
(* The rows of the tables, by their columns.                               *)
(***************************************************************************)
BatchesShape ==
  /\ DOMAIN requests = Imports
  /\ \A i \in Imports : requests[i] =
       [file |-> requests[i].file, rows |-> requests[i].rows, key |-> requests[i].key]
  /\ DOMAIN imports = Imports
  /\ DOMAIN batches = Imports
  /\ \A i \in Imports : batches[i] =
       [status |-> batches[i].status, file |-> batches[i].file, counts |-> batches[i].counts]
  /\ DOMAIN calls = Actors
  /\ \A a \in Actors : calls[a] =
       [op |-> calls[a].op, phase |-> calls[a].phase, batch |-> calls[a].batch,
        line |-> calls[a].line, seen |-> calls[a].seen, read |-> calls[a].read,
        done |-> calls[a].done]
  /\ claims \subseteq Keys

(***************************************************************************)
(* The statuses a settlement of a batch can have, and the outcomes a line. *)
(***************************************************************************)
CustomerStatuses == {"DRAFT", "READY", "ACTION_REQUIRED", "CANCELLED", "SETTLING", "SETTLED", "FAILED"}

SettlementStatuses == {"NONE"} \cup CustomerStatuses \cup Exceptions

Outcomes == {"none", "INVALID", "ACCEPTED", "ACTION_REQUIRED"} \cup Terminal

RowsShape ==
  /\ rows \in [Imports -> [Lines -> Outcomes]]
  /\ settlements \in [Imports -> [Lines -> SettlementStatuses]]

(***************************************************************************)
(* A line and its settlement: the one is over only if the other is.        *)
(***************************************************************************)
RowIsSound(b, l) ==
  /\ rows[b][l] \in {"none", "INVALID"} <=> settlements[b][l] = "NONE"
  /\ rows[b][l] \in Terminal => settlements[b][l] \in Terminal

RowsAreSound == \A b \in Imports, l \in Lines : RowIsSound(b, l)

LineAnswered(i, l) ==
  /\ rows[i][l] # "none"
  /\ requests[i].file[l].instr # VALID => settlements[i][l] = "NONE"

AllAnswered(i) == \A l \in 1..Len(requests[i].file) : LineAnswered(i, l)

(***************************************************************************)
(* What an import of each phase has done: the lines before its own are     *)
(* answered, the others untouched.                                         *)
(***************************************************************************)
ImportIsSound(i) ==
  /\ imports[i].phase \in
       {"idle", "lookup", "container", "rows", "preflight", "validated", "refresh", "refreshing",
        "created", "replayed", "refused", "dead"}
  /\ imports[i].phase # "idle" =>
       /\ requests[i].file \in Files
       /\ requests[i].key \in Keys \cup {NONE}
       /\ requests[i].rows = asGiven(requests[i].file)
  /\ imports[i].phase \in {"rows", "preflight"} => imports[i].line \in 1..Len(requests[i].file)
  /\ imports[i].phase = "rows" =>
       \A l \in Lines : IF l < imports[i].line THEN LineAnswered(i, l) ELSE rows[i][l] = "none"
  /\ imports[i].phase \in {"preflight", "validated", "refresh", "refreshing", "created"} =>
       AllAnswered(i)

(***************************************************************************)
(* A batch is its import's, holds its key, and left VALIDATING only with   *)
(* every line answered.                                                    *)
(***************************************************************************)
BatchIsSound(i) ==
  /\ batches[i].status \in
       {"none", "VALIDATING", "READY", "EXECUTING", "COMPLETED", "PARTIALLY_COMPLETED"}
  /\ batches[i].status = "none" =>
       /\ imports[i].phase \in {"idle", "lookup", "container", "replayed", "refused", "dead"}
       /\ \A l \in Lines : rows[i][l] = "none"
  /\ batches[i].status # "none" =>
       /\ imports[i].phase \notin {"idle", "lookup", "container"}
       /\ batches[i].file = requests[i].file
       /\ requests[i].key \in claims \cup {NONE}
  /\ batches[i].status \notin {"none", "VALIDATING"} => AllAnswered(i)

(***************************************************************************)
(* What a refresh read of a line is old and yet true: an answered line     *)
(* stays answered, one without a settlement stays without, and one that is *)
(* over stays over.                                                        *)
(***************************************************************************)
ReadIsSound(b, l, seen) ==
  /\ seen \in Outcomes
  /\ seen # "none" => rows[b][l] # "none"
  /\ seen # "none" => (seen = "INVALID" <=> settlements[b][l] = "NONE")
  /\ seen \in Terminal => settlements[b][l] \in Terminal

LineIsOver(b, l, trigger) ==
  \/ settlements[b][l] \in Terminal
  \/ rows[b][l] # "none" /\ settlements[b][l] = "NONE" /\ trigger = "some_rows_unresolved"

CallIsSound(call) ==
  /\ call.phase # "idle" => call.batch \in Imports /\ batches[call.batch].status # "none"
  /\ call.phase = "refreshing" => \A l \in Lines : ReadIsSound(call.batch, l, call.read[l])
  /\ call.phase = "decide" /\ call.seen # "VALIDATING" => AllAnswered(call.batch)
  /\ call.phase = "rows" => call.op = "authorize"
  /\ call.phase \in {"decide", "finish"} => call.op = "close"
  /\ call.op = "close" /\ call.phase \in {"begin", "finish"} =>
       /\ call.read[1] \in {"all_rows_resolved", "some_rows_unresolved"}
       /\ call.seen # "VALIDATING" =>
            \A l \in 1..Len(requests[call.batch].file) : LineIsOver(call.batch, l, call.read[1])

CallsAreSound ==
  /\ \A a \in Actors : CallIsSound(calls[a])
  /\ \A c \in Callers : calls[c].phase # "idle" => calls[c].op \in {"authorize", "close"}
  /\ \A i \in Imports : imports[i].phase = "refreshing" =>
       calls[i].phase = "refreshing" /\ calls[i].batch = i

BatchesIInv ==
  /\ BatchesShape
  /\ RowsShape
  /\ RowsAreSound
  /\ \A i \in Imports : ImportIsSound(i) /\ BatchIsSound(i)
  /\ CallsAreSound
  /\ ImportedOnce

(***************************************************************************)
(* The round trip of a file through the importer.                          *)
(***************************************************************************)
LEMMA FilesSurvive ==
  ASSUME NEW file \in Seq(FileRows), Len(file) > 0
  PROVE  parseBatchCsv(render(file)) = asGiven(file)
<1>1. PICK C : C = Characters \cup {QUOTE, COMMA, NEWLINE, HEADER}
  OBVIOUS
<1>2. {QUOTE, COMMA, NEWLINE, HEADER} \subseteq C
  BY <1>1
<1>3. FileRows \subseteq RowsOver(C)
  <2>1. ASSUME NEW row \in FileRows PROVE row \in RowsOver(C)
    <3>1. PICK instr \in Characters, ref \in Seq(Characters) : row = [instr |-> instr, ref |-> ref]
      BY DEF FileRows
    <3>2. instr \in C /\ ref \in Seq(C)
      BY <1>1
    <3> QED
      BY <3>1, <3>2 DEF RowsOver
  <2> QED
    BY <2>1
<1>4. file \in Seq(RowsOver(C))
  BY <1>3
<1>5. parseBatchCsv(render(file)) =
        [l \in 1..Len(file) |-> [ok |-> file[l].instr = VALID, ref |-> trim(file[l].ref)]]
  BY <1>2, <1>4, FileSurvives
<1> QED
  BY <1>5, Zenon DEF asGiven

(***************************************************************************)
(* What is imported is rows, and stays rows with other free text.          *)
(***************************************************************************)
LEMMA FilesAreRows ==
  ASSUME NEW file \in Files
  PROVE  file \in Seq(FileRows) /\ Len(file) \in Nat /\ Len(file) > 0
<1>1. Files \subseteq Seq(FileRows) /\ Len(file) \in 1..MaxRows /\ MaxRows \in Nat
  BY BatchesAssumption
<1> QED
  BY <1>1

LEMMA TextsAreRows ==
  ASSUME NEW file \in Files, NEW ref \in Seq(Characters)
  PROVE  withText(file, ref) \in Seq(FileRows) /\ Len(withText(file, ref)) > 0
<1>1. PICK n \in Nat : n = Len(file) /\ n > 0 /\ file \in Seq(FileRows)
  BY FilesAreRows
<1>2. \A l \in 1..n : [file[l] EXCEPT !.ref = ref] \in FileRows
  <2> TAKE l \in 1..n
  <2>1. file[l] \in FileRows
    BY <1>1
  <2> QED
    BY <2>1 DEF FileRows
<1>3. PICK first \in FileRows : first = [file[1] EXCEPT !.ref = ref]
  <2>1. 1 \in 1..n
    BY <1>1
  <2> QED
    BY <1>2, <2>1
<1>4. PICK f \in Seq(FileRows) : f = [file EXCEPT ![1] = first] /\ Len(f) = n
  <2>1. [file EXCEPT ![1] = first] \in Seq(FileRows) /\ Len([file EXCEPT ![1] = first]) = n
    BY <1>1
  <2> QED
    BY <2>1
<1>5. PICK last \in FileRows : last = [f[n] EXCEPT !.ref = ref]
  <2>1. f[n] \in FileRows
    BY <1>1, <1>4
  <2>2. [f[n] EXCEPT !.ref = ref] \in FileRows
    BY <2>1 DEF FileRows
  <2> QED
    BY <2>2
<1>6. PICK g \in Seq(FileRows) : g = [f EXCEPT ![n] = last] /\ Len(g) = n
  <2>1. [f EXCEPT ![n] = last] \in Seq(FileRows) /\ Len([f EXCEPT ![n] = last]) = n
    BY <1>1, <1>4
  <2> QED
    BY <2>1
<1>7. withText(file, ref) = g
  BY <1>1, <1>3, <1>4, <1>5, <1>6, Zenon DEF withText
<1> QED
  BY <1>1, <1>6, <1>7

-----------------------------------------------------------------------------
(* What no step undoes *)

(***************************************************************************)
(* Facts about two states: a batch stays, an answered line stays answered, *)
(* with a settlement or without, and what is over stays over.              *)
(***************************************************************************)
RowKept(b, l) ==
  /\ rows[b][l] # "none" =>
       /\ rows'[b][l] # "none"
       /\ settlements'[b][l] = "NONE" <=> settlements[b][l] = "NONE"
  /\ rows[b][l] = "none" /\ (imports'[b] = imports[b] \/ imports[b].phase # "rows") =>
       rows'[b][l] = "none"
  /\ settlements[b][l] \in Terminal => settlements'[b][l] \in Terminal

RowsKept ==
  /\ RowsShape'
  /\ RowsAreSound'
  /\ \A b \in Imports, l \in Lines : RowKept(b, l)

BatchesKept ==
  \A b \in Imports : batches[b].status # "none" =>
    /\ batches'[b].status # "none"
    /\ requests'[b] = requests[b]

(***************************************************************************)
(* A file's lines have rows.                                               *)
(***************************************************************************)
LEMMA LinesOfFile ==
  ASSUME NEW f \in Files
  PROVE  1 \in 1..Len(f) /\ 1..Len(f) \subseteq Lines /\ Len(f) \in Nat \ {0}
BY BatchesAssumption DEF Lines

(***************************************************************************)
(* The settlement statuses the moves lead through.                         *)
(***************************************************************************)
LEMMA MoveFacts ==
  \A move \in SettlementMoves :
    /\ move[1] # "NONE" /\ move[1] \notin Terminal
    /\ move[2] \in CustomerStatuses \cup Exceptions
    /\ move[2] # "NONE"
<1>1. \A x \in Exceptions : x \notin Terminal /\ x # "NONE"
  BY ExceptionsAssumption DEF EXCEPTION_CODES, ActionableCodes, Terminal
<1> SUFFICES ASSUME NEW move \in SettlementMoves
             PROVE  /\ move[1] # "NONE" /\ move[1] \notin Terminal
                    /\ move[2] \in CustomerStatuses \cup Exceptions
                    /\ move[2] # "NONE"
  OBVIOUS
<1>2. CASE move \in {"SETTLING"} \X Exceptions
  BY <1>1, <1>2 DEF Terminal
<1>3. CASE move \in Exceptions \X {"SETTLING", "FAILED", "CANCELLED"}
  BY <1>1, <1>3 DEF CustomerStatuses
<1>4. CASE move \notin ({"SETTLING"} \X Exceptions) \cup (Exceptions \X {"SETTLING", "FAILED", "CANCELLED"})
  BY <1>4 DEF SettlementMoves, CustomerStatuses, Terminal
<1> QED
  BY <1>2, <1>3, <1>4

(***************************************************************************)
(* What a refresh reads of a line is true of it (rowOutcomeFromCustomer-   *)
(* Status).                                                                *)
(***************************************************************************)
LEMMA ResolvedIsSound ==
  ASSUME RowsShape, NEW b \in Imports, NEW l \in Lines, RowIsSound(b, l)
  PROVE  ReadIsSound(b, l, resolved(b, l))
<1>1. CASE rows[b][l] \in {"none", "INVALID"}
  BY <1>1 DEF RowIsSound, ReadIsSound, resolved, Outcomes, Terminal
<1>2. CASE rows[b][l] \notin {"none", "INVALID"}
  <2> DEFINE status == settlements[b][l]
  <2>1. /\ resolved(b, l) = rowOutcomeFromCustomerStatus(status)
        /\ rows[b][l] # "none"
        /\ status # "NONE"
        /\ status \in CustomerStatuses \cup Exceptions
    BY <1>2 DEF resolved, RowIsSound, RowsShape, SettlementStatuses
  <2> HIDE DEF status
  <2>2. CASE status = "FAILED"
    <3>1. rowOutcomeFromCustomerStatus(status) = "FAILED"
      BY <2>2 DEF rowOutcomeFromCustomerStatus
    <3> QED
      BY <2>1, <2>2, <3>1 DEF ReadIsSound, Outcomes, Terminal, status
  <2>3. CASE status # "FAILED"
    <3> DEFINE seen == projectCustomerStatus(status)
    <3>1. rowOutcomeFromCustomerStatus(status) =
            IF seen \in {"SETTLED", "ACTION_REQUIRED", "CANCELLED"} THEN seen ELSE "ACCEPTED"
      BY <2>1, <2>3 DEF rowOutcomeFromCustomerStatus
    <3>2. seen \in {"SETTLED", "CANCELLED"} => status = seen
      <4>1. CASE status = "DRAFT"
        BY <4>1, BatchesAssumption DEF projectCustomerStatus
      <4>2. CASE status \in Exceptions
        <5>1. status \in EXCEPTION_CODES /\ status # "DRAFT"
          BY <4>2, ExceptionsAssumption DEF EXCEPTION_CODES, ActionableCodes
        <5>2. seen \in {"ACTION_REQUIRED", "SETTLING"}
          BY <5>1, <2>3 DEF projectCustomerStatus, EXCEPTION_CODES, ActionableCodes
        <5> QED
          BY <5>2
      <4>3. CASE status \in CustomerStatuses \ {"DRAFT", "FAILED"}
        BY <4>3 DEF CustomerStatuses, projectCustomerStatus, EXCEPTION_CODES, ActionableCodes
      <4> QED
        BY <2>1, <2>3, <4>1, <4>2, <4>3
    <3> HIDE DEF seen
    <3> QED
      BY <2>1, <3>1, <3>2 DEF ReadIsSound, Outcomes, Terminal, status
  <2> QED
    BY <2>2, <2>3
<1> QED
  BY <1>1, <1>2

-----------------------------------------------------------------------------
(* Steps that write a row or move a settlement *)

(***************************************************************************)
(* Importing a row answers a line that no one answered.                    *)
(***************************************************************************)
LEMMA ImportRowKeepsRows ==
  ASSUME BatchesIInv, NEW i \in Imports, NEW creates \in BOOLEAN, importRow(i, creates)
  PROVE  RowsKept
<1> DEFINE l == imports[i].line
<1>1. /\ l \in Lines /\ rows[i][l] = "none" /\ settlements[i][l] = "NONE"
  <2>1. imports[i].phase = "rows" /\ ImportIsSound(i)
    BY DEF importRow, At, BatchesIInv
  <2>2. requests[i].file \in Files /\ l \in 1..Len(requests[i].file)
    BY <2>1 DEF ImportIsSound
  <2>3. l \in Lines /\ ~(l < l)
    BY <2>2, LinesOfFile DEF Lines
  <2> QED
    BY <2>1, <2>3 DEF ImportIsSound, BatchesIInv, RowsAreSound, RowIsSound
<1>0. imports'[i] # imports[i] /\ imports[i].phase = "rows"
  <2>1. /\ imports[i].phase = "rows" /\ i \in DOMAIN imports
        /\ \/ imports' = [imports EXCEPT ![i] = [phase |-> "preflight", line |-> 1]]
           \/ imports' = [imports EXCEPT ![i] = [phase |-> "rows", line |-> l + 1]]
    BY DEF importRow, At, goTo, BatchesIInv, BatchesShape
  <2>2. l \in Nat
    BY <1>1 DEF Lines
  <2>3. imports'[i].phase = "preflight" \/ imports'[i].line = l + 1
    BY <2>1
  <2> QED
    BY <2>1, <2>2, <2>3
<1>2. \/ /\ rows' = [rows EXCEPT ![i][l] = "ACCEPTED"]
         /\ settlements' = [settlements EXCEPT ![i][l] = "DRAFT"]
      \/ /\ rows' = [rows EXCEPT ![i][l] = "INVALID"]
         /\ settlements' = settlements
  BY DEF importRow, invalidRow
<1> HIDE DEF l
<1>3. RowsShape /\ RowsAreSound
  BY DEF BatchesIInv
<1>4. /\ RowsShape'
      /\ rows'[i][l] \in {"ACCEPTED", "INVALID"}
      /\ rows'[i][l] = "ACCEPTED" => settlements'[i][l] = "DRAFT"
      /\ rows'[i][l] = "INVALID" => settlements'[i][l] = "NONE"
      /\ \A b \in Imports, m \in Lines : b # i \/ m # l =>
           rows'[b][m] = rows[b][m] /\ settlements'[b][m] = settlements[b][m]
  <2>1. CASE /\ rows' = [rows EXCEPT ![i][l] = "ACCEPTED"]
             /\ settlements' = [settlements EXCEPT ![i][l] = "DRAFT"]
    <3>1. "ACCEPTED" \in Outcomes /\ "DRAFT" \in SettlementStatuses
      BY DEF Outcomes, SettlementStatuses, CustomerStatuses
    <3> QED
      BY <1>1, <1>3, <2>1, <3>1 DEF RowsShape
  <2>2. CASE /\ rows' = [rows EXCEPT ![i][l] = "INVALID"]
             /\ settlements' = settlements
    <3>1. "INVALID" \in Outcomes
      BY DEF Outcomes
    <3> QED
      BY <1>1, <1>3, <2>2, <3>1 DEF RowsShape
  <2> QED
    BY <1>2, <2>1, <2>2
<1>5. ASSUME NEW b \in Imports, NEW m \in Lines PROVE RowIsSound(b, m)' /\ RowKept(b, m)
  <2>1. CASE b = i /\ m = l
    BY <1>0, <1>1, <1>4, <2>1 DEF RowIsSound, RowKept, Outcomes, Terminal, CustomerStatuses
  <2>2. CASE b # i \/ m # l
    BY <1>3, <1>4, <2>2 DEF RowsAreSound, RowIsSound, RowKept
  <2> QED
    BY <2>1, <2>2
<1> QED
  BY <1>4, <1>5 DEF RowsKept, RowsAreSound

(***************************************************************************)
(* A settlement that moves was created, was not over, and stays created.   *)
(***************************************************************************)
LEMMA MoveKeepsRows ==
  ASSUME RowsShape, RowsAreSound, NEW b \in Imports, NEW l \in Lines, NEW s,
         UNCHANGED rows, settlements' = [settlements EXCEPT ![b][l] = s],
         s \in SettlementStatuses, s # "NONE",
         settlements[b][l] # "NONE", settlements[b][l] \in Terminal => s \in Terminal
  PROVE  RowsKept
<1>1. /\ RowsShape'
      /\ settlements'[b][l] = s
      /\ \A c \in Imports, m \in Lines : c # b \/ m # l => settlements'[c][m] = settlements[c][m]
  BY DEF RowsShape
<1>2. ASSUME NEW c \in Imports, NEW m \in Lines PROVE RowIsSound(c, m)' /\ RowKept(c, m)
  <2>1. RowIsSound(c, m)
    BY DEF RowsAreSound
  <2>2. CASE c = b /\ m = l
    BY <1>1, <2>1, <2>2 DEF RowIsSound, RowKept
  <2>3. CASE c # b \/ m # l
    BY <1>1, <2>1, <2>3 DEF RowIsSound, RowKept
  <2> QED
    BY <2>2, <2>3
<1> QED
  BY <1>1, <1>2 DEF RowsKept, RowsAreSound

(***************************************************************************)
(* A step that writes neither rows nor settlements keeps every line.       *)
(***************************************************************************)
LEMMA SameRowsAreKept ==
  ASSUME RowsShape, RowsAreSound, UNCHANGED <<rows, settlements>>
  PROVE  RowsKept
BY DEF RowsShape, RowsAreSound, RowIsSound, RowsKept, RowKept

(***************************************************************************)
(* A refresh writes the status it read, and what it read of a line is      *)
(* still possible for it, however late it writes.                          *)
(***************************************************************************)
LEMMA RefreshKeepsRows ==
  ASSUME RowsShape, RowsAreSound, NEW a, CallIsSound(calls[a]), calls[a].phase = "refreshing",
         refreshWrite(a), UNCHANGED settlements
  PROVE  RowsKept
<1> DEFINE b == calls[a].batch
           read == calls[a].read
<1>1. b \in Imports /\ \A l \in Lines : ReadIsSound(b, l, read[l])
  BY DEF CallIsSound
<1>2. rows' = [rows EXCEPT ![b] = [l \in Lines |-> IF read[l] = "none" THEN rows[b][l] ELSE read[l]]]
  BY DEF refreshWrite
<1> HIDE DEF b, read
<1>3. /\ RowsShape'
      /\ \A l \in Lines : rows'[b][l] = IF read[l] = "none" THEN rows[b][l] ELSE read[l]
      /\ \A c \in Imports \ {b} : rows'[c] = rows[c]
  <2> DEFINE written == [l \in Lines |-> IF read[l] = "none" THEN rows[b][l] ELSE read[l]]
  <2>1. written \in [Lines -> Outcomes]
    BY <1>1 DEF RowsShape, ReadIsSound
  <2>2. \A l \in Lines : written[l] = IF read[l] = "none" THEN rows[b][l] ELSE read[l]
    OBVIOUS
  <2>3. rows' = [rows EXCEPT ![b] = written]
    BY <1>2
  <2> HIDE DEF written
  <2> QED
    BY <1>1, <2>1, <2>2, <2>3 DEF RowsShape
<1>4. ASSUME NEW c \in Imports, NEW l \in Lines PROVE RowIsSound(c, l)' /\ RowKept(c, l)
  <2>1. RowIsSound(c, l)
    BY DEF RowsAreSound
  <2>2. CASE c = b /\ read[l] # "none"
    BY <1>1, <1>3, <2>1, <2>2 DEF RowIsSound, RowKept, ReadIsSound
  <2>3. CASE c # b \/ read[l] = "none"
    BY <1>3, <2>1, <2>3 DEF RowIsSound, RowKept
  <2> QED
    BY <2>2, <2>3
<1> QED
  BY <1>3, <1>4 DEF RowsKept, RowsAreSound

(***************************************************************************)
(* Every step of the batches and of the settlements keeps the rows: a late *)
(* refresh changes no answer of a line into none and makes none over that  *)
(* is not (refreshBatchAggregates).                                        *)
(***************************************************************************)
LEMMA StepKeepsRows ==
  ASSUME BatchesIInv, [BatchesNext]_batchVars
  PROVE  RowsKept
<1>0. RowsShape /\ RowsAreSound /\ CallsAreSound
  BY DEF BatchesIInv
<1>1. CASE \E i \in Imports, creates \in BOOLEAN : importRow(i, creates)
  BY <1>1, ImportRowKeepsRows
<1>2. ASSUME NEW i \in Imports, NEW verdict \in {"READY", "ACTION_REQUIRED", "DRAFT"},
             preflightRow(i, verdict)
      PROVE  RowsKept
  <2> DEFINE l == imports[i].line
  <2>1. /\ settlements' = [settlements EXCEPT ![i][l] = IF @ = "DRAFT" THEN verdict ELSE @]
        /\ UNCHANGED rows
    BY <1>2 DEF preflightRow
  <2> HIDE DEF l
  <2>2. CASE l \in Lines /\ settlements[i][l] = "DRAFT"
    <3>1. settlements' = [settlements EXCEPT ![i][l] = verdict]
      BY <1>0, <2>1, <2>2 DEF RowsShape
    <3> QED
      BY <1>0, <2>1, <2>2, <3>1, MoveKeepsRows DEF SettlementStatuses, CustomerStatuses, Terminal
  <2>3. CASE l \notin Lines \/ settlements[i][l] # "DRAFT"
    <3>1. settlements' = settlements
      BY <1>0, <2>1, <2>3 DEF RowsShape
    <3> QED
      BY <1>0, <2>1, <3>1, SameRowsAreKept
  <2> QED
    BY <2>2, <2>3
<1>3. ASSUME NEW i \in Imports, importRefreshWrite(i) PROVE RowsKept
  <2>1. /\ imports[i].phase = "refreshing"
        /\ refreshWrite(i) /\ UNCHANGED settlements
    BY <1>3 DEF importRefreshWrite, At
  <2>2. CallIsSound(calls[i]) /\ calls[i].phase = "refreshing"
    BY <1>0, <2>1 DEF CallsAreSound, Actors
  <2> QED
    BY <1>0, <2>1, <2>2, RefreshKeepsRows
<1>4. ASSUME NEW c \in Callers, callRefreshWrite(c) PROVE RowsKept
  <2>1. calls[c].phase = "refreshing" /\ refreshWrite(c) /\ UNCHANGED settlements
    BY <1>4 DEF callRefreshWrite
  <2>2. CallIsSound(calls[c])
    BY <1>0 DEF CallsAreSound, Actors
  <2> QED
    BY <1>0, <2>1, <2>2, RefreshKeepsRows
<1>5. ASSUME NEW c \in Callers, NEW agrees \in BOOLEAN, authorizeRow(c, agrees) PROVE RowsKept
  <2> DEFINE b == calls[c].batch
             l == calls[c].line
             ok == agrees /\ settlements[b][l] = "READY"
  <2>1. /\ calls[c].phase = "rows"
        /\ settlements' = IF ok THEN [settlements EXCEPT ![b][l] = "SETTLING"] ELSE settlements
        /\ UNCHANGED rows
    BY <1>5 DEF authorizeRow
  <2>2. b \in Imports
    BY <1>0, <2>1 DEF CallsAreSound, CallIsSound, Actors
  <2>3. CASE ok /\ l \in Lines
    <3>1. /\ settlements' = [settlements EXCEPT ![b][l] = "SETTLING"]
          /\ settlements[b][l] = "READY"
      BY <2>1, <2>3
    <3>2. "SETTLING" \in SettlementStatuses /\ "READY" \notin Terminal
      BY DEF SettlementStatuses, CustomerStatuses, Terminal
    <3>3. PICK c0 \in Imports : c0 = b
      BY <2>2
    <3>4. PICK l0 \in Lines : l0 = l
      BY <2>3
    <3>5. /\ settlements' = [settlements EXCEPT ![c0][l0] = "SETTLING"]
          /\ settlements[c0][l0] = "READY"
          /\ UNCHANGED rows
      BY <2>1, <3>1, <3>3, <3>4
    <3> QED
      BY <1>0, <3>2, <3>5, MoveKeepsRows
  <2>4. CASE ~ok \/ l \notin Lines
    <3>1. CASE ~ok
      BY <1>0, <2>1, <3>1, SameRowsAreKept
    <3>2. CASE ok /\ l \notin Lines
      <4>1. PICK c0 \in Imports : c0 = b
        BY <2>2
      <4>2. PICK l0 : l0 = l
        OBVIOUS
      <4>3. settlements' = [settlements EXCEPT ![c0][l0] = "SETTLING"] /\ l0 \notin Lines
        BY <2>1, <3>2, <4>1, <4>2
      <4>4. settlements' = settlements
        BY <4>3, <1>0 DEF RowsShape
      <4> QED
        BY <1>0, <2>1, <4>4, SameRowsAreKept
    <3> QED
      BY <2>4, <3>1, <3>2
  <2> QED
    BY <2>3, <2>4
<1>6. ASSUME NEW b \in Imports, NEW l \in Lines, settlementMoves(b, l) PROVE RowsKept
  <2>1. PICK move \in SettlementMoves :
          /\ settlements[b][l] = move[1]
          /\ settlements' = [settlements EXCEPT ![b][l] = move[2]]
          /\ UNCHANGED rows
    BY <1>6 DEF settlementMoves
  <2> QED
    BY <1>0, <2>1, MoveFacts, MoveKeepsRows DEF SettlementStatuses
<1>7. CASE \/ \E i \in Imports, file \in Files, key \in Keys \cup {NONE} : createBatchHandler(i, file, key)
           \/ \E i \in Imports : \/ lookup(i) \/ container(i) \/ validated(i)
                                 \/ importRefreshRead(i) \/ crash(i)
           \/ \E c \in Callers : \/ authorizedRows(c) \/ callRefreshRead(c) \/ decide(c)
                                 \/ closeBegins(c) \/ closeFinishes(c)
           \/ \E c \in Callers, b \in Imports : authorizeBatch(c, b) \/ closeBatch(c, b)
           \/ UNCHANGED batchVars
  <2>1. UNCHANGED <<rows, settlements>>
    BY <1>7 DEF createBatchHandler, lookup, container, validated, importRefreshRead, crash,
       authorizedRows, callRefreshRead, decide, closeBegins, closeFinishes, authorizeBatch,
       closeBatch, batchVars
  <2> QED
    BY <1>0, <2>1, SameRowsAreKept
<1> QED
  BY <1>1, <1>2, <1>3, <1>4, <1>5, <1>6, <1>7, Zenon DEF BatchesNext, Importing, Calling

-----------------------------------------------------------------------------
(* What the steps leave alone *)

(***************************************************************************)
(* advanceBatch writes the status of one batch, by a row of the table.     *)
(***************************************************************************)
LEMMA AdvanceFacts ==
  ASSUME DOMAIN batches = Imports,
         \A i \in Imports : batches[i] =
           [status |-> batches[i].status, file |-> batches[i].file, counts |-> batches[i].counts],
         NEW b \in Imports, NEW trigger, advanceBatch(b, trigger)
  PROVE  /\ DOMAIN batches' = Imports
         /\ \A i \in Imports : batches'[i] =
              [status |-> batches'[i].status, file |-> batches'[i].file, counts |-> batches'[i].counts]
         /\ \A i \in Imports : batches'[i].file = batches[i].file
         /\ \A i \in Imports : batches'[i].status = batches[i].status \/ i = b
         /\ \/ batches' = batches
            \/ \E t \in BatchTransitions :
                 t.from = batches[b].status /\ t.trigger = trigger /\ t.to = batches'[b].status
<1>1. CASE Evaluated(b, trigger) = {}
  BY <1>1 DEF advanceBatch
<1>2. CASE Evaluated(b, trigger) # {}
  <2>1. PICK t : t = CHOOSE u \in Evaluated(b, trigger) : TRUE
    OBVIOUS
  <2>2. /\ t \in BatchTransitions /\ t.from = batches[b].status /\ t.trigger = trigger
    BY <1>2, <2>1 DEF Evaluated
  <2>3. batches' = [batches EXCEPT ![b].status = t.to]
    BY <1>2, <2>1 DEF advanceBatch
  <2> QED
    BY <2>2, <2>3
<1> QED
  BY <1>1, <1>2

(***************************************************************************)
(* A batch that was begun is of one of the files, whose lines are lines.   *)
(***************************************************************************)
LEMMA FileOfBatch ==
  ASSUME NEW b \in Imports, ImportIsSound(b), BatchIsSound(b),
         imports[b].phase # "idle" \/ batches[b].status # "none"
  PROVE  requests[b].file \in Files /\ 1..Len(requests[b].file) \subseteq Lines
<1>1. requests[b].file \in Files
  BY DEF ImportIsSound, BatchIsSound
<1> QED
  BY <1>1, LinesOfFile

(***************************************************************************)
(* A line that has its answer keeps it.                                    *)
(***************************************************************************)
LEMMA AnsweredKept ==
  ASSUME NEW b \in Imports, NEW l \in Lines, RowKept(b, l), requests'[b] = requests[b],
         LineAnswered(b, l)
  PROVE  LineAnswered(b, l)'
BY DEF RowKept, LineAnswered

(***************************************************************************)
(* So does a file of such lines.                                           *)
(***************************************************************************)
LEMMA AllAnsweredKept ==
  ASSUME RowsKept, NEW b \in Imports, ImportIsSound(b), BatchIsSound(b),
         imports[b].phase # "idle" \/ batches[b].status # "none",
         requests'[b] = requests[b], AllAnswered(b)
  PROVE  AllAnswered(b)'
BY FileOfBatch, AnsweredKept DEF AllAnswered, RowsKept

(***************************************************************************)
(* An import that does not move, while others and the calls do.            *)
(***************************************************************************)
LEMMA ImportKept ==
  ASSUME BatchesIInv, RowsKept, NEW i \in Imports,
         requests'[i] = requests[i], imports'[i] = imports[i]
  PROVE  ImportIsSound(i)'
<1>1. ImportIsSound(i) /\ BatchIsSound(i)
  BY DEF BatchesIInv
<1>2. CASE imports[i].phase = "idle"
  BY <1>1, <1>2 DEF ImportIsSound
<1>3. CASE imports[i].phase # "idle"
  <2>1. AllAnswered(i) => AllAnswered(i)'
    BY <1>1, <1>3, AllAnsweredKept
  <2>2. imports[i].phase = "rows" => \A l \in Lines :
          IF l < imports[i].line THEN LineAnswered(i, l)' ELSE rows'[i][l] = "none"
    BY <1>1, AnsweredKept DEF ImportIsSound, RowsKept, RowKept
  <2> QED
    BY <1>1, <2>1, <2>2 DEF ImportIsSound
<1> QED
  BY <1>2, <1>3

(***************************************************************************)
(* What holds of an import holds again after a step that leaves its        *)
(* request, its phase and its batch's status alone.                        *)
(***************************************************************************)
LEMMA BatchKept ==
  ASSUME BatchesIInv, RowsKept, NEW i \in Imports,
         requests'[i] = requests[i], imports'[i] = imports[i], claims \subseteq claims',
         batches'[i].status = batches[i].status, batches'[i].file = batches[i].file
  PROVE  BatchIsSound(i)'
<1>1. ImportIsSound(i) /\ BatchIsSound(i)
  BY DEF BatchesIInv
<1>2. batches[i].status # "none" /\ AllAnswered(i) => AllAnswered(i)'
  BY <1>1, AllAnsweredKept
<1>3. batches[i].status = "none" => \A l \in Lines : rows'[i][l] = "none"
  BY <1>1 DEF BatchIsSound, RowsKept, RowKept
<1> QED
  BY <1>1, <1>2, <1>3 DEF BatchIsSound

(***************************************************************************)
(* What a call knows stays true while others move.                         *)
(***************************************************************************)
LEMMA CallKept ==
  ASSUME BatchesIInv, RowsKept, BatchesKept, NEW call, CallIsSound(call)
  PROVE  CallIsSound(call)'
<1>1. CASE call.phase = "idle"
  BY <1>1 DEF CallIsSound
<1>2. CASE call.phase # "idle"
  <2>1. PICK b \in Imports : b = call.batch /\ batches[b].status # "none"
    BY <1>2 DEF CallIsSound
  <2>2. batches'[b].status # "none" /\ requests'[b] = requests[b]
    BY <2>1 DEF BatchesKept
  <2>3. ImportIsSound(b) /\ BatchIsSound(b)
    BY DEF BatchesIInv
  <2>4. \A l \in Lines : ReadIsSound(b, l, call.read[l]) => ReadIsSound(b, l, call.read[l])'
    BY DEF ReadIsSound, RowsKept, RowKept
  <2>5. AllAnswered(b) => AllAnswered(b)'
    BY <2>1, <2>2, <2>3, AllAnsweredKept
  <2>6. batches[b].status # "none" => 1..Len(requests[b].file) \subseteq Lines
    BY <2>3, FileOfBatch
  <2>7. ASSUME \A l \in 1..Len(requests[b].file) : LineIsOver(b, l, call.read[1])
        PROVE  \A l \in 1..Len(requests[b].file) : LineIsOver(b, l, call.read[1])'
    BY <2>1, <2>6, <2>7 DEF LineIsOver, RowsKept, RowKept
  <2> QED
    BY <2>1, <2>2, <2>4, <2>5, <2>7 DEF CallIsSound
<1> QED
  BY <1>1, <1>2

-----------------------------------------------------------------------------
(* Steps of imports *)

(***************************************************************************)
(* A step that writes neither the requests, the imports nor the claims,    *)
(* and of the batches at most the counters.                                *)
(***************************************************************************)
QuietBatches ==
  /\ DOMAIN batches' = Imports
  /\ \A i \in Imports : batches'[i] =
       [status |-> batches'[i].status, file |-> batches'[i].file, counts |-> batches'[i].counts]
  /\ \A i \in Imports :
       batches'[i].status = batches[i].status /\ batches'[i].file = batches[i].file

(***************************************************************************)
(* The same of every import, and no two batches came to share a file or a  *)
(* key.                                                                    *)
(***************************************************************************)
LEMMA QuietStep ==
  ASSUME BatchesIInv, RowsKept, QuietBatches, UNCHANGED <<requests, imports, claims>>
  PROVE  /\ BatchesKept
         /\ \A i \in Imports : ImportIsSound(i)' /\ BatchIsSound(i)'
         /\ ImportedOnce'
<1>1. BatchesKept
  BY DEF BatchesKept, QuietBatches
<1>2. ASSUME NEW i \in Imports PROVE ImportIsSound(i)' /\ BatchIsSound(i)'
  BY ImportKept, BatchKept DEF QuietBatches
<1>3. ImportedOnce'
  BY DEF BatchesIInv, ImportedOnce, QuietBatches
<1> QED
  BY <1>1, <1>2, <1>3

(***************************************************************************)
(* One import moves, and its batch's status does not: the others are as    *)
(* they were.                                                              *)
(***************************************************************************)
LEMMA OneImportMoves ==
  ASSUME BatchesIInv, RowsKept, NEW i \in Imports,
         NEW phase, NEW line, goTo(i, phase, line),
         UNCHANGED <<requests, claims>>, QuietBatches, ImportIsSound(i)',
         phase \notin {"idle", "lookup"}, phase # "container" \/ batches[i].status = "none",
         batches[i].status = "none" =>
           imports[i].phase # "rows" /\ phase \in {"container", "replayed", "refused", "dead"},
         imports[i].phase # "idle"
  PROVE  /\ DOMAIN imports' = Imports
         /\ BatchesKept
         /\ \A j \in Imports : ImportIsSound(j)' /\ BatchIsSound(j)'
         /\ ImportedOnce'
<1>1. /\ DOMAIN imports' = Imports
      /\ imports'[i] = [phase |-> phase, line |-> line]
      /\ \A j \in Imports \ {i} : imports'[j] = imports[j]
  BY DEF goTo, BatchesIInv, BatchesShape
<1>2. BatchesKept
  BY DEF BatchesKept, QuietBatches
<1>3. ASSUME NEW j \in Imports \ {i} PROVE ImportIsSound(j)' /\ BatchIsSound(j)'
  BY <1>1, ImportKept, BatchKept DEF QuietBatches
<1>4. BatchIsSound(i)'
  <2>1. ImportIsSound(i) /\ BatchIsSound(i)
    BY DEF BatchesIInv
  <2>2. AllAnswered(i) => AllAnswered(i)'
    BY <2>1, AllAnsweredKept
  <2>3. imports[i].phase # "rows" /\ batches[i].status = "none" =>
          \A l \in Lines : rows'[i][l] = "none"
    BY <2>1 DEF BatchIsSound, RowsKept, RowKept
  <2> QED
    BY <1>1, <2>1, <2>2, <2>3 DEF BatchIsSound, QuietBatches
<1>5. ImportedOnce'
  BY DEF BatchesIInv, ImportedOnce, QuietBatches
<1> QED
  BY <1>1, <1>2, <1>3, <1>4, <1>5

(***************************************************************************)
(* Calls that did not move hold what they held, whatever the step did to   *)
(* rows and batches.                                                       *)
(***************************************************************************)
LEMMA SameCallsAreSound ==
  ASSUME BatchesIInv, RowsKept, BatchesKept, UNCHANGED calls,
         \A i \in Imports : imports'[i].phase = "refreshing" => imports'[i] = imports[i]
  PROVE  CallsAreSound'
<1>1. ASSUME NEW a \in Actors PROVE CallIsSound(calls[a])'
  <2>1. PICK call : call = calls[a]
    OBVIOUS
  <2>2. CallIsSound(call)'
    BY <2>1, CallKept DEF BatchesIInv, CallsAreSound
  <2>3. call = calls'[a]
    BY <2>1
  <2> QED
    BY <2>2, <2>3 DEF CallIsSound
<1> QED
  BY <1>1 DEF CallsAreSound, BatchesIInv

(***************************************************************************)
(* createBatchFromRows: the batch, its counts and its claim in one         *)
(* transaction.                                                            *)
(***************************************************************************)
LEMMA CreateKeepsInv ==
  ASSUME BatchesIInv, RowsKept,
         NEW i \in Imports, NEW file \in Files, NEW key \in Keys \cup {NONE},
         createBatchHandler(i, file, key)
  PROVE  BatchesIInv'
<1>1. /\ imports[i].phase = "idle"
      /\ requests' = [requests EXCEPT ![i] =
           [file |-> file, rows |-> parseBatchCsv(render(file)), key |-> key]]
      /\ imports' = [imports EXCEPT ![i] = [phase |-> "lookup", line |-> 0]]
      /\ UNCHANGED <<batches, rows, settlements, claims, calls, started, crashes>>
  BY DEF createBatchHandler, goTo
<1>2. BatchesShape /\ ImportIsSound(i) /\ BatchIsSound(i)
  BY DEF BatchesIInv
<1>3. parseBatchCsv(render(file)) = asGiven(file)
  BY FilesAreRows, FilesSurvive
<1>4. /\ requests'[i] = [file |-> file, rows |-> asGiven(file), key |-> key]
      /\ imports'[i] = [phase |-> "lookup", line |-> 0]
      /\ \A j \in Imports \ {i} : requests'[j] = requests[j] /\ imports'[j] = imports[j]
      /\ BatchesShape'
  BY <1>1, <1>2, <1>3 DEF BatchesShape
<1>5. batches[i].status = "none"
  BY <1>1, <1>2 DEF BatchIsSound
<1>6. BatchesKept
  BY <1>1, <1>4, <1>5 DEF BatchesKept
<1>7. ASSUME NEW j \in Imports PROVE ImportIsSound(j)' /\ BatchIsSound(j)'
  <2>1. CASE j = i
    <3>1. ImportIsSound(i)'
      BY <1>4 DEF ImportIsSound
    <3>2. BatchIsSound(i)'
      BY <1>1, <1>2, <1>4, <1>5 DEF BatchIsSound
    <3> QED
      BY <2>1, <3>1, <3>2
  <2>2. CASE j # i
    BY <1>1, <1>4, <2>2, ImportKept, BatchKept
  <2> QED
    BY <2>1, <2>2
<1>8. ImportedOnce'
  BY <1>1, <1>4, <1>5 DEF BatchesIInv, ImportedOnce
<1>9. CallsAreSound'
  BY <1>1, <1>4, <1>6, SameCallsAreSound
<1> QED
  BY <1>4, <1>7, <1>8, <1>9 DEF BatchesIInv, RowsKept

(***************************************************************************)
(* A step that leaves the batches alone changes no batch's status.         *)
(***************************************************************************)
LEMMA QuietIsQuiet ==
  ASSUME BatchesShape, UNCHANGED batches
  PROVE  QuietBatches
BY DEF BatchesShape, QuietBatches

(***************************************************************************)
(* lookup and the replays and refusals of container.                       *)
(***************************************************************************)
LEMMA LookupKeepsInv ==
  ASSUME BatchesIInv, RowsKept, NEW i \in Imports,
         NEW phase \in {"container", "replayed", "refused"},
         imports[i].phase \in {"lookup", "container"}, goTo(i, phase, 0),
         UNCHANGED <<requests, batches, claims, calls>>
  PROVE  BatchesIInv'
<1>1. BatchesShape /\ ImportIsSound(i) /\ BatchIsSound(i)
  BY DEF BatchesIInv
<1>2. /\ imports'[i] = [phase |-> phase, line |-> 0]
      /\ \A j \in Imports \ {i} : imports'[j] = imports[j]
      /\ BatchesShape'
  BY <1>1 DEF BatchesShape, goTo
<1>3. ImportIsSound(i)'
  BY <1>1, <1>2 DEF ImportIsSound
<1>4. batches[i].status = "none"
  BY <1>1 DEF BatchIsSound
<1>5. /\ BatchesKept
      /\ \A j \in Imports : ImportIsSound(j)' /\ BatchIsSound(j)'
      /\ ImportedOnce'
  BY <1>1, <1>3, <1>4, QuietIsQuiet, OneImportMoves
<1>6. CallsAreSound'
  BY <1>2, <1>5, SameCallsAreSound
<1> QED
  BY <1>2, <1>5, <1>6 DEF BatchesIInv, RowsKept

(***************************************************************************)
(* The container: the two unique indices keep the file and the key for one *)
(* batch.                                                                  *)
(***************************************************************************)
LEMMA ContainerKeepsInv ==
  ASSUME BatchesIInv, RowsKept, NEW i \in Imports, imports[i].phase = "container",
         ~taken(i),
         batches' = [batches EXCEPT ![i] =
           [status |-> "VALIDATING", file |-> requests[i].file, counts |-> NONE]],
         claims' = claims \cup ({requests[i].key} \ {NONE}),
         goTo(i, "rows", 1), UNCHANGED <<requests, calls>>
  PROVE  BatchesIInv'
<1>1. BatchesShape /\ ImportIsSound(i) /\ BatchIsSound(i)
  BY DEF BatchesIInv
<1>2. /\ imports'[i] = [phase |-> "rows", line |-> 1]
      /\ batches'[i] = [status |-> "VALIDATING", file |-> requests[i].file, counts |-> NONE]
      /\ \A j \in Imports \ {i} : imports'[j] = imports[j] /\ batches'[j] = batches[j]
      /\ DOMAIN imports' = Imports /\ DOMAIN batches' = Imports
  BY <1>1 DEF BatchesShape, goTo
<1>3. /\ requests[i].file \in Files /\ requests[i].key \in Keys \cup {NONE}
      /\ batches[i].status = "none"
      /\ \A l \in Lines : rows[i][l] = "none"
  BY <1>1 DEF ImportIsSound, BatchIsSound
<1>4. BatchesShape'
  BY <1>1, <1>2, <1>3 DEF BatchesShape
<1>5. BatchesKept
  BY <1>2, <1>3 DEF BatchesKept
<1>6. ASSUME NEW j \in Imports PROVE ImportIsSound(j)' /\ BatchIsSound(j)'
  <2>1. CASE j = i
    <3>1. \A l \in Lines : rows'[i][l] = "none"
      BY <1>3 DEF RowsKept, RowKept
    <3>2. 1 \in 1..Len(requests[i].file) /\ \A l \in Lines : ~(l < 1)
      BY <1>3, LinesOfFile DEF Lines
    <3>3. ImportIsSound(i)'
      BY <1>1, <1>2, <1>3, <3>1, <3>2 DEF ImportIsSound
    <3>4. BatchIsSound(i)'
      BY <1>2, <1>3 DEF BatchIsSound
    <3> QED
      BY <2>1, <3>3, <3>4
  <2>2. CASE j # i
    BY <1>2, <2>2, ImportKept, BatchKept
  <2> QED
    BY <2>1, <2>2
<1>7. ImportedOnce'
  <2>1. requests[i].key \notin claims
    BY DEF taken
  <2>2. ASSUME NEW j \in Imports, j # i, batches[j].status # "none"
        PROVE  /\ requests[j].file # requests[i].file
               /\ requests[j].key = requests[i].key => requests[i].key = NONE
    <3>1. BatchIsSound(j)
      BY DEF BatchesIInv
    <3>2. batches[j].file = requests[j].file /\ requests[j].key \in claims \cup {NONE}
      BY <2>2, <3>1 DEF BatchIsSound
    <3>3. batches[j].file # requests[i].file
      BY <2>2 DEF taken, batchOf
    <3> QED
      BY <2>1, <3>2, <3>3
  <2> QED
    BY <1>2, <2>2 DEF BatchesIInv, ImportedOnce
<1>8. CallsAreSound'
  BY <1>2, <1>5, SameCallsAreSound
<1> QED
  BY <1>4, <1>6, <1>7, <1>8 DEF BatchesIInv, RowsKept

-----------------------------------------------------------------------------
(* Steps of calls *)

CallShape(call) ==
  call = [op |-> call.op, phase |-> call.phase, batch |-> call.batch, line |-> call.line,
          seen |-> call.seen, read |-> call.read, done |-> call.done]

(***************************************************************************)
(* A step of one actor: the others' calls are what they were.              *)
(***************************************************************************)
LEMMA OneCallMoves ==
  ASSUME BatchesIInv, RowsKept, BatchesKept, NEW a \in Actors, NEW call, CallShape(call),
         calls' = [calls EXCEPT ![a] = call], CallIsSound(call)',
         a \in Callers /\ call.phase # "idle" => call.op \in {"authorize", "close"},
         \A i \in Imports : imports'[i].phase = "refreshing" =>
           IF a = i THEN call.phase = "refreshing" /\ call.batch = i ELSE imports'[i] = imports[i]
  PROVE  /\ DOMAIN calls' = Actors
         /\ \A x \in Actors : CallShape(calls'[x])
         /\ CallsAreSound'
<1>0. BatchesShape /\ CallsAreSound
  BY DEF BatchesIInv
<1>1. /\ DOMAIN calls' = Actors
      /\ calls'[a] = call
      /\ \A x \in Actors \ {a} : calls'[x] = calls[x]
  BY <1>0 DEF BatchesShape
<1>2. \A x \in Actors : CallShape(calls'[x])
  BY <1>0, <1>1 DEF BatchesShape, CallShape
<1>3. ASSUME NEW x \in Actors PROVE CallIsSound(calls[x])'
  <2>1. CASE x = a
    <3>1. call = calls'[x]
      BY <1>1, <2>1
    <3> QED
      BY <3>1 DEF CallIsSound
  <2>2. CASE x # a
    <3>1. PICK other : other = calls[x]
      OBVIOUS
    <3>2. CallIsSound(other)'
      BY <1>0, <3>1, CallKept DEF CallsAreSound
    <3>3. other = calls'[x]
      BY <1>1, <2>2, <3>1
    <3> QED
      BY <3>2, <3>3 DEF CallIsSound
  <2> QED
    BY <2>1, <2>2
<1>4. \A c \in Callers : calls'[c].phase # "idle" => calls'[c].op \in {"authorize", "close"}
  BY <1>0, <1>1 DEF CallsAreSound, Actors
<1>5. \A i \in Imports : imports'[i].phase = "refreshing" =>
        calls'[i].phase = "refreshing" /\ calls'[i].batch = i
  BY <1>0, <1>1 DEF CallsAreSound, Actors
<1> QED
  BY <1>1, <1>2, <1>3, <1>4, <1>5 DEF CallsAreSound

(***************************************************************************)
(* The shape of the state is kept by a step that keeps requests and        *)
(* imports and leaves rows of the right shape.                             *)
(***************************************************************************)
LEMMA ShapeAgain ==
  ASSUME BatchesShape, UNCHANGED <<requests, imports, claims>>,
         DOMAIN batches' = Imports,
         \A i \in Imports : batches'[i] =
           [status |-> batches'[i].status, file |-> batches'[i].file, counts |-> batches'[i].counts],
         DOMAIN calls' = Actors, \A x \in Actors : CallShape(calls'[x])
  PROVE  BatchesShape'
BY DEF BatchesShape, CallShape

(***************************************************************************)
(* A step of a call that moves no batch.                                   *)
(***************************************************************************)
LEMMA CallerStep ==
  ASSUME BatchesIInv, RowsKept, QuietBatches, UNCHANGED <<requests, imports, claims>>,
         NEW c \in Callers, NEW call, CallShape(call), calls' = [calls EXCEPT ![c] = call],
         CallIsSound(call)', call.phase # "idle" => call.op \in {"authorize", "close"}
  PROVE  BatchesIInv'
<1>1. /\ BatchesKept
      /\ \A i \in Imports : ImportIsSound(i)' /\ BatchIsSound(i)'
      /\ ImportedOnce'
  BY QuietStep
<1>2. c \in Actors /\ c \notin Imports
  BY BatchesAssumption DEF Actors
<1>3. /\ DOMAIN calls' = Actors
      /\ \A x \in Actors : CallShape(calls'[x])
      /\ CallsAreSound'
  BY <1>1, <1>2, OneCallMoves
<1>4. BatchesShape'
  BY <1>3, ShapeAgain DEF BatchesIInv, QuietBatches
<1> QED
  BY <1>1, <1>3, <1>4 DEF BatchesIInv, RowsKept

(***************************************************************************)
(* A batch moves along its table: out of VALIDATING only when every line   *)
(* is answered.                                                            *)
(***************************************************************************)
LEMMA StatusMoves ==
  ASSUME BatchesIInv, RowsKept, NEW b \in Imports, NEW trigger, advanceBatch(b, trigger),
         trigger = "validated" => AllAnswered(b),
         UNCHANGED <<requests, claims>>,
         \A j \in Imports \ {b} : imports'[j] = imports[j],
         ImportIsSound(b)',
         \/ imports'[b] = imports[b]
         \/ /\ imports'[b].phase \notin {"idle", "lookup", "container"}
            /\ imports[b].phase \notin {"idle", "rows"}
            /\ batches[b].status # "none"
  PROVE  /\ DOMAIN batches' = Imports
         /\ \A i \in Imports : batches'[i] =
              [status |-> batches'[i].status, file |-> batches'[i].file, counts |-> batches'[i].counts]
         /\ BatchesKept
         /\ \A j \in Imports : ImportIsSound(j)' /\ BatchIsSound(j)'
         /\ ImportedOnce'
<1>0. BatchesShape /\ ImportIsSound(b) /\ BatchIsSound(b)
  BY DEF BatchesIInv
<1>1. /\ DOMAIN batches' = Imports
      /\ \A i \in Imports : batches'[i] =
           [status |-> batches'[i].status, file |-> batches'[i].file, counts |-> batches'[i].counts]
      /\ \A i \in Imports : batches'[i].file = batches[i].file
      /\ \A i \in Imports : batches'[i].status = batches[i].status \/ i = b
      /\ \/ batches' = batches
         \/ \E t \in BatchTransitions :
              t.from = batches[b].status /\ t.trigger = trigger /\ t.to = batches'[b].status
  BY <1>0, AdvanceFacts DEF BatchesShape
<1>2. \/ batches'[b].status = batches[b].status
      \/ /\ batches[b].status \in {"VALIDATING", "READY", "EXECUTING"}
         /\ batches[b].status = "VALIDATING" => trigger = "validated"
         /\ batches'[b].status \in {"READY", "EXECUTING", "COMPLETED", "PARTIALLY_COMPLETED"}
  BY <1>1 DEF BatchTransitions
<1>3. \A i \in Imports : batches'[i].status = "none" <=> batches[i].status = "none"
  BY <1>1, <1>2
<1>4. BatchesKept
  BY <1>3 DEF BatchesKept
<1>5. ASSUME NEW j \in Imports \ {b} PROVE ImportIsSound(j)' /\ BatchIsSound(j)'
  BY <1>1, ImportKept, BatchKept
<1>6. CASE batches'[b].status = batches[b].status /\ imports'[b] = imports[b]
  <2>1. BatchIsSound(b)'
    BY <1>1, <1>6, BatchKept
  <2>2. ImportedOnce'
    BY <1>3 DEF BatchesIInv, ImportedOnce
  <2> QED
    BY <1>1, <1>4, <1>5, <2>1, <2>2
<1>7. CASE ~(batches'[b].status = batches[b].status /\ imports'[b] = imports[b])
  <2>1. batches[b].status # "none"
    BY <1>2, <1>7
  <2>2. AllAnswered(b) => AllAnswered(b)'
    BY <1>0, <2>1, AllAnsweredKept
  <2>3. batches'[b].status \notin {"none", "VALIDATING"} => AllAnswered(b)
    BY <1>0, <1>2 DEF BatchIsSound
  <2>4. imports'[b].phase \notin {"idle", "lookup", "container"}
    BY <1>0, <2>1 DEF BatchIsSound
  <2>5. BatchIsSound(b)'
    BY <1>0, <1>1, <1>2, <1>3, <2>1, <2>2, <2>3, <2>4 DEF BatchIsSound
  <2>6. ImportedOnce'
    BY <1>3 DEF BatchesIInv, ImportedOnce
  <2> QED
    BY <1>1, <1>4, <1>5, <2>5, <2>6
<1> QED
  BY <1>6, <1>7

(***************************************************************************)
(* A call that advances its batch.                                         *)
(***************************************************************************)
LEMMA CallerAdvances ==
  ASSUME BatchesIInv, RowsKept, NEW b \in Imports,
         NEW trigger \in {"begin_execution", "all_rows_resolved", "some_rows_unresolved"},
         advanceBatch(b, trigger), UNCHANGED <<requests, imports, claims>>,
         NEW c \in Callers, NEW call, CallShape(call), calls' = [calls EXCEPT ![c] = call],
         BatchesKept => CallIsSound(call)',
         call.phase # "idle" => call.op \in {"authorize", "close"}
  PROVE  BatchesIInv'
<1>0. ImportIsSound(b)'
  BY ImportKept
<1>1. /\ DOMAIN batches' = Imports
      /\ \A i \in Imports : batches'[i] =
           [status |-> batches'[i].status, file |-> batches'[i].file, counts |-> batches'[i].counts]
      /\ BatchesKept
      /\ \A j \in Imports : ImportIsSound(j)' /\ BatchIsSound(j)'
      /\ ImportedOnce'
  BY <1>0, StatusMoves
<1>2. c \in Actors /\ c \notin Imports
  BY BatchesAssumption DEF Actors
<1>3. /\ DOMAIN calls' = Actors
      /\ \A x \in Actors : CallShape(calls'[x])
      /\ CallsAreSound'
  BY <1>1, <1>2, OneCallMoves
<1>4. BatchesShape'
  BY <1>1, <1>3, ShapeAgain DEF BatchesIInv
<1> QED
  BY <1>1, <1>3, <1>4 DEF BatchesIInv, RowsKept

-----------------------------------------------------------------------------
(* The steps of an import *)

(***************************************************************************)
(* A step of one import whose batch keeps its status.                      *)
(***************************************************************************)
LEMMA ImportStep ==
  ASSUME BatchesIInv, RowsKept, NEW i \in Imports,
         NEW phase \in {"preflight", "rows", "validated", "created"}, NEW line, goTo(i, phase, line),
         UNCHANGED <<requests, batches, claims, calls>>, ImportIsSound(i)',
         imports[i].phase \in {"rows", "preflight"}
  PROVE  BatchesIInv'
<1>0. BatchesShape /\ BatchIsSound(i)
  BY DEF BatchesIInv
<1>1. batches[i].status # "none" /\ imports[i].phase # "idle"
  BY <1>0 DEF BatchIsSound
<1>2. QuietBatches
  BY <1>0, QuietIsQuiet
<1>3. /\ DOMAIN imports' = Imports
      /\ BatchesKept
      /\ \A j \in Imports : ImportIsSound(j)' /\ BatchIsSound(j)'
      /\ ImportedOnce'
  BY <1>1, <1>2, OneImportMoves
<1>4. \A j \in Imports : imports'[j].phase = "refreshing" => imports'[j] = imports[j]
  BY <1>0 DEF goTo, BatchesShape
<1>5. CallsAreSound'
  BY <1>3, <1>4, SameCallsAreSound
<1>6. BatchesShape'
  BY <1>0, <1>3 DEF BatchesShape
<1> QED
  BY <1>3, <1>5, <1>6 DEF BatchesIInv, RowsKept

(***************************************************************************)
(* A line is imported: its settlement is created, or it is marked INVALID. *)
(***************************************************************************)
LEMMA ImportRowKeepsInv ==
  ASSUME BatchesIInv, RowsKept, NEW i \in Imports, NEW creates \in BOOLEAN, importRow(i, creates)
  PROVE  BatchesIInv'
<1>1. PICK l : l = imports[i].line
  OBVIOUS
<1>2. /\ imports[i].phase = "rows"
      /\ UNCHANGED <<requests, batches, claims, calls>>
      /\ \/ /\ requests[i].rows[l].ok
            /\ rows' = [rows EXCEPT ![i][l] = "ACCEPTED"]
         \/ /\ rows' = [rows EXCEPT ![i][l] = "INVALID"]
            /\ UNCHANGED settlements
      /\ IF Next_(i, l) = 0 THEN goTo(i, "preflight", 1) ELSE goTo(i, "rows", l + 1)
  BY <1>1 DEF importRow, invalidRow, At, Parsed
<1>3. BatchesShape /\ RowsShape /\ RowsAreSound /\ ImportIsSound(i)
  BY DEF BatchesIInv
<1>4. PICK file \in Files : file = requests[i].file
  BY <1>2, <1>3 DEF ImportIsSound
<1>5. PICK n \in Nat \ {0} : n = Len(file) /\ 1 \in 1..n /\ 1..n \subseteq Lines
  BY LinesOfFile
<1>6. /\ requests[i].rows = asGiven(file)
      /\ l \in 1..n /\ l \in Lines
      /\ \A m \in Lines : IF m < l THEN LineAnswered(i, m) ELSE rows[i][m] = "none"
  BY <1>1, <1>2, <1>3, <1>4, <1>5 DEF ImportIsSound
<1>7. /\ Len(requests[i].rows) = n
      /\ requests[i].rows[l].ok => file[l].instr = VALID
  <2>1. asGiven(file) = [m \in 1..n |-> [ok |-> file[m].instr = VALID, ref |-> trim(file[m].ref)]]
    BY <1>5 DEF asGiven
  <2>2. requests[i].rows[l] = [ok |-> file[l].instr = VALID, ref |-> trim(file[l].ref)]
    BY <1>6, <2>1
  <2>3. requests[i].rows[l].ok = (file[l].instr = VALID)
    <3> DEFINE valid == file[l].instr = VALID
               ref == trim(file[l].ref)
    <3>1. requests[i].rows[l] = [ok |-> valid, ref |-> ref]
      BY <2>2
    <3> HIDE DEF valid, ref
    <3>2. requests[i].rows[l].ok = valid
      BY <3>1
    <3> QED
      BY <3>2 DEF valid
  <2>4. Len(requests[i].rows) = n
    <3> DEFINE row(m) == [ok |-> file[m].instr = VALID, ref |-> trim(file[m].ref)]
    <3>1. requests[i].rows = [m \in 1..n |-> row(m)]
      BY <1>6, <2>1
    <3> HIDE DEF row
    <3> QED
      BY <3>1
  <2> QED
    BY <2>3, <2>4
<1>8. /\ settlements[i][l] = "NONE"
      /\ rows'[i][l] # "none"
      /\ \A m \in Lines \ {l} : rows'[i][m] = rows[i][m]
  BY <1>2, <1>3, <1>6 DEF RowsShape, RowsAreSound, RowIsSound
<1>9. LineAnswered(i, l)'
  BY <1>2, <1>4, <1>7, <1>8 DEF LineAnswered
<1>10. ASSUME NEW m \in Lines, m < l PROVE LineAnswered(i, m)'
  BY <1>2, <1>6, <1>10, AnsweredKept DEF RowsKept
<1>11. CASE l < n
  <2>1. Next_(i, l) = l + 1 /\ l + 1 # 0
    BY <1>6, <1>7, <1>11 DEF Next_, Parsed
  <2>2. goTo(i, "rows", l + 1)
    BY <1>2, <2>1
  <2>3. imports'[i] = [phase |-> "rows", line |-> l + 1] /\ l + 1 \in 1..n
    BY <1>3, <1>6, <1>11, <2>2 DEF goTo, BatchesShape
  <2>4. ASSUME NEW m \in Lines
        PROVE  IF m < l + 1 THEN LineAnswered(i, m)' ELSE rows'[i][m] = "none"
    <3>1. m \in Nat /\ l \in Nat
      BY <1>6 DEF Lines
    <3>2. m < l \/ m = l \/ (m > l /\ ~(m < l) /\ ~(m < l + 1))
      BY <3>1
    <3>3. m < l \/ m = l => m < l + 1
      BY <3>1
    <3> QED
      BY <1>6, <1>8, <1>9, <1>10, <3>1, <3>2, <3>3
  <2>5. ImportIsSound(i)'
    BY <1>2, <1>3, <1>4, <1>5, <2>3, <2>4 DEF ImportIsSound
  <2> QED
    BY <1>2, <2>2, <2>5, ImportStep
<1>12. CASE ~(l < n)
  <2>1. Next_(i, l) = 0 /\ l = n
    BY <1>5, <1>6, <1>7, <1>12 DEF Next_, Parsed
  <2>2. goTo(i, "preflight", 1)
    BY <1>2, <2>1
  <2>3. imports'[i] = [phase |-> "preflight", line |-> 1]
    BY <1>3, <2>2 DEF goTo, BatchesShape
  <2>4. AllAnswered(i)'
    <3>1. \A m \in 1..n : m \in Lines /\ (m < l \/ m = l)
      BY <1>5, <2>1
    <3>2. \A m \in 1..n : LineAnswered(i, m)'
      BY <1>9, <1>10, <3>1
    <3>3. n = Len(requests'[i].file)
      BY <1>2, <1>4, <1>5
    <3> QED
      BY <3>2, <3>3 DEF AllAnswered
  <2>5. ImportIsSound(i)'
    BY <1>2, <1>3, <1>4, <1>5, <2>3, <2>4 DEF ImportIsSound
  <2> QED
    BY <1>2, <2>2, <2>5, ImportStep
<1> QED
  BY <1>11, <1>12

(***************************************************************************)
(* A line's settlement is preflighted.                                     *)
(***************************************************************************)
LEMMA PreflightKeepsInv ==
  ASSUME BatchesIInv, RowsKept, NEW i \in Imports,
         NEW verdict \in {"READY", "ACTION_REQUIRED", "DRAFT"}, preflightRow(i, verdict)
  PROVE  BatchesIInv'
<1>1. PICK l : l = imports[i].line
  OBVIOUS
<1>2. /\ imports[i].phase = "preflight"
      /\ UNCHANGED <<requests, batches, claims, calls>>
      /\ IF Next_(i, l) = 0 THEN goTo(i, "validated", 0) ELSE goTo(i, "preflight", l + 1)
  BY <1>1 DEF preflightRow, At
<1>3. BatchesShape /\ ImportIsSound(i) /\ BatchIsSound(i)
  BY DEF BatchesIInv
<1>4. PICK file \in Files : file = requests[i].file
  BY <1>2, <1>3 DEF ImportIsSound
<1>5. PICK n \in Nat \ {0} : n = Len(file)
  BY LinesOfFile
<1>6. requests[i].rows = asGiven(file) /\ l \in 1..n /\ AllAnswered(i)
  BY <1>1, <1>2, <1>3, <1>4, <1>5 DEF ImportIsSound
<1>7. Len(requests[i].rows) = n
  <2> DEFINE row(m) == [ok |-> file[m].instr = VALID, ref |-> trim(file[m].ref)]
  <2>1. requests[i].rows = [m \in 1..n |-> row(m)]
    BY <1>5, <1>6 DEF asGiven
  <2> HIDE DEF row
  <2> QED
    BY <2>1
<1>8. AllAnswered(i)'
  BY <1>2, <1>3, <1>6, AllAnsweredKept
<1>9. CASE l < n
  <2>1. Next_(i, l) = l + 1 /\ l + 1 # 0
    BY <1>6, <1>7, <1>9 DEF Next_, Parsed
  <2>2. goTo(i, "preflight", l + 1)
    BY <1>2, <2>1
  <2>3. imports'[i] = [phase |-> "preflight", line |-> l + 1] /\ l + 1 \in 1..n
    BY <1>3, <1>6, <1>9, <2>2 DEF goTo, BatchesShape
  <2>4. ImportIsSound(i)'
    BY <1>2, <1>3, <1>4, <1>5, <1>8, <2>3 DEF ImportIsSound
  <2> QED
    BY <1>2, <2>2, <2>4, ImportStep
<1>10. CASE ~(l < n)
  <2>1. Next_(i, l) = 0
    BY <1>7, <1>10 DEF Next_, Parsed
  <2>2. goTo(i, "validated", 0)
    BY <1>2, <2>1
  <2>3. imports'[i] = [phase |-> "validated", line |-> 0]
    BY <1>3, <2>2 DEF goTo, BatchesShape
  <2>4. ImportIsSound(i)'
    BY <1>2, <1>3, <1>8, <2>3 DEF ImportIsSound
  <2> QED
    BY <1>2, <2>2, <2>4, ImportStep
<1> QED
  BY <1>9, <1>10

(***************************************************************************)
(* The batch is VALIDATED, or not, once every line was preflighted.        *)
(***************************************************************************)
LEMMA ValidatedKeepsInv ==
  ASSUME BatchesIInv, RowsKept, NEW i \in Imports, validated(i)
  PROVE  BatchesIInv'
<1>1. /\ imports[i].phase = "validated"
      /\ advanceBatch(i, "validated")
      /\ goTo(i, "refresh", 0)
      /\ UNCHANGED <<requests, claims, calls>>
  BY DEF validated, At
<1>2. BatchesShape /\ ImportIsSound(i) /\ BatchIsSound(i)
  BY DEF BatchesIInv
<1>3. AllAnswered(i) /\ batches[i].status # "none"
  BY <1>1, <1>2 DEF ImportIsSound, BatchIsSound
<1>4. AllAnswered(i)'
  BY <1>1, <1>2, <1>3, AllAnsweredKept
<1>5. /\ imports'[i] = [phase |-> "refresh", line |-> 0]
      /\ DOMAIN imports' = Imports
      /\ \A j \in Imports \ {i} : imports'[j] = imports[j]
  BY <1>1, <1>2 DEF goTo, BatchesShape
<1>6. ImportIsSound(i)'
  BY <1>1, <1>2, <1>4, <1>5 DEF ImportIsSound
<1>7. /\ DOMAIN batches' = Imports
      /\ \A j \in Imports : batches'[j] =
           [status |-> batches'[j].status, file |-> batches'[j].file, counts |-> batches'[j].counts]
      /\ BatchesKept
      /\ \A j \in Imports : ImportIsSound(j)' /\ BatchIsSound(j)'
      /\ ImportedOnce'
  BY <1>1, <1>3, <1>5, <1>6, StatusMoves
<1>8. CallsAreSound'
  BY <1>1, <1>5, <1>7, SameCallsAreSound
<1>9. BatchesShape'
  BY <1>1, <1>2, <1>5, <1>7 DEF BatchesShape
<1> QED
  BY <1>7, <1>8, <1>9 DEF BatchesIInv, RowsKept

(***************************************************************************)
(* No call at all holds nothing.                                           *)
(***************************************************************************)
LEMMA NoCallIsSound ==
  CallShape(NoCall) /\ NoCall.phase = "idle" /\ CallIsSound(NoCall)'
BY DEF CallShape, NoCall, CallIsSound

(***************************************************************************)
(* What refreshRead leaves in the call, and what refreshWrite leaves of    *)
(* the batches.                                                            *)
(***************************************************************************)
LEMMA ReadFacts ==
  ASSUME BatchesIInv, RowsKept, BatchesKept, NEW a \in Actors, NEW b \in Imports,
         batches[b].status # "none", refreshRead(a, b)
  PROVE  \E call : /\ CallShape(call)
                   /\ calls' = [calls EXCEPT ![a] = call]
                   /\ call.phase = "refreshing" /\ call.batch = b /\ call.op = calls[a].op
                   /\ CallIsSound(call)'
<1>1. PICK read : read = [l \in Lines |-> resolved(b, l)]
  OBVIOUS
<1>2. \A l \in Lines : ReadIsSound(b, l, read[l])
  BY <1>1, ResolvedIsSound DEF BatchesIInv, RowsAreSound
<1>3. PICK old : old = calls[a] /\ CallShape(old)
  BY DEF BatchesIInv, BatchesShape, CallShape
<1>4. PICK call : call = [op |-> old.op, phase |-> "refreshing", batch |-> b, line |-> old.line,
                          seen |-> old.seen, read |-> read, done |-> old.done]
  OBVIOUS
<1> DEFINE new == [calls[a] EXCEPT !.phase = "refreshing", !.batch = b, !.read = read]
<1>5. calls' = [calls EXCEPT ![a] = new]
  BY <1>1 DEF refreshRead
<1>6. calls' = [calls EXCEPT ![a] = call]
  <2>1. [old EXCEPT !.phase = "refreshing", !.batch = b, !.read = read] = call
    <3>1. PICK op, phase, batch, line, seen, was, done :
            old = [op |-> op, phase |-> phase, batch |-> batch, line |-> line, seen |-> seen,
                   read |-> was, done |-> done]
      BY <1>3 DEF CallShape
    <3>2. PICK old1 : old1 = [old EXCEPT !.phase = "refreshing"]
      OBVIOUS
    <3>3. old1 = [op |-> op, phase |-> "refreshing", batch |-> batch, line |-> line, seen |-> seen,
                  read |-> was, done |-> done]
      BY <3>1, <3>2
    <3>4. PICK old2 : old2 = [old1 EXCEPT !.batch = b]
      OBVIOUS
    <3>5. old2 = [op |-> op, phase |-> "refreshing", batch |-> b, line |-> line, seen |-> seen,
                  read |-> was, done |-> done]
      BY <3>3, <3>4
    <3>6. [old2 EXCEPT !.read = read] =
            [op |-> op, phase |-> "refreshing", batch |-> b, line |-> line, seen |-> seen,
             read |-> read, done |-> done]
      BY <3>5
    <3>7. [old EXCEPT !.phase = "refreshing", !.batch = b, !.read = read] = [old2 EXCEPT !.read = read]
      BY <3>2, <3>4
    <3> QED
      BY <1>4, <3>1, <3>6, <3>7
  <2>2. new = call
    BY <1>3, <2>1
  <2> HIDE DEF new
  <2> QED
    BY <1>5, <2>2
<1>7. /\ CallShape(call)
      /\ call.phase = "refreshing" /\ call.batch = b /\ call.op = old.op /\ call.read = read
  BY <1>4 DEF CallShape
<1>8. CallIsSound(call)
  BY <1>2, <1>7 DEF CallIsSound
<1>9. CallIsSound(call)'
  BY <1>8, CallKept
<1> QED
  BY <1>3, <1>6, <1>7, <1>9

(***************************************************************************)
(* The counts a refresh writes are not the batch's status.                 *)
(***************************************************************************)
LEMMA WriteFacts ==
  ASSUME BatchesShape, NEW a, calls[a].batch \in Imports, refreshWrite(a)
  PROVE  QuietBatches
<1>1. PICK b \in Imports : b = calls[a].batch
  OBVIOUS
<1>2. PICK counts : counts = aggregate(calls[a].read)
  OBVIOUS
<1>3. batches' = [batches EXCEPT ![b].counts = counts]
  BY <1>1, <1>2 DEF refreshWrite
<1> QED
  BY <1>3 DEF BatchesShape, QuietBatches

(***************************************************************************)
(* The import reads what it will aggregate.                                *)
(***************************************************************************)
LEMMA ImportReadKeepsInv ==
  ASSUME BatchesIInv, RowsKept, NEW i \in Imports, importRefreshRead(i)
  PROVE  BatchesIInv'
<1>1. /\ imports[i].phase = "refresh"
      /\ refreshRead(i, i)
      /\ goTo(i, "refreshing", 0)
      /\ UNCHANGED <<requests, batches, rows, settlements, claims>>
  BY DEF importRefreshRead, At
<1>2. BatchesShape /\ ImportIsSound(i) /\ BatchIsSound(i)
  BY DEF BatchesIInv
<1>3. AllAnswered(i) /\ batches[i].status # "none"
  BY <1>1, <1>2 DEF ImportIsSound, BatchIsSound
<1>4. AllAnswered(i)'
  BY <1>1, <1>2, <1>3, AllAnsweredKept
<1>5. /\ imports'[i] = [phase |-> "refreshing", line |-> 0]
      /\ \A j \in Imports \ {i} : imports'[j] = imports[j]
  BY <1>1, <1>2 DEF goTo, BatchesShape
<1>6. ImportIsSound(i)'
  BY <1>1, <1>2, <1>4, <1>5 DEF ImportIsSound
<1>7. /\ DOMAIN imports' = Imports
      /\ BatchesKept
      /\ \A j \in Imports : ImportIsSound(j)' /\ BatchIsSound(j)'
      /\ ImportedOnce'
  BY <1>1, <1>2, <1>3, <1>6, QuietIsQuiet, OneImportMoves
<1>8. i \in Actors /\ i \notin Callers
  BY BatchesAssumption DEF Actors
<1>9. PICK call : /\ CallShape(call)
                  /\ calls' = [calls EXCEPT ![i] = call]
                  /\ call.phase = "refreshing" /\ call.batch = i
                  /\ CallIsSound(call)'
  BY <1>1, <1>3, <1>7, <1>8, ReadFacts
<1>10. /\ DOMAIN calls' = Actors
       /\ \A x \in Actors : CallShape(calls'[x])
       /\ CallsAreSound'
  BY <1>5, <1>7, <1>8, <1>9, OneCallMoves
<1>11. BatchesShape'
  BY <1>1, <1>2, <1>7, <1>10 DEF BatchesShape, CallShape
<1> QED
  BY <1>7, <1>10, <1>11 DEF BatchesIInv, RowsKept

(***************************************************************************)
(* The import writes its aggregate and is done.                            *)
(***************************************************************************)
LEMMA ImportWriteKeepsInv ==
  ASSUME BatchesIInv, RowsKept, NEW i \in Imports, importRefreshWrite(i)
  PROVE  BatchesIInv'
<1>1. /\ imports[i].phase = "refreshing"
      /\ refreshWrite(i)
      /\ calls' = [calls EXCEPT ![i] = NoCall]
      /\ goTo(i, "created", 0)
      /\ UNCHANGED <<requests, settlements, claims>>
  BY DEF importRefreshWrite, At
<1>2. BatchesShape /\ ImportIsSound(i) /\ BatchIsSound(i) /\ CallsAreSound
  BY DEF BatchesIInv
<1>3. AllAnswered(i) /\ batches[i].status # "none"
  BY <1>1, <1>2 DEF ImportIsSound, BatchIsSound
<1>4. AllAnswered(i)'
  BY <1>1, <1>2, <1>3, AllAnsweredKept
<1>5. /\ imports'[i] = [phase |-> "created", line |-> 0]
      /\ \A j \in Imports \ {i} : imports'[j] = imports[j]
  BY <1>1, <1>2 DEF goTo, BatchesShape
<1>6. ImportIsSound(i)'
  BY <1>1, <1>2, <1>4, <1>5 DEF ImportIsSound
<1>7. QuietBatches
  BY <1>1, <1>2, WriteFacts DEF CallsAreSound
<1>8. /\ DOMAIN imports' = Imports
      /\ BatchesKept
      /\ \A j \in Imports : ImportIsSound(j)' /\ BatchIsSound(j)'
      /\ ImportedOnce'
  BY <1>1, <1>3, <1>6, <1>7, OneImportMoves
<1>9. i \in Actors /\ i \notin Callers
  BY BatchesAssumption DEF Actors
<1>10. /\ DOMAIN calls' = Actors
       /\ \A x \in Actors : CallShape(calls'[x])
       /\ CallsAreSound'
  <2>1. PICK call : call = NoCall
    OBVIOUS
  <2>2. CallShape(call) /\ call.phase = "idle" /\ CallIsSound(call)' /\ calls' = [calls EXCEPT ![i] = call]
    BY <1>1, <2>1, NoCallIsSound DEF CallIsSound
  <2>3. \A j \in Imports : imports'[j].phase = "refreshing" => j # i /\ imports'[j] = imports[j]
    BY <1>5
  <2> QED
    BY <1>8, <1>9, <2>2, <2>3, OneCallMoves
<1>11. BatchesShape'
  BY <1>1, <1>2, <1>7, <1>8, <1>10 DEF BatchesShape, CallShape, QuietBatches
<1> QED
  BY <1>8, <1>10, <1>11 DEF BatchesIInv, RowsKept

(***************************************************************************)
(* A process that dies leaves what its transactions wrote.                 *)
(***************************************************************************)
LEMMA CrashKeepsInv ==
  ASSUME BatchesIInv, RowsKept, NEW i \in Imports, crash(i)
  PROVE  BatchesIInv'
<1>1. /\ imports[i].phase # "idle"
      /\ calls' = [calls EXCEPT ![i] = NoCall]
      /\ goTo(i, "dead", 0)
      /\ UNCHANGED <<requests, batches, rows, settlements, claims>>
  BY DEF crash, Running
<1>2. BatchesShape /\ ImportIsSound(i) /\ BatchIsSound(i)
  BY DEF BatchesIInv
<1>3. batches[i].status = "none" => imports[i].phase # "rows"
  BY <1>2 DEF BatchIsSound
<1>4. /\ imports'[i] = [phase |-> "dead", line |-> 0]
      /\ \A j \in Imports \ {i} : imports'[j] = imports[j]
  BY <1>1, <1>2 DEF goTo, BatchesShape
<1>5. ImportIsSound(i)'
  BY <1>1, <1>2, <1>4 DEF ImportIsSound
<1>6. /\ DOMAIN imports' = Imports
      /\ BatchesKept
      /\ \A j \in Imports : ImportIsSound(j)' /\ BatchIsSound(j)'
      /\ ImportedOnce'
  BY <1>1, <1>2, <1>3, <1>5, QuietIsQuiet, OneImportMoves
<1>7. i \in Actors /\ i \notin Callers
  BY BatchesAssumption DEF Actors
<1>8. /\ DOMAIN calls' = Actors
      /\ \A x \in Actors : CallShape(calls'[x])
      /\ CallsAreSound'
  <2>1. PICK call : call = NoCall
    OBVIOUS
  <2>2. CallShape(call) /\ call.phase = "idle" /\ CallIsSound(call)' /\ calls' = [calls EXCEPT ![i] = call]
    BY <1>1, <2>1, NoCallIsSound DEF CallIsSound
  <2>3. \A j \in Imports : imports'[j].phase = "refreshing" => j # i /\ imports'[j] = imports[j]
    BY <1>4
  <2> QED
    BY <1>6, <1>7, <2>2, <2>3, OneCallMoves
<1>9. BatchesShape'
  BY <1>1, <1>2, <1>6, <1>8 DEF BatchesShape, CallShape
<1> QED
  BY <1>6, <1>8, <1>9 DEF BatchesIInv, RowsKept

-----------------------------------------------------------------------------
(* The steps of authorizeBatch and closeBatch *)

LEMMA CallUpdates ==
  ASSUME NEW call, CallShape(call), NEW v
  PROVE  /\ [call EXCEPT !.op = v] =
              [op |-> v, phase |-> call.phase, batch |-> call.batch, line |-> call.line,
               seen |-> call.seen, read |-> call.read, done |-> call.done]
         /\ [call EXCEPT !.batch = v] =
              [op |-> call.op, phase |-> call.phase, batch |-> v, line |-> call.line,
               seen |-> call.seen, read |-> call.read, done |-> call.done]
         /\ [call EXCEPT !.phase = v] =
              [op |-> call.op, phase |-> v, batch |-> call.batch, line |-> call.line,
               seen |-> call.seen, read |-> call.read, done |-> call.done]
         /\ [call EXCEPT !.line = v] =
              [op |-> call.op, phase |-> call.phase, batch |-> call.batch, line |-> v,
               seen |-> call.seen, read |-> call.read, done |-> call.done]
         /\ [call EXCEPT !.seen = v] =
              [op |-> call.op, phase |-> call.phase, batch |-> call.batch, line |-> call.line,
               seen |-> v, read |-> call.read, done |-> call.done]
         /\ [call EXCEPT !.read = v] =
              [op |-> call.op, phase |-> call.phase, batch |-> call.batch, line |-> call.line,
               seen |-> call.seen, read |-> v, done |-> call.done]
         /\ [call EXCEPT !.done = v] =
              [op |-> call.op, phase |-> call.phase, batch |-> call.batch, line |-> call.line,
               seen |-> call.seen, read |-> call.read, done |-> v]
BY DEF CallShape

(***************************************************************************)
(* An authorization or a close begins.                                     *)
(***************************************************************************)
LEMMA AuthorizeKeepsInv ==
  ASSUME BatchesIInv, RowsKept, NEW c \in Callers, NEW b \in Imports,
         authorizeBatch(c, b) \/ closeBatch(c, b)
  PROVE  BatchesIInv'
<1>1. PICK op \in {"authorize", "close"}, phase \in {"rows", "refresh"}, line \in {0, 1} :
        /\ calls' = [calls EXCEPT ![c] =
             [op |-> op, phase |-> phase, batch |-> b, line |-> line, seen |-> "none",
              read |-> << >>, done |-> 0]]
        /\ phase = "rows" => op = "authorize"
        /\ batches[b].status # "none"
        /\ UNCHANGED <<requests, imports, batches, claims>>
  <2>1. CASE authorizeBatch(c, b)
    <3>1. [NoCall EXCEPT !.op = "authorize", !.phase = "rows", !.batch = b, !.line = 1] =
            [op |-> "authorize", phase |-> "rows", batch |-> b, line |-> 1, seen |-> "none",
             read |-> << >>, done |-> 0]
      <4>1. PICK call1 : call1 = [NoCall EXCEPT !.op = "authorize"]
        OBVIOUS
      <4>2. PICK call2 : call2 = [call1 EXCEPT !.phase = "rows"]
        OBVIOUS
      <4>3. PICK call3 : call3 = [call2 EXCEPT !.batch = b]
        OBVIOUS
      <4>4. call1 = [op |-> "authorize", phase |-> "idle", batch |-> NONE, line |-> 0,
                     seen |-> "none", read |-> << >>, done |-> 0]
        BY <4>1 DEF NoCall
      <4>5. call2 = [op |-> "authorize", phase |-> "rows", batch |-> NONE, line |-> 0,
                     seen |-> "none", read |-> << >>, done |-> 0]
        BY <4>2, <4>4
      <4>6. call3 = [op |-> "authorize", phase |-> "rows", batch |-> b, line |-> 0,
                     seen |-> "none", read |-> << >>, done |-> 0]
        BY <4>3, <4>5
      <4>7. [call3 EXCEPT !.line = 1] =
              [op |-> "authorize", phase |-> "rows", batch |-> b, line |-> 1, seen |-> "none",
               read |-> << >>, done |-> 0]
        BY <4>6
      <4> QED
        BY <4>1, <4>2, <4>3, <4>7
    <3> QED
      BY <2>1, <3>1 DEF authorizeBatch
  <2>2. CASE closeBatch(c, b)
    <3>1. [NoCall EXCEPT !.op = "close", !.phase = "refresh", !.batch = b] =
            [op |-> "close", phase |-> "refresh", batch |-> b, line |-> 0, seen |-> "none",
             read |-> << >>, done |-> 0]
      <4>1. PICK call1 : call1 = [NoCall EXCEPT !.op = "close"]
        OBVIOUS
      <4>2. PICK call2 : call2 = [call1 EXCEPT !.phase = "refresh"]
        OBVIOUS
      <4>3. call1 = [op |-> "close", phase |-> "idle", batch |-> NONE, line |-> 0,
                     seen |-> "none", read |-> << >>, done |-> 0]
        BY <4>1 DEF NoCall
      <4>4. call2 = [op |-> "close", phase |-> "refresh", batch |-> NONE, line |-> 0,
                     seen |-> "none", read |-> << >>, done |-> 0]
        BY <4>2, <4>3
      <4>5. [call2 EXCEPT !.batch = b] =
              [op |-> "close", phase |-> "refresh", batch |-> b, line |-> 0, seen |-> "none",
               read |-> << >>, done |-> 0]
        BY <4>4
      <4> QED
        BY <4>1, <4>2, <4>5
    <3> QED
      BY <2>2, <3>1 DEF closeBatch
  <2> QED
    BY <2>1, <2>2
<1>2. PICK call : call = [op |-> op, phase |-> phase, batch |-> b, line |-> line, seen |-> "none",
                          read |-> << >>, done |-> 0]
  OBVIOUS
<1>3. CallShape(call) /\ CallIsSound(call)'
  BY <1>1, <1>2 DEF CallShape, CallIsSound
<1>4. QuietBatches
  BY <1>1, QuietIsQuiet DEF BatchesIInv
<1> QED
  BY <1>1, <1>2, <1>3, <1>4, CallerStep

(***************************************************************************)
(* An authorization authorizes the settlement of one line, or passes it    *)
(* over.                                                                   *)
(***************************************************************************)
LEMMA AuthorizeRowKeepsInv ==
  ASSUME BatchesIInv, RowsKept, NEW c \in Callers, NEW agrees \in BOOLEAN, authorizeRow(c, agrees)
  PROVE  BatchesIInv'
<1>1. PICK old : old = calls[c] /\ CallShape(old)
  BY DEF BatchesIInv, BatchesShape, CallShape, Actors
<1> DEFINE next0 == Next_(calls[c].batch, calls[c].line)
           ok == agrees /\ settlements[calls[c].batch][calls[c].line] = "READY"
           done0 == IF ok THEN calls[c].done + 1 ELSE calls[c].done
           phase0 == IF next0 = 0 THEN "begin" ELSE "rows"
           new0 == [calls[c] EXCEPT !.done = done0, !.line = next0, !.phase = phase0]
<1>2. /\ calls' = [calls EXCEPT ![c] = new0]
      /\ calls[c].phase = "rows"
      /\ UNCHANGED <<requests, imports, batches, claims>>
  BY DEF authorizeRow
<1>3. phase0 \in {"begin", "rows"}
  OBVIOUS
<1> HIDE DEF next0, ok, done0, phase0
<1>4. PICK done : done = done0
  OBVIOUS
<1>5. PICK line : line = next0
  OBVIOUS
<1>6. PICK phase \in {"begin", "rows"} : phase = phase0
  BY <1>3
<1>7. new0 = [old EXCEPT !.done = done, !.line = line, !.phase = phase]
  BY <1>1, <1>4, <1>5, <1>6
<1> HIDE DEF new0
<1>8. PICK call1 : call1 = [old EXCEPT !.done = done]
  OBVIOUS
<1>9. PICK call2 : call2 = [call1 EXCEPT !.line = line]
  OBVIOUS
<1>10. PICK call : call = [call2 EXCEPT !.phase = phase]
  OBVIOUS
<1>11. CallShape(call1) /\ call1.op = old.op /\ call1.batch = old.batch
  BY <1>1, <1>8, CallUpdates DEF CallShape
<1>12. CallShape(call2) /\ call2.op = old.op /\ call2.batch = old.batch
  BY <1>9, <1>11, CallUpdates DEF CallShape
<1>13. CallShape(call) /\ call.op = old.op /\ call.batch = old.batch /\ call.phase = phase
  BY <1>10, <1>12, CallUpdates DEF CallShape
<1>14. calls' = [calls EXCEPT ![c] = call]
  <2>1. new0 = call
    BY <1>7, <1>8, <1>9, <1>10
  <2> QED
    BY <1>2, <2>1
<1>15. CallIsSound(old)
  BY <1>1 DEF BatchesIInv, CallsAreSound, Actors
<1>16. old.op = "authorize" /\ old.batch \in Imports /\ batches[old.batch].status # "none"
  BY <1>1, <1>2, <1>15 DEF CallIsSound
<1>17. CallIsSound(call)'
  BY <1>2, <1>13, <1>16 DEF CallIsSound
<1>18. QuietBatches
  BY <1>2, QuietIsQuiet DEF BatchesIInv
<1> QED
  BY <1>2, <1>13, <1>14, <1>16, <1>17, <1>18, CallerStep

(***************************************************************************)
(* A call that goes to another phase, and changes nothing else.            *)
(***************************************************************************)
LEMMA PhaseOfCall ==
  ASSUME BatchesIInv, NEW c \in Callers, NEW phase
  PROVE  \E call : /\ CallShape(call)
                   /\ call.phase = phase /\ call.op = calls[c].op /\ call.batch = calls[c].batch
                   /\ call.seen = calls[c].seen /\ call.read = calls[c].read
                   /\ [calls[c] EXCEPT !.phase = phase] = call
<1>1. PICK old : old = calls[c] /\ CallShape(old)
  BY DEF BatchesIInv, BatchesShape, CallShape, Actors
<1>2. PICK call : call = [old EXCEPT !.phase = phase]
  OBVIOUS
<1>3. call = [op |-> old.op, phase |-> phase, batch |-> old.batch, line |-> old.line,
              seen |-> old.seen, read |-> old.read, done |-> old.done]
  BY <1>1, <1>2, CallUpdates
<1>4. /\ CallShape(call)
      /\ call.phase = phase /\ call.op = old.op /\ call.batch = old.batch
      /\ call.seen = old.seen /\ call.read = old.read
  BY <1>3 DEF CallShape
<1> QED
  BY <1>1, <1>2, <1>4

(***************************************************************************)
(* The batch begins to execute, unless another call began it.              *)
(***************************************************************************)
LEMMA AuthorizedRowsKeepsInv ==
  ASSUME BatchesIInv, RowsKept, NEW c \in Callers, authorizedRows(c)
  PROVE  BatchesIInv'
<1>1. /\ calls[c].op = "authorize" /\ calls[c].phase = "begin"
      /\ \/ advanceBatch(calls[c].batch, "begin_execution")
         \/ UNCHANGED batches
      /\ calls' = [calls EXCEPT ![c].phase = "refresh"]
      /\ UNCHANGED <<requests, imports, claims>>
  BY DEF authorizedRows
<1>2. PICK call : /\ CallShape(call)
                  /\ call.phase = "refresh" /\ call.op = "authorize" /\ call.batch = calls[c].batch
                  /\ calls' = [calls EXCEPT ![c] = call]
  <2>1. PICK call : /\ CallShape(call)
                    /\ call.phase = "refresh" /\ call.op = calls[c].op /\ call.batch = calls[c].batch
                    /\ [calls[c] EXCEPT !.phase = "refresh"] = call
    BY PhaseOfCall
  <2>2. calls' = [calls EXCEPT ![c] = call]
    BY <1>1, <2>1
  <2> QED
    BY <1>1, <2>1, <2>2
<1>3. CallIsSound(calls[c])
  BY DEF BatchesIInv, CallsAreSound, Actors
<1>4. PICK b \in Imports : b = calls[c].batch /\ batches[b].status # "none"
  BY <1>1, <1>3 DEF CallIsSound
<1>5. BatchesKept => CallIsSound(call)'
  BY <1>2, <1>4 DEF CallIsSound, BatchesKept
<1>6. CASE advanceBatch(b, "begin_execution")
  BY <1>1, <1>2, <1>5, <1>6, CallerAdvances
<1>7. CASE UNCHANGED batches
  <2>1. QuietBatches
    BY <1>7, QuietIsQuiet DEF BatchesIInv
  <2>2. BatchesKept
    BY <1>1, <1>7 DEF BatchesKept
  <2> QED
    BY <1>1, <1>2, <1>5, <2>1, <2>2, CallerStep
<1> QED
  BY <1>1, <1>4, <1>6, <1>7

(***************************************************************************)
(* A call reads what it will aggregate.                                    *)
(***************************************************************************)
LEMMA CallReadKeepsInv ==
  ASSUME BatchesIInv, RowsKept, NEW c \in Callers, callRefreshRead(c)
  PROVE  BatchesIInv'
<1>1. /\ calls[c].phase = "refresh"
      /\ refreshRead(c, calls[c].batch)
      /\ UNCHANGED <<requests, imports, batches, claims>>
  BY DEF callRefreshRead
<1>2. c \in Actors /\ CallsAreSound /\ BatchesShape
  BY DEF BatchesIInv, Actors
<1>3. PICK b \in Imports : b = calls[c].batch /\ batches[b].status # "none"
  BY <1>1, <1>2 DEF CallsAreSound, CallIsSound
<1>4. refreshRead(c, b)
  BY <1>1, <1>3
<1>5. QuietBatches /\ BatchesKept
  BY <1>1, <1>2, QuietIsQuiet DEF BatchesKept
<1>6. PICK call : /\ CallShape(call)
                  /\ calls' = [calls EXCEPT ![c] = call]
                  /\ call.phase = "refreshing" /\ call.batch = b /\ call.op = calls[c].op
                  /\ CallIsSound(call)'
  BY <1>2, <1>3, <1>4, <1>5, ReadFacts
<1>7. call.op \in {"authorize", "close"}
  BY <1>1, <1>2, <1>6 DEF CallsAreSound
<1> QED
  BY <1>1, <1>5, <1>6, <1>7, CallerStep

(***************************************************************************)
(* A call writes its aggregate, and an authorization ends with that.       *)
(***************************************************************************)
LEMMA CallWriteKeepsInv ==
  ASSUME BatchesIInv, RowsKept, NEW c \in Callers, callRefreshWrite(c)
  PROVE  BatchesIInv'
<1> DEFINE status == batches[calls[c].batch].status
<1>1. /\ calls[c].phase = "refreshing"
      /\ refreshWrite(c)
      /\ calls' = [calls EXCEPT ![c] =
           IF calls[c].op = "authorize" THEN NoCall
           ELSE [calls[c] EXCEPT !.phase = "decide", !.read = << >>, !.seen = status]]
      /\ UNCHANGED <<requests, imports, claims>>
  BY DEF callRefreshWrite
<1>2. c \in Actors /\ CallsAreSound /\ BatchesShape
  BY DEF BatchesIInv, Actors
<1>3. PICK b \in Imports : b = calls[c].batch /\ batches[b].status # "none"
  BY <1>1, <1>2 DEF CallsAreSound, CallIsSound
<1>4. QuietBatches
  BY <1>1, <1>2, <1>3, WriteFacts
<1>5. BatchesKept
  BY <1>1, <1>4 DEF QuietBatches, BatchesKept
<1>6. CASE calls[c].op = "authorize"
  <2>1. PICK call : call = NoCall
    OBVIOUS
  <2>2. CallShape(call) /\ call.phase = "idle" /\ CallIsSound(call)' /\ calls' = [calls EXCEPT ![c] = call]
    BY <1>1, <1>6, <2>1, NoCallIsSound DEF CallIsSound
  <2> QED
    BY <1>1, <1>4, <2>2, CallerStep
<1>7. CASE calls[c].op # "authorize"
  <2>1. PICK old : old = calls[c] /\ CallShape(old)
    BY <1>2 DEF BatchesShape, CallShape
  <2>2. PICK seen : seen = status
    OBVIOUS
  <2> DEFINE new == [calls[c] EXCEPT !.phase = "decide", !.read = << >>, !.seen = status]
  <2>3. calls' = [calls EXCEPT ![c] = new]
    BY <1>1, <1>7
  <2> HIDE DEF status
  <2>4. new = [old EXCEPT !.phase = "decide", !.read = << >>, !.seen = seen]
    BY <2>1, <2>2
  <2> HIDE DEF new
  <2>5. PICK call1 : call1 = [old EXCEPT !.phase = "decide"]
    OBVIOUS
  <2>6. PICK call2 : call2 = [call1 EXCEPT !.read = << >>]
    OBVIOUS
  <2>7. PICK call : call = [call2 EXCEPT !.seen = seen]
    OBVIOUS
  <2>8. CallShape(call1) /\ call1.phase = "decide" /\ call1.op = old.op /\ call1.batch = old.batch
    BY <2>1, <2>5, CallUpdates DEF CallShape
  <2>9. CallShape(call2) /\ call2.phase = "decide" /\ call2.op = old.op /\ call2.batch = old.batch
    BY <2>6, <2>8, CallUpdates DEF CallShape
  <2>10. /\ CallShape(call) /\ call.phase = "decide" /\ call.op = old.op /\ call.batch = old.batch
         /\ call.seen = seen
    BY <2>7, <2>9, CallUpdates DEF CallShape
  <2>11. new = call
    BY <2>4, <2>5, <2>6, <2>7
  <2>12. calls' = [calls EXCEPT ![c] = call]
    BY <2>3, <2>11
  <2>13. call.op = "close" /\ call.batch = b
    BY <1>1, <1>2, <1>3, <1>7, <2>1, <2>10 DEF CallsAreSound
  <2>14. ImportIsSound(b) /\ BatchIsSound(b)
    BY DEF BatchesIInv
  <2>15. seen = batches[b].status
    BY <1>3, <2>2 DEF status
  <2>16. seen # "VALIDATING" => AllAnswered(b)
    BY <1>3, <2>14, <2>15 DEF BatchIsSound
  <2>17. AllAnswered(b) => AllAnswered(b)'
    BY <1>1, <1>3, <2>14, AllAnsweredKept
  <2>18. CallIsSound(call)'
    BY <1>3, <1>5, <2>10, <2>13, <2>16, <2>17 DEF CallIsSound, BatchesKept
  <2> QED
    BY <1>1, <1>4, <2>10, <2>12, <2>13, <2>18, CallerStep
<1> QED
  BY <1>6, <1>7

(***************************************************************************)
(* What terminalOutcome says of rows that are all answered.                *)
(***************************************************************************)
LEMMA OutcomeIsOver ==
  ASSUME BatchesIInv, NEW b \in Imports, batches[b].status # "none", AllAnswered(b),
         NEW trigger, trigger = terminalOutcome(rows[b]), trigger # NONE
  PROVE  \A l \in 1..Len(requests[b].file) : LineIsOver(b, l, trigger)
<1>1. ImportIsSound(b) /\ BatchIsSound(b) /\ RowsShape /\ RowsAreSound
  BY DEF BatchesIInv
<1>2. 1..Len(requests[b].file) \subseteq Lines
  BY <1>1, FileOfBatch
<1> SUFFICES ASSUME NEW l \in 1..Len(requests[b].file)
             PROVE  LineIsOver(b, l, trigger)
  OBVIOUS
<1>3. l \in Lines /\ rows[b][l] # "none" /\ DOMAIN rows[b] = Lines /\ RowIsSound(b, l)
  BY <1>1, <1>2 DEF AllAnswered, LineAnswered, RowsShape, RowsAreSound
<1>4. l \in Recorded(rows[b])
  BY <1>3 DEF Recorded
<1>5. isResolvedOutcome(rows[b][l])
  BY <1>4 DEF terminalOutcome
<1>6. CASE rows[b][l] = "INVALID"
  <2>1. needsAttention(rows[b][l])
    BY <1>6 DEF needsAttention
  <2>2. trigger = "some_rows_unresolved"
    BY <1>4, <2>1 DEF terminalOutcome
  <2> QED
    BY <1>3, <1>6, <2>2 DEF RowIsSound, LineIsOver
<1>7. CASE rows[b][l] # "INVALID"
  BY <1>3, <1>5, <1>7 DEF isResolvedOutcome, RowIsSound, LineIsOver, Terminal
<1> QED
  BY <1>6, <1>7

(***************************************************************************)
(* A close decides from what it read whether the batch is complete, and    *)
(* how.                                                                    *)
(***************************************************************************)
LEMMA DecideKeepsInv ==
  ASSUME BatchesIInv, RowsKept, NEW c \in Callers, decide(c)
  PROVE  BatchesIInv'
<1>1. PICK old : old = calls[c] /\ CallShape(old)
  BY DEF BatchesIInv, BatchesShape, CallShape, Actors
<1>2. c \in Actors /\ CallIsSound(old)
  BY <1>1 DEF BatchesIInv, CallsAreSound, Actors
<1>3. /\ old.phase = "decide"
      /\ UNCHANGED <<requests, imports, batches, claims>>
  BY <1>1 DEF decide
<1>4. PICK b \in Imports : b = old.batch /\ batches[b].status # "none"
  BY <1>2, <1>3 DEF CallIsSound
<1>5. PICK trigger : trigger = terminalOutcome(rows[b])
  OBVIOUS
<1>6. calls' = [calls EXCEPT ![c] =
        IF trigger = NONE THEN NoCall
        ELSE [calls[c] EXCEPT !.phase = IF calls[c].seen = "READY" THEN "begin" ELSE "finish",
                              !.read = <<trigger>>]]
  BY <1>1, <1>4, <1>5 DEF decide
<1>7. QuietBatches /\ BatchesKept
  BY <1>3, QuietIsQuiet DEF BatchesIInv, BatchesKept
<1>8. CASE trigger = NONE
  <2>1. PICK call : call = NoCall
    OBVIOUS
  <2>2. CallShape(call) /\ call.phase = "idle" /\ CallIsSound(call)' /\ calls' = [calls EXCEPT ![c] = call]
    BY <1>6, <1>8, <2>1, NoCallIsSound DEF CallIsSound
  <2> QED
    BY <1>3, <1>7, <2>2, CallerStep
<1>9. CASE trigger # NONE
  <2> DEFINE phase0 == IF calls[c].seen = "READY" THEN "begin" ELSE "finish"
             new == [calls[c] EXCEPT !.phase = phase0, !.read = <<trigger>>]
  <2>1. calls' = [calls EXCEPT ![c] = new]
    BY <1>6, <1>9
  <2>2. PICK phase \in {"begin", "finish"} : phase = phase0
    OBVIOUS
  <2> HIDE DEF phase0
  <2>3. new = [old EXCEPT !.phase = phase, !.read = <<trigger>>]
    BY <1>1, <2>2
  <2> HIDE DEF new
  <2>4. PICK call1 : call1 = [old EXCEPT !.phase = phase]
    OBVIOUS
  <2>5. PICK call : call = [call1 EXCEPT !.read = <<trigger>>]
    OBVIOUS
  <2>6. CallShape(call1) /\ call1.phase = phase /\ call1.op = old.op /\ call1.batch = old.batch
        /\ call1.seen = old.seen
    BY <1>1, <2>4, CallUpdates DEF CallShape
  <2>7. CallShape(call) /\ call.phase = phase /\ call.op = old.op /\ call.batch = old.batch
        /\ call.seen = old.seen /\ call.read[1] = trigger
    BY <2>5, <2>6, CallUpdates DEF CallShape
  <2>8. calls' = [calls EXCEPT ![c] = call]
    <3>1. new = call
      BY <2>3, <2>4, <2>5
    <3> QED
      BY <2>1, <3>1
  <2>9. call.op = "close" /\ call.batch = b
    BY <1>2, <1>3, <1>4, <2>7 DEF CallIsSound
  <2>10. trigger \in {"all_rows_resolved", "some_rows_unresolved"}
    BY <1>5, <1>9 DEF terminalOutcome
  <2>11. call.seen # "VALIDATING" => AllAnswered(b)
    BY <1>2, <1>3, <1>4, <2>7 DEF CallIsSound
  <2>12. call.seen # "VALIDATING" =>
           \A l \in 1..Len(requests[b].file) : LineIsOver(b, l, trigger)
    BY <1>4, <1>5, <1>9, <2>11, OutcomeIsOver
  <2>13. CallIsSound(call)
    BY <1>4, <2>7, <2>9, <2>10, <2>12 DEF CallIsSound
  <2>14. CallIsSound(call)'
    BY <1>7, <2>13, CallKept
  <2> QED
    BY <1>3, <1>7, <2>7, <2>8, <2>9, <2>14, CallerStep
<1> QED
  BY <1>8, <1>9

(***************************************************************************)
(* A close of a batch that never executed executes it first.               *)
(***************************************************************************)
LEMMA CloseBeginsKeepsInv ==
  ASSUME BatchesIInv, RowsKept, NEW c \in Callers, closeBegins(c)
  PROVE  BatchesIInv'
<1>1. /\ calls[c].op = "close" /\ calls[c].phase = "begin"
      /\ advanceBatch(calls[c].batch, "begin_execution")
      /\ calls' = [calls EXCEPT ![c] =
           IF Evaluated(calls[c].batch, "begin_execution") = {} THEN NoCall
           ELSE [calls[c] EXCEPT !.phase = "finish"]]
      /\ UNCHANGED <<requests, imports, claims>>
  BY DEF closeBegins
<1>2. c \in Actors /\ CallIsSound(calls[c])
  BY DEF BatchesIInv, CallsAreSound, Actors
<1>3. PICK b \in Imports : b = calls[c].batch /\ batches[b].status # "none"
  BY <1>1, <1>2 DEF CallIsSound
<1>4. advanceBatch(b, "begin_execution")
  BY <1>1, <1>3
<1>5. CASE Evaluated(calls[c].batch, "begin_execution") = {}
  <2>1. PICK call : call = NoCall
    OBVIOUS
  <2>2. CallShape(call) /\ call.phase = "idle" /\ CallIsSound(call)' /\ calls' = [calls EXCEPT ![c] = call]
    BY <1>1, <1>5, <2>1, NoCallIsSound DEF CallIsSound
  <2> QED
    BY <1>1, <1>4, <2>2, CallerAdvances
<1>6. CASE Evaluated(calls[c].batch, "begin_execution") # {}
  <2>1. PICK call : /\ CallShape(call)
                    /\ call.phase = "finish" /\ call.op = calls[c].op /\ call.batch = calls[c].batch
                    /\ call.seen = calls[c].seen /\ call.read = calls[c].read
                    /\ [calls[c] EXCEPT !.phase = "finish"] = call
    BY PhaseOfCall
  <2>2. calls' = [calls EXCEPT ![c] = call]
    <3> DEFINE new == [calls[c] EXCEPT !.phase = "finish"]
    <3>1. calls' = [calls EXCEPT ![c] = new]
      BY <1>1, <1>6
    <3>2. new = call
      BY <2>1
    <3> HIDE DEF new
    <3> QED
      BY <3>1, <3>2
  <2>3. CallIsSound(call)
    BY <1>1, <1>2, <2>1 DEF CallIsSound
  <2>4. BatchesKept => CallIsSound(call)'
    BY <2>3, CallKept
  <2> QED
    BY <1>1, <1>4, <2>1, <2>2, <2>4, CallerAdvances
<1> QED
  BY <1>5, <1>6

(***************************************************************************)
(* A close completes the batch as it decided.                              *)
(***************************************************************************)
LEMMA CloseFinishesKeepsInv ==
  ASSUME BatchesIInv, RowsKept, NEW c \in Callers, closeFinishes(c)
  PROVE  BatchesIInv'
<1>1. /\ calls[c].phase = "finish"
      /\ advanceBatch(calls[c].batch, calls[c].read[1])
      /\ calls' = [calls EXCEPT ![c] = NoCall]
      /\ UNCHANGED <<requests, imports, claims>>
  BY DEF closeFinishes
<1>2. c \in Actors /\ CallIsSound(calls[c])
  BY DEF BatchesIInv, CallsAreSound, Actors
<1>3. PICK b \in Imports : b = calls[c].batch /\ batches[b].status # "none"
  BY <1>1, <1>2 DEF CallIsSound
<1>4. PICK trigger \in {"all_rows_resolved", "some_rows_unresolved"} : trigger = calls[c].read[1]
  BY <1>1, <1>2 DEF CallIsSound
<1>5. advanceBatch(b, trigger)
  BY <1>1, <1>3, <1>4
<1>6. PICK call : call = NoCall
  OBVIOUS
<1>7. CallShape(call) /\ call.phase = "idle" /\ CallIsSound(call)' /\ calls' = [calls EXCEPT ![c] = call]
  BY <1>1, <1>6, NoCallIsSound DEF CallIsSound
<1> QED
  BY <1>1, <1>5, <1>7, CallerAdvances

(***************************************************************************)
(* A settlement that moves by itself, and a step that changes nothing.     *)
(***************************************************************************)
LEMMA OthersKeepInv ==
  ASSUME BatchesIInv, RowsKept, UNCHANGED <<requests, imports, batches, claims, calls>>
  PROVE  BatchesIInv'
<1>1. QuietBatches
  BY QuietIsQuiet DEF BatchesIInv
<1>2. /\ BatchesKept
      /\ \A i \in Imports : ImportIsSound(i)' /\ BatchIsSound(i)'
      /\ ImportedOnce'
  BY <1>1, QuietStep
<1>3. CallsAreSound'
  BY <1>2, SameCallsAreSound
<1>4. BatchesShape'
  BY DEF BatchesIInv, BatchesShape
<1> QED
  BY <1>2, <1>3, <1>4 DEF BatchesIInv, RowsKept

-----------------------------------------------------------------------------
(* The invariant *)

LEMMA InitIsSound ==
  BatchesInit => BatchesIInv
<1> SUFFICES ASSUME BatchesInit PROVE BatchesIInv
  OBVIOUS
<1>1. BatchesShape
  BY DEF BatchesInit, BatchesShape, NoBatch, NoCall
<1>2. RowsShape
  BY DEF BatchesInit, RowsShape, Outcomes, SettlementStatuses
<1>3. RowsAreSound
  BY DEF BatchesInit, RowsAreSound, RowIsSound, Terminal
<1>4. ASSUME NEW i \in Imports PROVE ImportIsSound(i) /\ BatchIsSound(i)
  BY DEF BatchesInit, ImportIsSound, BatchIsSound, NoBatch
<1>5. CallsAreSound
  BY DEF BatchesInit, CallsAreSound, CallIsSound, NoCall, Actors
<1>6. ImportedOnce
  BY DEF BatchesInit, ImportedOnce, NoBatch
<1> QED
  BY <1>1, <1>2, <1>3, <1>4, <1>5, <1>6 DEF BatchesIInv

(***************************************************************************)
(* Every step keeps it.                                                    *)
(***************************************************************************)
LEMMA NextKeepsInv ==
  ASSUME BatchesIInv, [BatchesNext]_batchVars
  PROVE  BatchesIInv'
<1>0. RowsKept
  BY StepKeepsRows
<1>1. ASSUME NEW i \in Imports, NEW file \in Files, NEW key \in Keys \cup {NONE},
             createBatchHandler(i, file, key)
      PROVE  BatchesIInv'
  BY <1>0, <1>1, CreateKeepsInv
<1>2. ASSUME NEW i \in Imports, lookup(i) PROVE BatchesIInv'
  <2>1. PICK phase \in {"replayed", "container"} :
          phase = IF batchOf(requests[i].file) # {} THEN "replayed" ELSE "container"
    OBVIOUS
  <2>2. /\ imports[i].phase = "lookup" /\ goTo(i, phase, 0)
        /\ UNCHANGED <<requests, batches, claims, calls>>
    BY <1>2, <2>1 DEF lookup, At
  <2> QED
    BY <1>0, <2>2, LookupKeepsInv
<1>3. ASSUME NEW i \in Imports, container(i) PROVE BatchesIInv'
  <2>1. imports[i].phase = "container" /\ UNCHANGED <<requests, calls>>
    BY <1>3 DEF container, At
  <2>2. CASE ~taken(i)
    BY <1>0, <1>3, <2>1, <2>2, ContainerKeepsInv DEF container
  <2>3. CASE taken(i)
    <3>1. PICK phase \in {"replayed", "refused"} :
            phase = IF batchOf(requests[i].file) # {} THEN "replayed" ELSE "refused"
      OBVIOUS
    <3>2. goTo(i, phase, 0) /\ UNCHANGED <<batches, claims>>
      BY <1>3, <2>3, <3>1 DEF container
    <3> QED
      BY <1>0, <2>1, <3>2, LookupKeepsInv
  <2> QED
    BY <2>2, <2>3
<1>4. ASSUME NEW i \in Imports,
             \/ \E creates \in BOOLEAN : importRow(i, creates)
             \/ \E verdict \in {"READY", "ACTION_REQUIRED", "DRAFT"} : preflightRow(i, verdict)
             \/ validated(i) \/ importRefreshRead(i) \/ importRefreshWrite(i) \/ crash(i)
      PROVE  BatchesIInv'
  BY <1>0, <1>4, ImportRowKeepsInv, PreflightKeepsInv, ValidatedKeepsInv, ImportReadKeepsInv,
     ImportWriteKeepsInv, CrashKeepsInv
<1>5. ASSUME NEW c \in Callers,
             \/ \E b \in Imports : authorizeBatch(c, b) \/ closeBatch(c, b)
             \/ \E agrees \in BOOLEAN : authorizeRow(c, agrees)
             \/ authorizedRows(c) \/ callRefreshRead(c) \/ callRefreshWrite(c)
             \/ decide(c) \/ closeBegins(c) \/ closeFinishes(c)
      PROVE  BatchesIInv'
  BY <1>0, <1>5, AuthorizeKeepsInv, AuthorizeRowKeepsInv, AuthorizedRowsKeepsInv, CallReadKeepsInv,
     CallWriteKeepsInv, DecideKeepsInv, CloseBeginsKeepsInv, CloseFinishesKeepsInv
<1>6. CASE \/ \E b \in Imports, l \in Lines : settlementMoves(b, l)
           \/ UNCHANGED batchVars
  <2>1. UNCHANGED <<requests, imports, batches, claims, calls>>
    BY <1>6 DEF settlementMoves, batchVars
  <2> QED
    BY <1>0, <2>1, OthersKeepInv
<1> QED
  BY <1>1, <1>2, <1>3, <1>4, <1>5, <1>6, Zenon DEF BatchesNext, Importing, Calling

(***************************************************************************)
(* What the runs check of the import follows from the invariant.           *)
(***************************************************************************)
LEMMA InvIsExact ==
  BatchesIInv => ImportIsExact
<1> SUFFICES ASSUME BatchesIInv PROVE ImportIsExact
  OBVIOUS
<1>1. BatchesTypeOK
  BY DEF BatchesIInv, BatchesTypeOK, BatchesShape, BatchIsSound, RowsShape, Outcomes, RowsAreSound,
     RowIsSound
<1>2. EveryRowIsAnswered
  <2> SUFFICES ASSUME NEW i \in Imports, batches[i].status \notin {"none", "VALIDATING"},
                      NEW l \in 1..Len(requests[i].file)
               PROVE  /\ rows[i][l] # "none"
                      /\ requests[i].file[l].instr # VALID => rows[i][l] = "INVALID"
    BY DEF EveryRowIsAnswered
  <2>1. ImportIsSound(i) /\ BatchIsSound(i) /\ RowsAreSound
    BY DEF BatchesIInv
  <2>2. LineAnswered(i, l) /\ l \in Lines
    BY <2>1, FileOfBatch DEF BatchIsSound, AllAnswered
  <2> QED
    BY <2>1, <2>2 DEF LineAnswered, RowsAreSound, RowIsSound
<1>3. ImportedOnce
  BY DEF BatchesIInv
<1> QED
  BY <1>1, <1>2, <1>3 DEF ImportIsExact

(***************************************************************************)
(* A call is at its last step until it takes it itself.                    *)
(***************************************************************************)
LEMMA FinishIsItsOwn ==
  ASSUME BatchesIInv, [BatchesNext]_batchVars, NEW c \in Callers,
         calls[c].phase = "finish", calls'[c].phase = "idle"
  PROVE  closeFinishes(c)
<1>1. c \notin Imports /\ DOMAIN calls = Actors /\ calls[c].op = "close"
  BY BatchesAssumption DEF BatchesIInv, BatchesShape, CallsAreSound, CallIsSound, Actors
<1>2. ASSUME NEW i \in Imports,
             importRefreshRead(i) \/ importRefreshWrite(i) \/ crash(i)
      PROVE  FALSE
  <2>1. i # c
    BY <1>1
  <2>2. ASSUME importRefreshRead(i) PROVE calls'[c] = calls[c]
    <3> DEFINE read == [l \in Lines |-> resolved(i, l)]
               new == [calls[i] EXCEPT !.phase = "refreshing", !.batch = i, !.read = read]
    <3>1. calls' = [calls EXCEPT ![i] = new]
      BY <2>2 DEF importRefreshRead, refreshRead
    <3> HIDE DEF new
    <3> QED
      BY <1>1, <2>1, <3>1
  <2>3. ASSUME importRefreshWrite(i) PROVE calls'[c] = calls[c]
    BY <1>1, <2>1, <2>3 DEF importRefreshWrite
  <2>4. ASSUME crash(i) PROVE calls'[c] = calls[c]
    BY <1>1, <2>1, <2>4 DEF crash
  <2> QED
    BY <1>2, <2>2, <2>3, <2>4
<1>3. CASE UNCHANGED calls
  BY <1>3
<1>4. ASSUME NEW d \in Callers, NEW b \in Imports, NEW agrees \in BOOLEAN,
             \/ authorizeBatch(d, b) \/ closeBatch(d, b) \/ authorizeRow(d, agrees)
             \/ authorizedRows(d) \/ callRefreshRead(d) \/ callRefreshWrite(d)
             \/ decide(d) \/ closeBegins(d)
      PROVE  FALSE
  <2>1. calls[d].phase # "finish"
    BY <1>4 DEF authorizeBatch, closeBatch, Idling, authorizeRow, authorizedRows, callRefreshRead,
       callRefreshWrite, decide, closeBegins
  <2>2. d # c
    BY <2>1
  <2>3. ASSUME NEW call, calls' = [calls EXCEPT ![d] = call] PROVE FALSE
    BY <1>1, <2>2, <2>3
  <2>4. CASE authorizeBatch(d, b) \/ closeBatch(d, b)
    BY <2>3, <2>4 DEF authorizeBatch, closeBatch
  <2>5. CASE authorizedRows(d)
    BY <1>1, <2>2, <2>5 DEF authorizedRows
  <2>6. CASE authorizeRow(d, agrees)
    <3> DEFINE line == calls[d].line
               batch == calls[d].batch
               ok == agrees /\ settlements[batch][line] = "READY"
               new == [calls[d] EXCEPT
                        !.done = IF ok THEN calls[d].done + 1 ELSE calls[d].done,
                        !.line = Next_(batch, line),
                        !.phase = IF Next_(batch, line) = 0 THEN "begin" ELSE "rows"]
    <3>1. calls' = [calls EXCEPT ![d] = new]
      BY <2>6 DEF authorizeRow
    <3> HIDE DEF new
    <3> QED
      BY <2>3, <3>1
  <2>7. CASE callRefreshRead(d)
    <3> DEFINE batch == calls[d].batch
               read == [l \in Lines |-> resolved(batch, l)]
               new == [calls[d] EXCEPT !.phase = "refreshing", !.batch = batch, !.read = read]
    <3>1. calls' = [calls EXCEPT ![d] = new]
      BY <2>7 DEF callRefreshRead, refreshRead
    <3> HIDE DEF new
    <3> QED
      BY <2>3, <3>1
  <2>8. CASE callRefreshWrite(d)
    <3> DEFINE new == IF calls[d].op = "authorize" THEN NoCall
                      ELSE [calls[d] EXCEPT !.phase = "decide", !.read = << >>,
                                            !.seen = batches[calls[d].batch].status]
    <3>1. calls' = [calls EXCEPT ![d] = new]
      BY <2>8 DEF callRefreshWrite
    <3> HIDE DEF new
    <3> QED
      BY <2>3, <3>1
  <2>9. CASE decide(d)
    <3> DEFINE trigger == terminalOutcome(rows[calls[d].batch])
               new == IF trigger = NONE THEN NoCall
                      ELSE [calls[d] EXCEPT
                              !.phase = IF calls[d].seen = "READY" THEN "begin" ELSE "finish",
                              !.read = <<trigger>>]
    <3>1. calls' = [calls EXCEPT ![d] = new]
      BY <2>9 DEF decide
    <3> HIDE DEF new
    <3> QED
      BY <2>3, <3>1
  <2>10. CASE closeBegins(d)
    <3> DEFINE new == IF Evaluated(calls[d].batch, "begin_execution") = {} THEN NoCall
                      ELSE [calls[d] EXCEPT !.phase = "finish"]
    <3>1. calls' = [calls EXCEPT ![d] = new]
      BY <2>10 DEF closeBegins
    <3> HIDE DEF new
    <3> QED
      BY <2>3, <3>1
  <2> QED
    BY <1>4, <2>4, <2>5, <2>6, <2>7, <2>8, <2>9, <2>10
<1>5. ASSUME NEW d \in Callers, closeFinishes(d), d # c PROVE FALSE
  BY <1>1, <1>5 DEF closeFinishes
<1>6. ASSUME \/ \E i \in Imports, file \in Files, key \in Keys \cup {NONE} :
                  createBatchHandler(i, file, key)
             \/ \E i \in Imports :
                  \/ lookup(i) \/ container(i) \/ validated(i)
                  \/ \E creates \in BOOLEAN : importRow(i, creates)
                  \/ \E verdict \in {"READY", "ACTION_REQUIRED", "DRAFT"} : preflightRow(i, verdict)
             \/ \E i \in Imports, l \in Lines : settlementMoves(i, l)
             \/ UNCHANGED batchVars
      PROVE  FALSE
  <2>1. CASE \E i \in Imports, file \in Files, key \in Keys \cup {NONE} :
               createBatchHandler(i, file, key)
    BY <1>3, <2>1 DEF createBatchHandler
  <2>2. CASE \E i \in Imports : lookup(i) \/ container(i) \/ validated(i)
    BY <1>3, <2>2 DEF lookup, container, validated
  <2>3. CASE \E i \in Imports, creates \in BOOLEAN : importRow(i, creates)
    BY <1>3, <2>3 DEF importRow
  <2>4. CASE \E i \in Imports, verdict \in {"READY", "ACTION_REQUIRED", "DRAFT"} : preflightRow(i, verdict)
    BY <1>3, <2>4 DEF preflightRow
  <2>5. CASE (\E i \in Imports, l \in Lines : settlementMoves(i, l)) \/ UNCHANGED batchVars
    BY <1>3, <2>5 DEF settlementMoves, batchVars
  <2> QED
    BY <1>6, <2>1, <2>2, <2>3, <2>4, <2>5
<1>7. ASSUME NEW d \in Callers,
             \/ \E b \in Imports : authorizeBatch(d, b) \/ closeBatch(d, b)
             \/ \E agrees \in BOOLEAN : authorizeRow(d, agrees)
             \/ authorizedRows(d) \/ callRefreshRead(d) \/ callRefreshWrite(d)
             \/ decide(d) \/ closeBegins(d)
      PROVE  FALSE
  <2>1. PICK b \in Imports : b = b
    <3>1. CASE \E b \in Imports : authorizeBatch(d, b) \/ closeBatch(d, b)
      BY <3>1
    <3>2. CallIsSound(calls[c])
      BY DEF BatchesIInv, CallsAreSound, Actors
    <3> QED
      BY <3>2 DEF CallIsSound
  <2> QED
    BY <1>4, <1>7, <2>1
<1> QED
  BY <1>2, <1>5, <1>6, <1>7, Zenon DEF BatchesNext, Importing, Calling

(***************************************************************************)
(* A close that finishes leaves every line over: its settlement has ended, *)
(* or there is none and the batch is only partially completed.             *)
(***************************************************************************)
LEMMA FinishedIsDone ==
  ASSUME BatchesIInv, NEW c \in Callers, closeFinishes(c), calls[c].seen # "VALIDATING",
         batches'[calls[c].batch].status # batches[calls[c].batch].status,
         NEW l \in 1..Len(requests[calls[c].batch].file)
  PROVE  \/ settlements[calls[c].batch][l] \in Terminal
         \/ /\ settlements[calls[c].batch][l] = "NONE"
            /\ batches'[calls[c].batch].status = "PARTIALLY_COMPLETED"
<1>1. calls[c].phase = "finish" /\ advanceBatch(calls[c].batch, calls[c].read[1])
  BY DEF closeFinishes
<1>2. CallIsSound(calls[c]) /\ BatchesShape
  BY DEF BatchesIInv, CallsAreSound, Actors
<1>3. PICK b \in Imports : b = calls[c].batch
  BY <1>1, <1>2 DEF CallIsSound
<1>4. PICK trigger \in {"all_rows_resolved", "some_rows_unresolved"} : trigger = calls[c].read[1]
  BY <1>1, <1>2 DEF CallIsSound
<1>5. LineIsOver(b, l, trigger)
  BY <1>1, <1>2, <1>3, <1>4 DEF CallIsSound
<1>6. \E t \in BatchTransitions : t.trigger = trigger /\ t.to = batches'[b].status
  <2>1. advanceBatch(b, trigger) /\ batches' # batches
    BY <1>1, <1>3, <1>4
  <2> QED
    BY <1>2, <2>1, AdvanceFacts DEF BatchesShape
<1>7. trigger = "some_rows_unresolved" => batches'[b].status = "PARTIALLY_COMPLETED"
  BY <1>6 DEF BatchTransitions
<1> QED
  BY <1>3, <1>5, <1>7 DEF LineIsOver

(***************************************************************************)
(* A file becomes one batch, whatever races, repeats or dies, and every    *)
(* line of a batch that is ready has its answer (createBatchFromRows):     *)
(* ImportIsExact, for any number of imports, calls and lines.              *)
(***************************************************************************)
THEOREM ImportsAreExact == BatchesSpec => []ImportIsExact
<1>1. BatchesIInv /\ [BatchesNext]_batchVars => BatchesIInv'
  BY NextKeepsInv
<1> QED
  BY InitIsSound, <1>1, InvIsExact, PTL DEF BatchesSpec

(***************************************************************************)
(* A close that found the batch validated completes it only when every     *)
(* line is over (closeBatch): CompletedIsDone.                             *)
(***************************************************************************)
THEOREM ClosesAreDone == BatchesSpec => CompletedIsDone
<1>1. BatchesIInv /\ [BatchesNext]_batchVars => BatchesIInv'
  BY NextKeepsInv
<1>2. BatchesIInv /\ [BatchesNext]_batchVars =>
        [\A c \in Callers :
           LET b == calls[c].batch
           IN  calls[c].phase = "finish" /\ calls'[c].phase = "idle" /\ calls[c].seen # "VALIDATING"
               /\ batches'[b].status # batches[b].status =>
                 \A l \in 1..Len(requests[b].file) :
                   \/ settlements[b][l] \in Terminal
                   \/ settlements[b][l] = "NONE" /\ batches'[b].status = "PARTIALLY_COMPLETED"]_batchVars
  BY FinishIsItsOwn, FinishedIsDone
<1> QED
  BY InitIsSound, <1>1, <1>2, PTL DEF BatchesSpec, CompletedIsDone

(***************************************************************************)
(* The rows a request gives reach the importer as they were given, up to   *)
(* the trim, whatever quotes, commas, line feeds, carriage returns and     *)
(* byte-order marks their text has (createBatchFromRows, parseBatchCsv):   *)
(* RowsSurviveCsv, for files of any length and text of any length.         *)
(***************************************************************************)
THEOREM RowsSurvive == BatchesSpec => RowsSurviveCsv
<1>1. BatchesIInv /\ [BatchesNext]_batchVars => BatchesIInv'
  BY NextKeepsInv
<1>2. BatchesIInv' =>
        \A i \in Imports : (\A j \in Imports : imports[j].phase = "idle") /\ imports'[i].phase # "idle" =>
          \A ref \in References \cup {requests'[i].file[1].ref} :
            LET file == withText(requests'[i].file, ref)
            IN  parseBatchCsv(render(file)) = asGiven(file)
  <2> SUFFICES ASSUME BatchesIInv', NEW i \in Imports, imports'[i].phase # "idle",
                      NEW ref \in References \cup {requests'[i].file[1].ref}
               PROVE  LET file == withText(requests'[i].file, ref)
                      IN  parseBatchCsv(render(file)) = asGiven(file)
    OBVIOUS
  <2>1. PICK given \in Files : given = requests'[i].file
    BY DEF BatchesIInv, ImportIsSound
  <2>2. ref \in Seq(Characters)
    <3>1. given[1] \in FileRows
      BY FilesAreRows
    <3>2. given[1].ref \in Seq(Characters)
      BY <3>1 DEF FileRows
    <3>3. References \subseteq Seq(Characters)
      BY BatchesAssumption
    <3> QED
      BY <2>1, <3>2, <3>3
  <2>3. PICK file \in Seq(FileRows) : file = withText(given, ref) /\ Len(file) > 0
    BY <2>2, TextsAreRows
  <2>4. parseBatchCsv(render(file)) = asGiven(file)
    BY <2>3, FilesSurvive
  <2> QED
    BY <2>1, <2>3, <2>4
<1> QED
  BY InitIsSound, <1>1, <1>2, PTL DEF BatchesSpec, RowsSurviveCsv
=============================================================================
