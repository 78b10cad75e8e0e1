------------------------------- MODULE Payout -------------------------------
(***************************************************************************)
(* The payout leg of one funded settlement: the dispatch transaction, the  *)
(* job that submits an attempt to the provider, provider webhooks, the SLA *)
(* sweeper, the authoritative status pull and the retry                    *)
(* (packages/app/src/payout.service.ts, payout-webhook.service.ts,         *)
(* dispatchPayout of settlement.service.ts).                               *)
(*                                                                         *)
(* The provider is external.  It is a correct one: it creates at most one  *)
(* payout per idempotency key (the attempt number), never contradicts      *)
(* itself, and answers a pull with what it knows at that moment.  Its      *)
(* webhooks may be lost, delayed and reordered; a redelivery carries the   *)
(* same event id.                                                          *)
(*                                                                         *)
(* A submission and a pull each read the attempt, talk to the provider     *)
(* with no lock held, and write in a later transaction.                    *)
(***************************************************************************)
EXTENDS SettlementMachine, Naturals

CONSTANTS
  MaxAttempts,   \* bound: payout attempts of the settlement
  MaxJobs,       \* bound: submission jobs running at once
  MaxPulls       \* bound: status pulls running at once

ASSUME PayoutAssumption == {MaxAttempts, MaxJobs, MaxPulls} \subseteq Nat \ {0}

VARIABLES
  settlement,  \* the settlements row
  attempts,    \* payout_attempts: status per attempt number, or "NONE"
  submitting,  \* submission jobs: an attempt read, or an answer to be recorded
  pulls,       \* status pulls: the provider's answer, not yet applied
  ingested,    \* provider_events: the events stored so far
  provider     \* external: the provider's payout per idempotency key, or "NONE"

payoutVars == <<settlement, attempts, submitting, pulls, ingested, provider>>

AttemptNumbers == 1..MaxAttempts

AttemptStatuses == {"SUBMITTED", "ACCEPTED", "CREDITED", "REJECTED", "RETURNED", "UNKNOWN"}
TerminalAttemptStatuses == {"CREDITED", "REJECTED", "RETURNED"}
InFlightAttemptStatuses == AttemptStatuses \ TerminalAttemptStatuses

(***************************************************************************)
(* Every query takes the row with the highest attempt number.              *)
(***************************************************************************)
IsLatest(n) ==
  /\ attempts[n] # "NONE"
  /\ \A m \in AttemptNumbers : m > n => attempts[m] = "NONE"

(***************************************************************************)
(* The trigger protect_payout_attempt: a terminal attempt does not move,   *)
(* except from CREDITED to RETURNED.                                       *)
(***************************************************************************)
UnprotectedPayoutAttempt(old, new) == TRUE   \* mutant: no trigger

ProtectPayoutAttempt(old, new) ==
  \/ old \notin TerminalAttemptStatuses
  \/ new = old
  \/ old = "CREDITED" /\ new = "RETURNED"

SetAttempt(n, status) ==
  /\ ProtectPayoutAttempt(attempts[n], status)
  /\ attempts' = [attempts EXCEPT ![n] = status]

-----------------------------------------------------------------------------
(* The settlement's own steps *)

applyTransition(trigger, answers) ==
  \E t \in Permitted(settlement, trigger, answers) :
    /\ settlement' = Applied(settlement, t)
    /\ ProtectSettlementRow(settlement, settlement')

applyOrReturnRefusal(trigger, answers) ==
  \/ applyTransition(trigger, answers)
  \/ Refused(settlement, trigger, answers) /\ UNCHANGED settlement

(***************************************************************************)
(* The new attempt number a dispatch gets: 1, or the one after a rejected  *)
(* latest attempt.  An attempt in flight is reused and any other answered  *)
(* one refuses the call, with nothing written (INV-24).                    *)
(***************************************************************************)
allocateAttemptNumber(n) ==
  \/ n = 1 /\ \A m \in AttemptNumbers : attempts[m] = "NONE"
  \/ \E m \in AttemptNumbers : n = m + 1 /\ IsLatest(m) /\ attempts[m] = "REJECTED"

(***************************************************************************)
(* T15 and P01 in one transaction.                                         *)
(***************************************************************************)
dispatchPayout ==
  /\ ~settlement.cancelRequested
  /\ ~settlement.pastPonr
  /\ \E n \in AttemptNumbers :
       /\ allocateAttemptNumber(n)
       /\ attempts' = [attempts EXCEPT ![n] = "SUBMITTED"]
  /\ applyTransition("dispatch_payout",
                     {"rail_selected", "destination_version_verified",
                      "no_cancellation_pending", "before_point_of_no_return"})
  /\ UNCHANGED <<submitting, pulls, ingested, provider>>

requestCancellation ==
  /\ ~settlement.pastPonr
  /\ applyTransition("request_cancellation", {"actor_may_cancel"} \cup RowAnswers(settlement))
  /\ UNCHANGED <<attempts, submitting, pulls, ingested, provider>>

honourCancellation ==
  /\ applyTransition("cancellation_honoured", {"at_checkpoint"} \cup RowAnswers(settlement))
  /\ UNCHANGED <<attempts, submitting, pulls, ingested, provider>>

(***************************************************************************)
(* An attributed resolution of the exception; past the PONR only T22 is    *)
(* left.                                                                   *)
(***************************************************************************)
resolveException ==
  /\ applyTransition("resolve_resume", {"resolution_attributed"})
  /\ UNCHANGED <<attempts, submitting, pulls, ingested, provider>>

-----------------------------------------------------------------------------
(* submitDispatchedPayout: read, call, record *)

readForSubmission(n) ==
  /\ IsLatest(n)
  /\ attempts[n] = "SUBMITTED"
  /\ Cardinality(submitting) < MaxJobs
  /\ submitting' = submitting \cup {[attempt |-> n, ack |-> "NONE"]}
  /\ UNCHANGED <<settlement, attempts, pulls, ingested, provider>>

(***************************************************************************)
(* The provider takes the payout, unless it already has the key, and       *)
(* acknowledges it as SUBMITTED or ACCEPTED.  An answer that already says  *)
(* CREDITED or REJECTED is this call and a providerProgress: the service   *)
(* only records ACCEPTED of it.                                            *)
(***************************************************************************)
submitPayout(job) ==
  /\ job.ack = "NONE"
  /\ provider' = [provider EXCEPT ![job.attempt] = IF @ = "NONE" THEN "ACCEPTED" ELSE @]
  /\ \E ack \in {"SUBMITTED", "ACCEPTED"} :
       submitting' = (submitting \ {job}) \cup {[attempt |-> job.attempt, ack |-> ack]}
  /\ UNCHANGED <<settlement, attempts, pulls, ingested>>

(***************************************************************************)
(* No answer (PayoutTimeout), or the worker dies, before the provider got  *)
(* the call or after: nothing is written.                                  *)
(***************************************************************************)
loseSubmission(job) ==
  /\ submitting' = submitting \ {job}
  /\ UNCHANGED <<settlement, attempts, pulls, ingested, provider>>

(***************************************************************************)
(* The acknowledgement is an UPDATE by id with no condition on the status; *)
(* on a terminal attempt the trigger rolls it back (loseSubmission).       *)
(***************************************************************************)
recordAcknowledgement(job) ==
  /\ job.ack # "NONE"
  /\ IF job.ack = "ACCEPTED" THEN SetAttempt(job.attempt, "ACCEPTED") ELSE UNCHANGED attempts
  /\ submitting' = submitting \ {job}
  /\ UNCHANGED <<settlement, pulls, ingested, provider>>

-----------------------------------------------------------------------------
(* applyPayoutOutcome: a trusted outcome moves the LATEST attempt,         *)
(* whatever submission it is about, and the settlement unless that is in   *)
(* EXCEPTION.                                                              *)

(***************************************************************************)
(* Where an outcome takes an attempt; other statuses are refusals or       *)
(* idempotent answers.                                                     *)
(***************************************************************************)
OutcomeTransitions ==
  {[outcome |-> "CREDITED", from |-> InFlightAttemptStatuses,
    trigger |-> "payout_credited"],
   [outcome |-> "REJECTED", from |-> InFlightAttemptStatuses,
    trigger |-> "payout_rejected"],
   [outcome |-> "ACCEPTED", from |-> {"SUBMITTED"}, trigger |-> "none"],
   [outcome |-> "RETURNED", from |-> {"CREDITED"}, trigger |-> "none"]}

EvidenceAnswers == {"trusted_provider_event", "utr_present_and_well_formed"}

MoveOnOutcome(o, n) ==
  /\ SetAttempt(n, o.outcome)
  /\ IF o.trigger = "none" \/ settlement.status = "EXCEPTION"
       THEN UNCHANGED settlement
       ELSE applyOrReturnRefusal(o.trigger, EvidenceAnswers)

applyPayoutOutcome(outcome) ==
  \E o \in OutcomeTransitions, n \in AttemptNumbers :
    /\ o.outcome = outcome
    /\ IsLatest(n)
    /\ \/ attempts[n] \in o.from /\ MoveOnOutcome(o, n)
       \/ attempts[n] \notin o.from /\ UNCHANGED <<attempts, settlement>>

-----------------------------------------------------------------------------
(* Webhooks *)

(***************************************************************************)
(* The events that carry the provider's signature: those it has had reason *)
(* to send about its payout n.                                             *)
(***************************************************************************)
SentEvents(n) ==
  {outcome \in AttemptStatuses :
     /\ provider[n] # "NONE"
     /\ \/ outcome \in {"ACCEPTED", provider[n]}
        \/ outcome = "CREDITED" /\ provider[n] = "RETURNED"}

(***************************************************************************)
(* What is stored and applied to nothing: an event whose signature or      *)
(* timestamp does not verify when it first arrives, one that names no      *)
(* settlement, one of no known type and code.                              *)
(***************************************************************************)
notApplied == UNCHANGED <<attempts, settlement>>

(***************************************************************************)
(* What an event says: the outcome the mapping table has for its code,     *)
(* else what its type says.  Either may be UNKNOWN, and that is applied to *)
(* nothing (INV-43).                                                       *)
(***************************************************************************)
interpretProviderCode(entry, fallback) == IF entry = "unmapped" THEN fallback ELSE entry

Interpretations(outcome) ==
  {interpretProviderCode(entry, fallback) :
     entry \in {outcome, "unmapped"}, fallback \in {outcome, "UNKNOWN"}}

(***************************************************************************)
(* An event is stored once by its id and applied to the settlement it      *)
(* names; whatever came of it, its redelivery is a duplicate.              *)
(***************************************************************************)
ingestPayoutWebhook(n, outcome) ==
  /\ outcome \in SentEvents(n)
  /\ <<n, outcome>> \notin ingested
  /\ ingested' = ingested \cup {<<n, outcome>>}
  /\ (\E read \in Interpretations(outcome) : applyPayoutOutcome(read)) \/ notApplied
  /\ UNCHANGED <<submitting, pulls, provider>>

-----------------------------------------------------------------------------
(* The SLA sweeper, the status pull and the retry *)

(***************************************************************************)
(* P05 and T18; the attempt is UNKNOWN even if T18 is refused.             *)
(***************************************************************************)
sweepPayoutSla(n) ==
  /\ IsLatest(n)
  /\ attempts[n] \in {"SUBMITTED", "ACCEPTED"}
  /\ SetAttempt(n, "UNKNOWN")
  /\ applyOrReturnRefusal("payout_timeout", {"rail_sla_elapsed"})
  /\ UNCHANGED <<submitting, pulls, ingested, provider>>

(***************************************************************************)
(* pullPayoutStatus asks about the attempt it read, under its own key.     *)
(* not_found is a rejection; a payout still in flight is no answer.        *)
(***************************************************************************)
PullAnswersAnyCredit(n) ==   \* mutant: an accepted payout is taken for a credited one
  {answer \in TerminalAttemptStatuses :
     \/ provider[n] = answer
     \/ provider[n] = "NONE" /\ answer = "REJECTED"
     \/ provider[n] = "ACCEPTED" /\ answer = "CREDITED"}

PullAnswersWithoutAbsence(n) ==   \* mutant: not_found is no answer
  {answer \in TerminalAttemptStatuses : provider[n] = answer}

PullAnswers(n) ==
  {answer \in TerminalAttemptStatuses :
     \/ provider[n] = answer
     \/ provider[n] = "NONE" /\ answer = "REJECTED"}

getPayout(n) ==
  /\ IsLatest(n)
  /\ Cardinality(pulls) < MaxPulls
  /\ \E answer \in PullAnswers(n) : pulls' = pulls \cup {answer}
  /\ UNCHANGED <<settlement, attempts, submitting, ingested, provider>>

pullPayoutStatus(answer) ==
  /\ pulls' = pulls \ {answer}
  /\ applyPayoutOutcome(answer)
  /\ UNCHANGED <<submitting, ingested, provider>>

(***************************************************************************)
(* A further attempt, only after an authoritative rejection (INV-24).      *)
(***************************************************************************)
retryUnanswered(n) ==   \* mutant: UNKNOWN is taken for a rejection
  /\ IsLatest(n)
  /\ n < MaxAttempts
  /\ attempts[n] \in {"REJECTED", "UNKNOWN"}
  /\ attempts' = [attempts EXCEPT ![n + 1] = "SUBMITTED"]
  /\ UNCHANGED <<settlement, submitting, pulls, ingested, provider>>

retryPayout(n) ==
  /\ IsLatest(n)
  /\ n < MaxAttempts
  /\ attempts[n] = "REJECTED"
  /\ attempts' = [attempts EXCEPT ![n + 1] = "SUBMITTED"]
  /\ UNCHANGED <<settlement, submitting, pulls, ingested, provider>>

-----------------------------------------------------------------------------
(* External: the provider works on a payout it accepted *)

providerProgress(n) ==
  /\ \/ /\ provider[n] = "ACCEPTED"
        /\ \E result \in {"CREDITED", "REJECTED"} :
             provider' = [provider EXCEPT ![n] = result]
     \/ /\ provider[n] = "CREDITED"
        /\ provider' = [provider EXCEPT ![n] = "RETURNED"]
  /\ UNCHANGED <<settlement, attempts, submitting, pulls, ingested>>

-----------------------------------------------------------------------------
PayoutInit ==
  /\ settlement = [status |-> "DRAWDOWN_CONFIRMED", enteredFrom |-> "NONE",
                   cancelRequested |-> FALSE, pastPonr |-> FALSE]
  /\ attempts = [n \in AttemptNumbers |-> "NONE"]
  /\ submitting = {}
  /\ pulls = {}
  /\ ingested = {}
  /\ provider = [n \in AttemptNumbers |-> "NONE"]

AttemptStep(n) ==
  \/ readForSubmission(n)
  \/ sweepPayoutSla(n)
  \/ getPayout(n)
  \/ retryPayout(n)
  \/ providerProgress(n)
  \/ \E outcome \in {"ACCEPTED", "CREDITED", "REJECTED", "RETURNED"} :
       ingestPayoutWebhook(n, outcome)

PayoutNext ==
  \/ dispatchPayout
  \/ requestCancellation
  \/ honourCancellation
  \/ resolveException
  \/ \E n \in AttemptNumbers : AttemptStep(n)
  \/ \E job \in submitting : submitPayout(job)
  \/ \E job \in submitting : loseSubmission(job)
  \/ \E job \in submitting : recordAcknowledgement(job)
  \/ \E answer \in pulls : pullPayoutStatus(answer)

(***************************************************************************)
(* The payout status poller of docs/STATE_MACHINES.md section 9 keeps      *)
(* sweeping and pulling, and the provider decides every payout it took.    *)
(* Nothing is assumed of webhooks, submission jobs or people.              *)
(***************************************************************************)
PayoutFairness ==
  \A n \in AttemptNumbers :
    /\ WF_payoutVars(sweepPayoutSla(n))
    /\ WF_payoutVars(provider[n] = "ACCEPTED" /\ providerProgress(n))
    /\ WF_payoutVars(getPayout(n))
    /\ WF_payoutVars(\E answer \in pulls : pullPayoutStatus(answer))

PayoutSpec == PayoutInit /\ [][PayoutNext]_payoutVars /\ PayoutFairness

-----------------------------------------------------------------------------
(* Properties *)

HasCredit(n) == provider[n] \in {"CREDITED", "RETURNED"}

(***************************************************************************)
(* Every column keeps to its CHECK constraint, jobs and pulls name real    *)
(* attempts and answers, and attempt numbers are allocated without a gap.  *)
(***************************************************************************)
PayoutTypeOK ==
  /\ settlement \in Rows
  /\ attempts \in [AttemptNumbers -> AttemptStatuses \cup {"NONE"}]
  /\ \A n \in AttemptNumbers, m \in AttemptNumbers :
       m < n /\ attempts[n] # "NONE" => attempts[m] # "NONE"
  /\ submitting \subseteq [attempt : AttemptNumbers, ack : {"NONE", "SUBMITTED", "ACCEPTED"}]
  /\ pulls \subseteq TerminalAttemptStatuses
  /\ ingested \subseteq AttemptNumbers \X AttemptStatuses
  /\ provider \in [AttemptNumbers -> {"NONE", "ACCEPTED", "CREDITED", "REJECTED", "RETURNED"}]

(***************************************************************************)
(* INV-24: however submissions, webhooks, pulls and retries interleave, a  *)
(* settlement has a further attempt only while every earlier one stands    *)
(* rejected, so at most one attempt is ever in flight.                     *)
(***************************************************************************)
OneInFlight ==
  \A n \in AttemptNumbers, m \in AttemptNumbers :
    m < n /\ attempts[n] # "NONE" => attempts[m] = "REJECTED"

(***************************************************************************)
(* T16 is only ever taken with its evidence: a confirmed payout has a      *)
(* latest attempt that was credited, and no retry replaces it afterwards.  *)
(***************************************************************************)
ConfirmedIsCredited ==
  settlement.status = "PAYOUT_CONFIRMED" =>
    \A n \in AttemptNumbers : IsLatest(n) => attempts[n] \in {"CREDITED", "RETURNED"}

(***************************************************************************)
(* A recorded credit is a payment: whichever event or pull recorded it, in *)
(* whatever order it arrived, the provider did credit a payout of this     *)
(* settlement.                                                             *)
(***************************************************************************)
CreditHasPayment ==
  (\E n \in AttemptNumbers : attempts[n] \in {"CREDITED", "RETURNED"})
    => \E n \in AttemptNumbers : HasCredit(n)

(***************************************************************************)
(* INV-36: the provider holds a payout only for a settlement that is past  *)
(* the point of no return and on which no cancellation was accepted.       *)
(***************************************************************************)
NoPayoutWhenCancelled ==
  (\E n \in AttemptNumbers : provider[n] # "NONE") =>
    settlement.pastPonr /\ ~settlement.cancelRequested

(***************************************************************************)
(* An answered attempt stays answered: a late acknowledgement, a delayed   *)
(* event or a slow pull never reopens it; only a credit may be returned.   *)
(***************************************************************************)
AnswerIsFinal ==
  [][\A n \in AttemptNumbers :
       attempts[n] \in TerminalAttemptStatuses =>
         \/ attempts'[n] = attempts[n]
         \/ attempts[n] = "CREDITED" /\ attempts'[n] = "RETURNED"]_payoutVars

(***************************************************************************)
(* INV-36(c): with every webhook lost and every submission timed out, the  *)
(* sweeper and the pull still bring each attempt to its answer.  A payout  *)
(* the provider has already returned is the exception: RETURNED is refused *)
(* on an attempt that is not CREDITED (return_requires_credit), so a pull  *)
(* that finds it leaves the attempt UNKNOWN.                               *)
(***************************************************************************)
EveryAttemptIsResolved ==
  \A n \in AttemptNumbers :
    attempts[n] \in InFlightAttemptStatuses
      ~> attempts[n] \in TerminalAttemptStatuses \/ provider[n] = "RETURNED"

(***************************************************************************)
(* "not_found ... the only one that says with authority that no money      *)
(* moved" (pullPayoutStatus): no settlement is paid twice.                 *)
(***************************************************************************)
AtMostOneCredit ==
  \A n \in AttemptNumbers, m \in AttemptNumbers : HasCredit(n) /\ HasCredit(m) => n = m

(***************************************************************************)
(* What the rows say of payment is so: a confirmed settlement was          *)
(* credited, a recorded credit was paid, and nothing is paid for a         *)
(* settlement that was cancelled (applyPayoutOutcome, dispatchPayout).     *)
(***************************************************************************)
CreditsAreBacked ==
  /\ PayoutTypeOK
  /\ ConfirmedIsCredited
  /\ CreditHasPayment
  /\ NoPayoutWhenCancelled
=============================================================================
