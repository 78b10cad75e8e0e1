----------------------------- MODULE Settlement -----------------------------
(***************************************************************************)
(* One authorized settlement and everybody who moves it: the funding,      *)
(* payout and reconciliation services, the customer who asks for a         *)
(* cancellation, the cancellation checkpoint, and operators who resolve    *)
(* exceptions (packages/app/src/settlement.service.ts,                     *)
(* settlement-transition.service.ts, ops/exception.service.ts).            *)
(*                                                                         *)
(* applyTransition takes the row lock, so one transition is atomic.  Three *)
(* callers read the row WITHOUT the lock and answer guards from what they  *)
(* saw: honourCancellation, resolveException and openException.  Such a    *)
(* call is two steps here, Read and then its completion, and any other     *)
(* step may come between.                                                  *)
(*                                                                         *)
(* Facts of other aggregates (the facility, the provider's evidence, the   *)
(* finality verdict) are free: every guard about them may be answered.     *)
(***************************************************************************)
EXTENDS SettlementMachine

VARIABLES
  settlement,     \* the settlements row
  openException,  \* settlement_exceptions: entered_from of the open row, or "NONE"
  calls           \* calls that have read the row and not yet applied

settlementVars == <<settlement, openException, calls>>

-----------------------------------------------------------------------------
(***************************************************************************)
(* Who answers which triggers.                                             *)
(***************************************************************************)
ServiceTriggers ==
  {t.trigger : t \in FundingTransitions \cup PayoutTransitions \cup SweeperTransitions}
    \ {"reservation_expired", "dispatch_payout"}

OpenTriggers ==
  {"reservation_failed", "drawdown_failed", "payout_rejected", "payout_timeout",
   "reconciled_mismatch", "reservation_expired", "drawdown_timeout", "reconciliation_stalled"}

ResolveTriggers == {"resolve_resume", "resolve_fail", "resolve_cancel"}

(***************************************************************************)
(* Guards about something else than the settlements row.                   *)
(***************************************************************************)
EnvironmentGuards ==
  UNION {t.guards : t \in Transitions}
    \ {"cancellation_pending", "no_cancellation_pending",
       "before_point_of_no_return", "no_value_delivered", "resolution_attributed"}

applyTransition(trigger, answers) ==
  \E t \in Permitted(settlement, trigger, answers) :
    /\ settlement' = Applied(settlement, t)
    /\ ProtectSettlementRow(settlement, settlement')

-----------------------------------------------------------------------------
(* Callers that hold the row lock while they answer the guards *)

(***************************************************************************)
(* A funding, payout or reconciliation service moves the settlement.  None *)
(* of them writes a settlement_exceptions row, not even into EXCEPTION.    *)
(***************************************************************************)
serviceTransition(trigger) ==
  /\ applyTransition(trigger, EnvironmentGuards \cup RowAnswers(settlement))
  /\ UNCHANGED <<openException, calls>>

(***************************************************************************)
(* T15, the dispatch transaction: a pending cancellation is seen under the *)
(* lock, and committing it is the point of no return (INV-36).             *)
(***************************************************************************)
dispatchWithoutRecheck ==   \* mutant: the flag is not re-read under the lock
  /\ applyTransition("dispatch_payout",
                     EnvironmentGuards \cup {"no_cancellation_pending", "before_point_of_no_return"})
  /\ UNCHANGED <<openException, calls>>

dispatchPayout ==
  /\ ~settlement.cancelRequested
  /\ ~settlement.pastPonr
  /\ applyTransition("dispatch_payout",
                     EnvironmentGuards \cup {"no_cancellation_pending", "before_point_of_no_return"})
  /\ UNCHANGED <<openException, calls>>

(***************************************************************************)
(* T26, the annotation, under the same lock as the dispatch.               *)
(***************************************************************************)
requestCancellation ==
  /\ ~settlement.pastPonr
  /\ applyTransition("request_cancellation", EnvironmentGuards \cup RowAnswers(settlement))
  /\ UNCHANGED <<openException, calls>>

(***************************************************************************)
(* The operator's resolution needs an open settlement_exceptions row, and  *)
(* answers both PONR guards under the lock.                                *)
(***************************************************************************)
resolveAndKeepRow(trigger) ==   \* mutant: the exception row is not closed
  /\ openException # "NONE"
  /\ trigger # "resolve_resume" => ~settlement.pastPonr
  /\ applyTransition(trigger, {"resolution_attributed", "no_value_delivered"}
                                \cup RowAnswers(settlement))
  /\ UNCHANGED <<openException, calls>>

resolveExceptionAsOperator(trigger) ==
  /\ openException # "NONE"
  /\ trigger # "resolve_resume" => ~settlement.pastPonr
  /\ applyTransition(trigger, {"resolution_attributed", "no_value_delivered"}
                                \cup RowAnswers(settlement))
  /\ openException' = "NONE"
  /\ UNCHANGED calls

-----------------------------------------------------------------------------
(* Callers that answer the guards from an unlocked read *)

(***************************************************************************)
(* The answers a caller of trigger derives from the row it sees.           *)
(***************************************************************************)
AnswersFor(trigger, row) ==
  IF trigger \in OpenTriggers THEN EnvironmentGuards
  ELSE IF trigger \in ResolveTriggers THEN
    {"resolution_attributed"} \cup
    (IF row.pastPonr THEN {} ELSE {"no_value_delivered", "before_point_of_no_return"})
  ELSE {"at_checkpoint"} \cup RowAnswers(row)

(***************************************************************************)
(* getSettlement.  Each kind of caller has at most one call in progress;   *)
(* only openException keeps the status it saw.                             *)
(***************************************************************************)
Read(triggers, trigger) ==
  /\ \A c \in calls : c.trigger \notin triggers
  /\ calls' = calls \cup
       {[trigger |-> trigger,
         seen    |-> IF trigger \in OpenTriggers THEN settlement.status ELSE "NONE",
         answers |-> AnswersFor(trigger, settlement)]}
  /\ UNCHANGED <<settlement, openException>>

readForCancellation ==
  /\ settlement.cancelRequested   \* the checkpoint job's selection
  /\ Read({"cancellation_honoured"}, "cancellation_honoured")

honourCancellation(c) ==
  /\ c.trigger = "cancellation_honoured"
  /\ applyTransition(c.trigger, c.answers)
  /\ calls' = calls \ {c}
  /\ UNCHANGED openException

resolveException(c) ==
  /\ c.trigger \in ResolveTriggers
  /\ applyTransition(c.trigger, c.answers)
  /\ openException' = "NONE"
  /\ calls' = calls \ {c}

(***************************************************************************)
(* The unique index settlement_exceptions_one_open aborts a second row;    *)
(* the row keeps the status seen by the unlocked read.                     *)
(***************************************************************************)
insertOpenException(c) ==
  /\ c.trigger \in OpenTriggers
  /\ applyTransition(c.trigger, c.answers)
  /\ openException = "NONE"
  /\ openException' = c.seen
  /\ calls' = calls \ {c}

refuse(c) ==
  /\ Refused(settlement, c.trigger, c.answers)
  /\ calls' = calls \ {c}
  /\ UNCHANGED <<settlement, openException>>

-----------------------------------------------------------------------------
SettlementInit ==
  /\ settlement = [status |-> "AUTHORIZED", enteredFrom |-> "NONE",
                   cancelRequested |-> FALSE, pastPonr |-> FALSE]
  /\ openException = "NONE"
  /\ calls = {}

SettlementNext ==
  \/ \E trigger \in ServiceTriggers : serviceTransition(trigger)
  \/ dispatchPayout
  \/ requestCancellation
  \/ \E trigger \in ResolveTriggers : resolveExceptionAsOperator(trigger)
  \/ readForCancellation
  \/ \E trigger \in ResolveTriggers : Read(ResolveTriggers, trigger)
  \/ \E trigger \in OpenTriggers : Read(OpenTriggers, trigger)
  \/ \E c \in calls : honourCancellation(c)
  \/ \E c \in calls : resolveException(c)
  \/ \E c \in calls : insertOpenException(c)
  \/ \E c \in calls : refuse(c)

(***************************************************************************)
(* The funding calls answer, and the checkpoint job of                     *)
(* docs/STATE_MACHINES.md section 9 keeps running.                         *)
(***************************************************************************)
DrawdownAnswers == {"drawdown_confirmed", "drawdown_failed", "drawdown_timeout"}

FundingAnswers ==
  \E trigger \in {"reservation_succeeded", "reservation_failed"} \cup DrawdownAnswers :
    serviceTransition(trigger)

CompleteCancellation ==
  \E c \in calls : /\ c.trigger = "cancellation_honoured"
                   /\ honourCancellation(c) \/ refuse(c)

SettlementFairness ==
  /\ WF_settlementVars(FundingAnswers)
  /\ WF_settlementVars(readForCancellation)
  /\ WF_settlementVars(CompleteCancellation)

SettlementSpec ==
  SettlementInit /\ [][SettlementNext]_settlementVars /\ SettlementFairness

-----------------------------------------------------------------------------
(* Properties *)

Guards == UNION {t.guards : t \in Transitions}

(***************************************************************************)
(* The row keeps to its columns (a resume never leaves a destination       *)
(* unresolved), and a call in progress carries only answers to guards of   *)
(* the table.                                                              *)
(***************************************************************************)
SettlementTypeOK ==
  /\ settlement \in Rows
  /\ openException \in Statuses \cup {"NONE"}
  /\ \A c \in calls : /\ c.trigger \in OpenTriggers \cup ResolveTriggers
                                        \cup {"cancellation_honoured"}
                      /\ c.seen \in Statuses \cup {"NONE"}
                      /\ c.answers \subseteq Guards

(***************************************************************************)
(* Dispatch and cancellation never both win: no settlement is past its     *)
(* point of no return with a cancellation request pending (dispatchPayout  *)
(* and requestCancellation contend for one row lock, INV-36).              *)
(***************************************************************************)
CancellationExcludesDispatch == ~(settlement.cancelRequested /\ settlement.pastPonr)

(***************************************************************************)
(* The stamp agrees with the phase, through any chain of exceptions and    *)
(* resumes: a settlement past the PONR is never back in, or headed back to *)
(* (T22), a status from which it could be funded or cancelled, and one     *)
(* before it has not left funding (dispatchPayout, applyTransition).       *)
(***************************************************************************)
Phase == IF settlement.status = "EXCEPTION" THEN settlement.enteredFrom ELSE settlement.status

StampMatchesPhase ==
  Phase \notin {"FAILED", "CANCELLED"} =>
    (settlement.pastPonr <=> Phase \in DispatchedStatuses \cup {"SETTLED"})

(***************************************************************************)
(* The application never relies on the database to catch it: whatever the  *)
(* table permits, with every guard answered, protect_settlement_row lets   *)
(* through (resume integrity, terminality, INV-36, INV-38).                *)
(***************************************************************************)
DatabaseGuardNeverFires ==
  \A t \in Transitions :
    t \in Permitted(settlement, t.trigger, Guards) =>
      ProtectSettlementRow(settlement, Applied(settlement, t))

(***************************************************************************)
(* An open settlement_exceptions row belongs to a settlement that is in    *)
(* EXCEPTION: nobody leaves the exception behind an open row, although     *)
(* opening and resolving interleave (openException, resolveException,      *)
(* resolveExceptionAsOperator).                                            *)
(***************************************************************************)
OpenRowMeansException == openException # "NONE" => settlement.status = "EXCEPTION"

(***************************************************************************)
(* A cancellation request is honoured, or runs into an exception an        *)
(* operator must resolve; it is never overtaken by the payout              *)
(* (requestCancellation, honourCancellation).                              *)
(***************************************************************************)
CancellationTakesEffect ==
  settlement.cancelRequested ~> settlement.status \in {"CANCELLED", "FAILED", "EXCEPTION"}

(***************************************************************************)
(* The point of no return separates dispatch from cancellation, whatever   *)
(* was decided on a stale read (dispatchPayout, requestCancellation,       *)
(* applyTransition).                                                       *)
(***************************************************************************)
PointOfNoReturn ==
  /\ SettlementTypeOK
  /\ CancellationExcludesDispatch
  /\ StampMatchesPhase

(***************************************************************************)
(* The settlement's row agrees with what guards it: with its open          *)
(* exception and with the trigger of migration 0005.                       *)
(***************************************************************************)
RowsAgree == OpenRowMeansException /\ DatabaseGuardNeverFires
=============================================================================
