------------------------- MODULE SettlementMachine -------------------------
(***************************************************************************)
(* The frozen settlement state machine: the transition table T01-T30       *)
(* (packages/domain/src/settlements/transitions.ts), what applyTransition  *)
(* writes on the settlements row (settlement-transition.service.ts) and    *)
(* what the trigger protect_settlement_row lets through (migration 0005).  *)
(*                                                                         *)
(* A row keeps its status, the status an exception was entered from, the   *)
(* pending-cancellation flag and whether the point of no return (PONR) is  *)
(* stamped.  The version column only repeats what the row lock already     *)
(* guarantees; events, audit records and the payload columns are left out. *)
(***************************************************************************)
EXTENDS FiniteSets

Statuses ==
  {"DRAFT", "PREFLIGHTING", "ACTION_REQUIRED", "READY", "QUOTED", "AUTHORIZED",
   "LIQUIDITY_RESERVING", "LIQUIDITY_RESERVED", "DRAWDOWN_REQUESTED", "DRAWDOWN_CONFIRMED",
   "PAYOUT_SUBMITTED", "PAYOUT_CONFIRMED", "RECONCILING", "SETTLED",
   "EXCEPTION", "FAILED", "CANCELLED"}

TerminalStatuses == {"SETTLED", "FAILED", "CANCELLED"}

(***************************************************************************)
(* Where a resume may go once the payout was dispatched.                   *)
(***************************************************************************)
DispatchedStatuses == {"PAYOUT_SUBMITTED", "PAYOUT_CONFIRMED", "RECONCILING"}

Rows ==
  [status : Statuses, enteredFrom : Statuses \cup {"NONE"},
   cancelRequested : BOOLEAN, pastPonr : BOOLEAN]

-----------------------------------------------------------------------------
(* The table.  "NONE" is the absence of a row (T01); "ENTERED_FROM" (T22)  *)
(* and "SAME" (T26, an annotation) are destinations that are data.         *)

Transition(from, trigger, to, guards) ==
  [from |-> from, trigger |-> trigger, to |-> to, guards |-> guards]

PreparationTransitions ==
  {Transition({"NONE"}, "create", "DRAFT", {"workspace_active", "environment_valid"}),         \* T01
   Transition({"DRAFT"}, "run_preflight", "PREFLIGHTING",
              {"beneficiary_amount_purpose_present"}),                                         \* T02
   Transition({"PREFLIGHTING"}, "preflight_passed", "READY", {"no_blocking_requirements"}),    \* T03
   Transition({"PREFLIGHTING"}, "preflight_blocked", "ACTION_REQUIRED",
              {"has_blocking_requirements"}),                                                  \* T04
   Transition({"ACTION_REQUIRED"}, "requirement_resolved", "PREFLIGHTING",
              {"requirement_changed"}),                                                        \* T05
   Transition({"READY"}, "attach_quote", "QUOTED", {"quote_attachable"}),                      \* T06
   Transition({"QUOTED"}, "quote_expired", "READY", {"quote_expired_by_server_clock"}),        \* T07
   Transition({"QUOTED"}, "authorize", "AUTHORIZED",
              {"quote_valid_for_authorization", "beneficiary_verified",
               "destination_version_verified", "actor_may_authorize",
               "preflight_still_passing", "active_liquidity_facility"})}                       \* T08

FundingTransitions ==
  {Transition({"AUTHORIZED"}, "begin_reservation", "LIQUIDITY_RESERVING",
              {"facility_active", "no_cancellation_pending"}),                                 \* T09
   Transition({"LIQUIDITY_RESERVING"}, "reservation_succeeded", "LIQUIDITY_RESERVED",
              {"sufficient_availability"}),                                                    \* T10
   Transition({"LIQUIDITY_RESERVING"}, "reservation_failed", "EXCEPTION", {}),                 \* T11
   Transition({"LIQUIDITY_RESERVED"}, "request_drawdown", "DRAWDOWN_REQUESTED",
              {"active_reservation_exists", "no_cancellation_pending"}),                       \* T12
   Transition({"DRAWDOWN_REQUESTED"}, "drawdown_confirmed", "DRAWDOWN_CONFIRMED",
              {"provider_event_verified"}),                                                    \* T13
   Transition({"DRAWDOWN_REQUESTED"}, "drawdown_failed", "EXCEPTION",
              {"provider_event_verified"})}                                                    \* T14

PayoutTransitions ==
  {Transition({"DRAWDOWN_CONFIRMED"}, "dispatch_payout", "PAYOUT_SUBMITTED",
              {"rail_selected", "destination_version_verified",
               "no_cancellation_pending", "before_point_of_no_return"}),                       \* T15
   Transition({"PAYOUT_SUBMITTED"}, "payout_credited", "PAYOUT_CONFIRMED",
              {"trusted_provider_event", "utr_present_and_well_formed"}),                      \* T16
   Transition({"PAYOUT_SUBMITTED"}, "payout_rejected", "EXCEPTION",
              {"trusted_provider_event"}),                                                     \* T17
   Transition({"PAYOUT_SUBMITTED"}, "payout_timeout", "EXCEPTION", {"rail_sla_elapsed"}),      \* T18
   Transition({"PAYOUT_CONFIRMED"}, "begin_reconciliation", "RECONCILING", {}),                \* T19
   Transition({"RECONCILING"}, "reconciled_matched", "SETTLED", {"finality_conditions_met"}),  \* T20
   Transition({"RECONCILING"}, "reconciled_mismatch", "EXCEPTION", {"non_zero_delta"})}        \* T21

ResolutionTransitions ==
  {Transition({"EXCEPTION"}, "resolve_resume", "ENTERED_FROM", {"resolution_attributed"}),     \* T22
   Transition({"EXCEPTION"}, "resolve_fail", "FAILED",
              {"resolution_attributed", "no_value_delivered"}),                                \* T23
   Transition({"EXCEPTION"}, "resolve_cancel", "CANCELLED",
              {"resolution_attributed", "before_point_of_no_return"})}                         \* T24

CancellationTransitionsUnfunded ==   \* mutant: no T27 from DRAWDOWN_CONFIRMED
  {Transition({"DRAFT", "READY", "QUOTED", "ACTION_REQUIRED"}, "cancel", "CANCELLED",
              {"actor_may_cancel"}),
   Transition({"AUTHORIZED", "LIQUIDITY_RESERVING", "LIQUIDITY_RESERVED",
               "DRAWDOWN_REQUESTED", "DRAWDOWN_CONFIRMED"}, "request_cancellation", "SAME",
              {"before_point_of_no_return", "actor_may_cancel"}),
   Transition({"AUTHORIZED", "LIQUIDITY_RESERVED"}, "cancellation_honoured", "CANCELLED",
              {"cancellation_pending", "at_checkpoint", "before_point_of_no_return"})}

CancellationTransitions ==
  {Transition({"DRAFT", "READY", "QUOTED", "ACTION_REQUIRED"}, "cancel", "CANCELLED",
              {"actor_may_cancel"}),                                                          \* T25
   Transition({"AUTHORIZED", "LIQUIDITY_RESERVING", "LIQUIDITY_RESERVED",
               "DRAWDOWN_REQUESTED", "DRAWDOWN_CONFIRMED"}, "request_cancellation", "SAME",
              {"before_point_of_no_return", "actor_may_cancel"}),                              \* T26
   Transition({"AUTHORIZED", "LIQUIDITY_RESERVED", "DRAWDOWN_CONFIRMED"},
              "cancellation_honoured", "CANCELLED",
              {"cancellation_pending", "at_checkpoint", "before_point_of_no_return"})}         \* T27

SweeperTransitions ==
  {Transition({"LIQUIDITY_RESERVED"}, "reservation_expired", "EXCEPTION",
              {"reservation_ttl_reached"}),                                                    \* T28
   Transition({"DRAWDOWN_REQUESTED"}, "drawdown_timeout", "EXCEPTION",
              {"drawdown_sla_elapsed"}),                                                       \* T29
   Transition({"RECONCILING"}, "reconciliation_stalled", "EXCEPTION",
              {"reconciliation_sla_elapsed"})}                                                 \* T30

Transitions == PreparationTransitions \cup FundingTransitions \cup PayoutTransitions
               \cup ResolutionTransitions \cup CancellationTransitions \cup SweeperTransitions

(***************************************************************************)
(* evaluateTransition refuses a (status, trigger) pair with two candidate  *)
(* rows; the table has none.                                               *)
(***************************************************************************)
ASSUME TableIsUnambiguous ==
  \A s \in Statuses, t, u \in Transitions :
    t.trigger = u.trigger /\ s \in t.from /\ s \in u.from => t = u

-----------------------------------------------------------------------------
(***************************************************************************)
(* evaluateTransition: the table rows that trigger may take from row, when *)
(* the caller answered TRUE to exactly the guards in answers.  A guard     *)
(* unanswered or answered FALSE refuses, as does a resume with no recorded *)
(* origin.                                                                 *)
(***************************************************************************)
Permitted(row, trigger, answers) ==
  {t \in Transitions : /\ t.trigger = trigger
                       /\ row.status \in t.from
                       /\ t.guards \subseteq answers
                       /\ t.to = "ENTERED_FROM" => row.enteredFrom # "NONE"}

Refused(row, trigger, answers) == Permitted(row, trigger, answers) = {}

Destination(row, t) ==
  IF t.to = "ENTERED_FROM" THEN row.enteredFrom
  ELSE IF t.to = "SAME" THEN row.status
  ELSE t.to

(***************************************************************************)
(* The row applyTransition writes.  The two caller-supplied columns that   *)
(* matter ride on their own triggers: requestCancellation sets the flag,   *)
(* dispatchPayout stamps the PONR.  Leaving EXCEPTION keeps enteredFrom.   *)
(***************************************************************************)
Applied(row, t) ==
  [status          |-> Destination(row, t),
   enteredFrom     |-> IF t.to = "EXCEPTION" THEN row.status ELSE row.enteredFrom,
   cancelRequested |-> row.cancelRequested \/ t.trigger = "request_cancellation",
   pastPonr        |-> row.pastPonr \/ t.trigger = "dispatch_payout"]

(***************************************************************************)
(* protect_settlement_row.  An update it rejects raises, and the whole     *)
(* transaction rolls back.                                                 *)
(***************************************************************************)
ProtectSettlementRow(old, new) ==
  /\ old.status \notin TerminalStatuses
  /\ old.pastPonr => new.pastPonr
  /\ new.status = "EXCEPTION" /\ old.status # "EXCEPTION" => new.enteredFrom = old.status
  /\ old.status = "EXCEPTION" => new.enteredFrom = old.enteredFrom
  /\ old.status = "EXCEPTION" /\ new.status \notin {"EXCEPTION", "FAILED", "CANCELLED"} =>
       /\ new.status = old.enteredFrom
       /\ old.pastPonr => new.status \in DispatchedStatuses

(***************************************************************************)
(* The guards a caller answers from the settlements row it read.           *)
(***************************************************************************)
RowAnswers(row) ==
  (IF row.cancelRequested THEN {"cancellation_pending"} ELSE {"no_cancellation_pending"})
  \cup (IF row.pastPonr THEN {} ELSE {"before_point_of_no_return"})
=============================================================================
