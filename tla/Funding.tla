------------------------------ MODULE Funding ------------------------------
(***************************************************************************)
(* The funding leg: authorized settlements that share one facility reserve *)
(* liquidity, draw it down and, when they are cancelled, give it back      *)
(* (packages/app/src/settlement-liquidity.service.ts, with the calls of    *)
(* settlement.service.ts and ops/exception.service.ts that meet it).       *)
(*                                                                         *)
(* Every call locks the settlement or the rows it changes and is one       *)
(* atomic step, except reserveForSettlement, which is two transactions     *)
(* with a possible crash between them.  A call that returns a refusal      *)
(* COMMITS what it wrote before it was refused; only an error raised by    *)
(* the database rolls back.  The leg ends before dispatch, so the PONR     *)
(* guards are always answered TRUE and the unlocked reads of               *)
(* honourCancellation and resolveException cannot go stale here (module    *)
(* Settlement has those).                                                  *)
(***************************************************************************)
EXTENDS Liquidity, SettlementMachine

CONSTANTS
  FundingAmount,   \* the authorized funding amount of each settlement
  Answers          \* bound: what the provider's answers may come with

(***************************************************************************)
(* What came with an answer: whether the event was verified, and what the  *)
(* provider says it funded, against what the drawdown asked for.  Evidence *)
(* that does not match in every figure stated is no confirmation.          *)
(***************************************************************************)
Evidence ==
  [verified : BOOLEAN, currency : {"same", "other"},
   facility : {"same", "other", "unstated"}, amount : {"expected", "under", "over"}]

ASSUME FundingAssumption ==
  /\ FundingAmount \in [Settlements -> Amounts]
  /\ Answers \subseteq Evidence

VARIABLES
  settlements,  \* the settlements rows
  drawdowns,    \* the status of each settlement's drawdown row, or "NONE"
  reserving,    \* reserveForSettlement calls between their two transactions
  openRows      \* settlements with an open settlement_exceptions row

fundingVars == <<liquidityVars, settlements, drawdowns, reserving, openRows>>

-----------------------------------------------------------------------------
(***************************************************************************)
(* W02-W06 of packages/domain/src/liquidity/drawdown.ts.                   *)
(***************************************************************************)
DrawdownTransitions ==
  {[trigger |-> "confirmed",   from |-> "REQUESTED", to |-> "CONFIRMED"],
   [trigger |-> "failed",      from |-> "REQUESTED", to |-> "FAILED"],
   [trigger |-> "sla_elapsed", from |-> "REQUESTED", to |-> "UNKNOWN"],
   [trigger |-> "pull_resolved_confirmed", from |-> "UNKNOWN", to |-> "CONFIRMED"],
   [trigger |-> "pull_resolved_failed",    from |-> "UNKNOWN", to |-> "FAILED"]}

applyTransition(s, trigger, answers) ==
  \E t \in Permitted(settlements[s], trigger, answers) :
    /\ settlements' = [settlements EXCEPT ![s] = Applied(settlements[s], t)]
    /\ ProtectSettlementRow(settlements[s], settlements'[s])

(***************************************************************************)
(* A caller that carries on, and commits, when the transition is refused.  *)
(***************************************************************************)
applyOrReturnRefusal(s, trigger, answers) ==
  \/ applyTransition(s, trigger, answers)
  \/ Refused(settlements[s], trigger, answers) /\ UNCHANGED settlements

(***************************************************************************)
(* The reservation lockReservation finds: the ACTIVE one, else the latest. *)
(***************************************************************************)
LockedReservation(s) ==
  LET rows == {i \in ReservationIds : reservations[i].settlement = s}
  IN  {i \in rows : \/ reservations[i].status = "ACTIVE"
                    \/ /\ \A j \in rows : reservations[j].status # "ACTIVE" /\ j <= i}

ReservationStatus(s) ==
  IF LockedReservation(s) = {} THEN "NONE"
  ELSE reservations[CHOOSE i \in LockedReservation(s) : TRUE].status

-----------------------------------------------------------------------------
(* reserveForSettlement: T09, then T10 or T11 *)

beginReservation(s) ==
  /\ applyTransition(s, "begin_reservation",
                     RowAnswers(settlements[s]) \cup
                     (IF facility.status = "ACTIVE" THEN {"facility_active"} ELSE {}))
  /\ reserving' = reserving \cup {s}
  /\ UNCHANGED <<liquidityVars, drawdowns, openRows>>

(***************************************************************************)
(* The reservation is taken before the transition that claims it, and it   *)
(* is committed even if the settlement has moved on and T10 is refused.    *)
(***************************************************************************)
completeReservation(s) ==
  /\ s \in reserving
  /\ \/ /\ reserveLiquidity(s, FundingAmount[s])
        /\ applyOrReturnRefusal(s, "reservation_succeeded", {"sufficient_availability"})
     \/ /\ ~canReserve(FundingAmount[s]) \/ ActiveReservations(s) # {}
        /\ applyOrReturnRefusal(s, "reservation_failed", {})
        /\ UNCHANGED liquidityVars
  /\ reserving' = reserving \ {s}
  /\ UNCHANGED <<drawdowns, openRows>>

(***************************************************************************)
(* The process dies between the two transactions.                          *)
(***************************************************************************)
crashReserving(s) ==
  /\ s \in reserving
  /\ reserving' = reserving \ {s}
  /\ UNCHANGED <<liquidityVars, settlements, drawdowns, openRows>>

-----------------------------------------------------------------------------
(* Drawdown: T12, then T13, T14 or T29 *)

requestDrawdown(s) ==
  /\ applyTransition(s, "request_drawdown",
                     RowAnswers(settlements[s]) \cup
                     (IF ActiveReservations(s) # {} THEN {"active_reservation_exists"} ELSE {}))
  /\ ActiveReservations(s) # {}
  /\ drawdowns' = [drawdowns EXCEPT ![s] = "REQUESTED"]
  /\ UNCHANGED <<liquidityVars, reserving, openRows>>

(***************************************************************************)
(* The provider's answer.  An unverified or mismatched one, and a repeated *)
(* confirmation, change nothing.  Otherwise the drawdown row is written    *)
(* first; then the reservation is consumed (or released, idempotently), a  *)
(* refusal of which ends the call; then the settlement moves if the table  *)
(* lets it.                                                                *)
(***************************************************************************)
confirmWithoutConsuming(s) ==   \* mutant: V02 forgotten
  /\ applyOrReturnRefusal(s, "drawdown_confirmed", {"provider_event_verified"})
  /\ UNCHANGED liquidityVars

confirmDrawdown(s) ==
  \/ /\ consumeReservation(s)
     /\ applyOrReturnRefusal(s, "drawdown_confirmed", {"provider_event_verified"})
  \/ /\ ReservationStatus(s) # "ACTIVE"
     /\ UNCHANGED <<liquidityVars, settlements>>

failDrawdown(s) ==
  \/ /\ \/ releaseReservation(s)
        \/ ReservationStatus(s) \in {"RELEASED", "EXPIRED"} /\ UNCHANGED liquidityVars
     /\ applyOrReturnRefusal(s, "drawdown_failed", {"provider_event_verified"})
  \/ /\ ReservationStatus(s) \in {"NONE", "CONSUMED"}
     /\ UNCHANGED <<liquidityVars, settlements>>

timeOutDrawdown(s) ==
  /\ applyOrReturnRefusal(s, "drawdown_timeout", {"drawdown_sla_elapsed"})
  /\ UNCHANGED liquidityVars

(***************************************************************************)
(* The trigger protect_drawdown_row: a confirmed or failed drawdown does   *)
(* not move.                                                               *)
(***************************************************************************)
protect_drawdown_row(old, new) == old \in {"CONFIRMED", "FAILED"} => new = old

matchesDrawdown(evidence) ==
  /\ evidence.currency = "same"
  /\ evidence.facility # "other"
  /\ evidence.amount = "expected"

providerAnswered(to, evidence) ==
  /\ to \in {"CONFIRMED", "FAILED"} => evidence.verified
  /\ to = "CONFIRMED" => matchesDrawdown(evidence)

resolveDrawdown(s, trigger, evidence) ==
  \E w \in DrawdownTransitions :
    /\ w.trigger = trigger
    /\ drawdowns[s] = w.from
    /\ providerAnswered(w.to, evidence)
    /\ protect_drawdown_row(drawdowns[s], w.to)
    /\ drawdowns' = [drawdowns EXCEPT ![s] = w.to]
    /\ \/ w.to = "CONFIRMED" /\ confirmDrawdown(s)
       \/ w.to = "FAILED"    /\ failDrawdown(s)
       \/ w.to = "UNKNOWN"   /\ timeOutDrawdown(s)
    /\ UNCHANGED <<reserving, openRows>>

-----------------------------------------------------------------------------
(* Cancellation and its compensation *)

requestCancellation(s) ==
  /\ applyTransition(s, "request_cancellation",
                     {"actor_may_cancel"} \cup RowAnswers(settlements[s]))
  /\ UNCHANGED <<liquidityVars, drawdowns, reserving, openRows>>

honourCancellation(s) ==
  /\ applyTransition(s, "cancellation_honoured",
                     {"at_checkpoint"} \cup RowAnswers(settlements[s]))
  /\ UNCHANGED <<liquidityVars, drawdowns, reserving, openRows>>

(***************************************************************************)
(* What a cancellation owes is decided by where the reservation is: an     *)
(* ACTIVE one is released, a CONSUMED one becomes a repayment request, and *)
(* a released or expired one owes nothing (INV-22).                        *)
(***************************************************************************)
CompensationAtOnce(s) ==   \* mutant: capacity returns with the request
  \/ releaseReservation(s)
  \/ /\ ReservationStatus(s) = "CONSUMED"
     /\ PostMovement("repayment_confirmed", FundingAmount[s])
     /\ UNCHANGED <<reservations, repayments>>

CompensationTwice(s) ==   \* mutant: a released reservation is repaid as well
  \/ releaseReservation(s)
  \/ /\ ReservationStatus(s) \in {"CONSUMED", "RELEASED", "EXPIRED"}
     /\ \E i \in LockedReservation(s) : requestRepayment(s, reservations[i].amount)

Compensation(s) ==
  \/ releaseReservation(s)
  \/ /\ ReservationStatus(s) = "CONSUMED"
     /\ \E i \in LockedReservation(s) : requestRepayment(s, reservations[i].amount)
  \/ /\ ReservationStatus(s) \in {"NONE", "RELEASED", "EXPIRED"}
     /\ UNCHANGED liquidityVars

(***************************************************************************)
(* Called for a cancellation that has already been permitted.              *)
(***************************************************************************)
compensateCancellation(s) ==
  /\ settlements[s].status \in {"CANCELLED", "FAILED"}
  /\ Compensation(s)
  /\ UNCHANGED <<settlements, drawdowns, reserving, openRows>>

-----------------------------------------------------------------------------
(* Exceptions *)

openException(s, trigger) ==
  /\ s \notin openRows
  /\ applyTransition(s, trigger, {"provider_event_verified", "drawdown_sla_elapsed"})
  /\ openRows' = openRows \cup {s}
  /\ UNCHANGED <<liquidityVars, drawdowns, reserving>>

(***************************************************************************)
(* The reservation sweeper of docs/STATE_MACHINES.md section 9: V04 and    *)
(* T28 (openException with reservation_expired) in one transaction.        *)
(***************************************************************************)
sweepReservation(s) ==
  /\ s \notin openRows
  /\ expireReservation(s)
  /\ applyTransition(s, "reservation_expired", {"reservation_ttl_reached"})
  /\ openRows' = openRows \cup {s}
  /\ UNCHANGED <<drawdowns, reserving>>

ResolutionAnswers == {"resolution_attributed", "no_value_delivered", "before_point_of_no_return"}

resolveException(s, trigger) ==
  /\ applyTransition(s, trigger, ResolutionAnswers)
  /\ openRows' = openRows \ {s}
  /\ UNCHANGED <<liquidityVars, drawdowns, reserving>>

(***************************************************************************)
(* The operator's resolution compensates in the same transaction, by where *)
(* the reservation is and whatever the drawdown's status.                  *)
(***************************************************************************)
resolveExceptionAsOperator(s, trigger) ==
  /\ s \in openRows
  /\ IF trigger = "resolve_resume" THEN UNCHANGED liquidityVars ELSE Compensation(s)
  /\ \/ /\ applyTransition(s, trigger, ResolutionAnswers)
        /\ openRows' = openRows \ {s}
     \/ /\ Refused(settlements[s], trigger, ResolutionAnswers)
        /\ UNCHANGED <<settlements, openRows>>
  /\ UNCHANGED <<drawdowns, reserving>>

-----------------------------------------------------------------------------
FundingInit ==
  /\ LiquidityInit
  /\ settlements = [s \in Settlements |->
       [status |-> "AUTHORIZED", enteredFrom |-> "NONE",
        cancelRequested |-> FALSE, pastPonr |-> FALSE]]
  /\ drawdowns = [s \in Settlements |-> "NONE"]
  /\ reserving = {}
  /\ openRows = {}

OpenTriggers == {"reservation_failed", "drawdown_failed", "drawdown_timeout"}
ResolveTriggers == {"resolve_resume", "resolve_fail", "resolve_cancel"}

SettlementOperation(s) ==
  \/ beginReservation(s)
  \/ completeReservation(s)
  \/ crashReserving(s)
  \/ requestDrawdown(s)
  \/ \E w \in DrawdownTransitions, evidence \in Answers : resolveDrawdown(s, w.trigger, evidence)
  \/ requestCancellation(s)
  \/ honourCancellation(s)
  \/ compensateCancellation(s)
  \/ \E trigger \in OpenTriggers : openException(s, trigger)
  \/ sweepReservation(s)
  \/ \E trigger \in ResolveTriggers : resolveException(s, trigger)
  \/ \E trigger \in ResolveTriggers : resolveExceptionAsOperator(s, trigger)

FundingNext ==
  \/ \E s \in Settlements : SettlementOperation(s)
  \/ FacilityOperation /\ UNCHANGED <<settlements, drawdowns, reserving, openRows>>

FundingSpec == FundingInit /\ [][FundingNext]_fundingVars

-----------------------------------------------------------------------------
(* Properties *)

(***************************************************************************)
(* Facility, reservations, repayments, settlement rows and drawdown rows   *)
(* keep to their columns and CHECK constraints.                            *)
(***************************************************************************)
FundingTypeOK ==
  /\ LiquidityTypeOK
  /\ settlements \in [Settlements -> Rows]
  /\ drawdowns \in [Settlements -> {"NONE", "REQUESTED", "CONFIRMED", "FAILED", "UNKNOWN"}]
  /\ reserving \subseteq Settlements
  /\ openRows \subseteq Settlements

Reservation(s, status) ==
  \E i \in ReservationIds : /\ reservations[i].settlement = s
                            /\ reservations[i].status = status
                            /\ reservations[i].amount = FundingAmount[s]

(***************************************************************************)
(* Whatever the settlements do, the facility only ever sees legal calls of *)
(* the liquidity service, one at a time: the funding leg implements the    *)
(* facility's specification, so what holds of Liquidity holds here.        *)
(***************************************************************************)
ImplementsLiquidity == LiquiditySpec

(***************************************************************************)
(* A settlement that passed T13 is funded: its drawdown is CONFIRMED and   *)
(* its whole authorized amount was consumed.  The payout leg starts from   *)
(* here (resolveDrawdown, completeReservation).                            *)
(***************************************************************************)
FundedIsDrawn ==
  \A s \in Settlements :
    settlements[s].status = "DRAWDOWN_CONFIRMED" =>
      drawdowns[s] = "CONFIRMED" /\ Reservation(s, "CONSUMED")

(***************************************************************************)
(* Capacity is drawn only for a drawdown the provider confirmed: no        *)
(* timeout, failure, cancellation or expiry consumes a reservation.        *)
(***************************************************************************)
DrawnIsConfirmed ==
  \A s \in Settlements : Reservation(s, "CONSUMED") => drawdowns[s] = "CONFIRMED"

(***************************************************************************)
(* INV-22: what a cancellation gives back is what the settlement took.  A  *)
(* repayment for a settlement exists only if its reservation was consumed, *)
(* for the same amount, and only once the settlement was given up; a       *)
(* released or expired reservation is never also repaid                    *)
(* (compensateCancellation, resolveExceptionAsOperator).                   *)
(***************************************************************************)
CompensationMatchesFunding ==
  \A r \in RepaymentIds, s \in Settlements :
    repayments[r].settlement = s =>
      /\ Reservation(s, "CONSUMED")
      /\ repayments[r].amount = FundingAmount[s]
      /\ settlements[s].status \in {"CANCELLED", "FAILED"}

(***************************************************************************)
(* Funded means drawn and drawn means confirmed, at every step of every    *)
(* settlement on the facility (resolveDrawdown).                           *)
(***************************************************************************)
FundingIsBacked ==
  /\ FundingTypeOK
  /\ FundedIsDrawn
  /\ DrawnIsConfirmed
=============================================================================
