----------------------------- MODULE Liquidity -----------------------------
(***************************************************************************)
(* One liquidity facility: its limit, what is drawn and reserved of it,    *)
(* the reservations (V01-V04) and repayments (Y01-Y08) that move those     *)
(* figures, and the double-entry ledger behind them                        *)
(* (packages/app/src/liquidity.service.ts, ops/liquidity.service.ts, the   *)
(* tables of packages/domain/src/liquidity, migration 0006).               *)
(*                                                                         *)
(* Every service call runs in one READ COMMITTED transaction that takes    *)
(* the rows it needs FOR UPDATE before it reads them, so a call is one     *)
(* atomic step.  A call that is refused, and a transaction that a CHECK    *)
(* or a unique index aborts, changes nothing and is no step at all.        *)
(* Currency, tenant and timestamps are left out: one facility has one      *)
(* currency and one tenant, and every mismatch is refused before a write.  *)
(***************************************************************************)
EXTENDS Totals

CONSTANTS
  Settlements,      \* settlements that may hold a reservation
  NoSettlement,     \* repayments.settlement_id IS NULL (MANUAL, SCHEDULED)
  MaxLimit,         \* bound: the largest limit an operator sets
  MaxReservations,  \* bound: rows of liquidity_reservations
  MaxRepayments,    \* bound: rows of repayments
  MaxAttempt        \* bound: submissions of one repayment (Y08)

ASSUME LiquidityAssumption ==
  /\ NoSettlement \notin Settlements
  /\ MaxLimit \in Nat
  /\ MaxReservations \in Nat
  /\ MaxRepayments \in Nat
  /\ MaxAttempt \in Nat \ {0}

VARIABLES
  facility,      \* the liquidity_facilities row
  reservations,  \* liquidity_reservations, rows in insertion order
  repayments,    \* repayments, rows in insertion order
  ledger         \* ledger_entries: value posted so far, per movement

liquidityVars == <<facility, reservations, repayments, ledger>>

ReservationIds == 1..MaxReservations
RepaymentIds   == 1..MaxRepayments
Amounts        == 1..MaxLimit

-----------------------------------------------------------------------------
(* Tables of packages/domain/src/liquidity *)

(***************************************************************************)
(* The two accounts a movement names: it credits the one and debits the    *)
(* other by the same amount.                                               *)
(***************************************************************************)
MovementPair ==
  [reservation_created  |-> [from |-> "available", to |-> "reserved"],
   reservation_released |-> [from |-> "reserved",  to |-> "available"],
   reservation_expired  |-> [from |-> "reserved",  to |-> "available"],
   reservation_consumed |-> [from |-> "reserved",  to |-> "drawn"],
   repayment_confirmed  |-> [from |-> "drawn",     to |-> "available"]]

Movements == DOMAIN MovementPair

ReservationTransitions ==
  {[trigger |-> "consume", to |-> "CONSUMED", movement |-> "reservation_consumed"],
   [trigger |-> "release", to |-> "RELEASED", movement |-> "reservation_released"],
   [trigger |-> "expire",  to |-> "EXPIRED",  movement |-> "reservation_expired"]}

RepaymentTransitions ==
  {[trigger |-> "submit",      from |-> "REQUESTED", to |-> "SUBMITTED"],
   [trigger |-> "confirmed",   from |-> "SUBMITTED", to |-> "CONFIRMED"],
   [trigger |-> "rejected",    from |-> "SUBMITTED", to |-> "FAILED"],
   [trigger |-> "sla_elapsed", from |-> "SUBMITTED", to |-> "UNKNOWN"],
   [trigger |-> "pull_resolved_confirmed", from |-> "UNKNOWN", to |-> "CONFIRMED"],
   [trigger |-> "pull_resolved_failed",    from |-> "UNKNOWN", to |-> "FAILED"],
   [trigger |-> "re_request",  from |-> "FAILED",    to |-> "REQUESTED"]}

InFlightStatuses == {"REQUESTED", "SUBMITTED", "UNKNOWN"}

-----------------------------------------------------------------------------
(* The facility row and its ledger *)

available == facility.limit - facility.drawn - facility.reserved

(***************************************************************************)
(* What a movement of amount adds to an account of the facility row.       *)
(***************************************************************************)
Delta(movement, amount, account) ==
  (IF MovementPair[movement].to   = account THEN amount ELSE 0) -
  (IF MovementPair[movement].from = account THEN amount ELSE 0)

(***************************************************************************)
(* The CHECK constraints of liquidity_facilities: a transaction whose row  *)
(* breaks one is rolled back.                                              *)
(***************************************************************************)
FacilityChecks(row) ==
  /\ row.drawn >= 0
  /\ row.reserved >= 0
  /\ row.limit - row.drawn - row.reserved >= 0

(***************************************************************************)
(* postMovement: the balanced pair of entries, and the projection on the   *)
(* facility row moved by the same amounts.                                 *)
(***************************************************************************)
PostMovement(movement, amount) ==
  /\ ledger' = [ledger EXCEPT ![movement] = @ + amount]
  /\ facility' = [status   |-> facility.status,
                  limit    |-> facility.limit,
                  drawn    |-> facility.drawn + Delta(movement, amount, "drawn"),
                  reserved |-> facility.reserved + Delta(movement, amount, "reserved")]
  /\ FacilityChecks(facility')

(***************************************************************************)
(* The position rebuilt from the ledger alone, and the alarm's comparison  *)
(* of it with the stored one.                                              *)
(***************************************************************************)
project_facility_position ==
  [reserved |-> ledger["reservation_created"] - ledger["reservation_released"]
                - ledger["reservation_expired"] - ledger["reservation_consumed"],
   drawn    |-> ledger["reservation_consumed"] - ledger["repayment_confirmed"]]

checkFacilityProjection ==
  /\ facility.reserved = project_facility_position.reserved
  /\ facility.drawn = project_facility_position.drawn

-----------------------------------------------------------------------------
(* Reservations *)

UnusedReservation == [settlement |-> NoSettlement, amount |-> 0, status |-> "NONE"]

IsNextReservation(i) ==
  /\ \A j \in i..MaxReservations : reservations[j].status = "NONE"
  /\ \A j \in 1..(i - 1) : reservations[j].status # "NONE"

ActiveReservations(s) ==
  {i \in ReservationIds : /\ reservations[i].settlement = s
                          /\ reservations[i].status = "ACTIVE"}

canReserveWhenSuspended(amount) == available >= amount   \* mutant: status ignored

canReserve(amount) ==
  /\ facility.status = "ACTIVE"
  /\ available >= amount

(***************************************************************************)
(* V01.  Availability is read under the facility lock, and a settlement    *)
(* that already holds an ACTIVE reservation is refused (INV-20, INV-21).   *)
(***************************************************************************)
reserveLiquidity(s, amount) ==
  /\ canReserve(amount)
  /\ ActiveReservations(s) = {}
  /\ \E i \in ReservationIds :
       /\ IsNextReservation(i)
       /\ reservations' = [reservations EXCEPT ![i] =
            [settlement |-> s, amount |-> amount, status |-> "ACTIVE"]]
  /\ PostMovement("reservation_created", amount)
  /\ UNCHANGED repayments

(***************************************************************************)
(* The trigger protect_reservation_row: whose money it is and how much do  *)
(* not change, and a reservation that left ACTIVE stays where it is.       *)
(***************************************************************************)
protect_reservation_row(old, new) ==
  /\ old.settlement = new.settlement /\ old.amount = new.amount
  /\ old.status # "ACTIVE" => new.status = old.status

(***************************************************************************)
(* lockReservation: the ACTIVE reservation of s if there is one, else the  *)
(* latest.  Only an ACTIVE one has an outgoing transition, so every other  *)
(* answer is a refusal or an idempotent no-op.                             *)
(***************************************************************************)
LeaveAnyStatus(s, trigger) ==   \* mutant: the release is not idempotent
  \E i \in ReservationIds, t \in ReservationTransitions :
    /\ reservations[i].settlement = s
    /\ reservations[i].status \in {"ACTIVE", "RELEASED", "EXPIRED"}
    /\ t.trigger = trigger
    /\ reservations' = [reservations EXCEPT ![i].status = t.to]
    /\ PostMovement(t.movement, reservations[i].amount)
    /\ UNCHANGED repayments

LeaveActive(s, trigger) ==
  \E i \in ActiveReservations(s), t \in ReservationTransitions :
    /\ t.trigger = trigger
    /\ reservations' = [reservations EXCEPT ![i] =
         [settlement |-> s, amount |-> reservations[i].amount, status |-> t.to]]
    /\ protect_reservation_row(reservations[i], reservations'[i])
    /\ PostMovement(t.movement, reservations[i].amount)
    /\ UNCHANGED repayments

releaseReservation(s) == LeaveActive(s, "release")   \* V03
expireReservation(s)  == LeaveActive(s, "expire")    \* V04
consumeReservation(s) == LeaveActive(s, "consume")   \* V02

-----------------------------------------------------------------------------
(* Repayments *)

UnusedRepayment ==
  [settlement |-> NoSettlement, amount |-> 0, status |-> "NONE", attempt |-> 0]

IsNextRepayment(r) ==
  /\ \A q \in r..MaxRepayments : repayments[q].status = "NONE"
  /\ \A q \in 1..(r - 1) : repayments[q].status # "NONE"

InFlightAmount(r) ==
  IF repayments[r].status \in InFlightStatuses THEN repayments[r].amount ELSE 0

InFlight == Total([r \in RepaymentIds |-> InFlightAmount(r)], MaxRepayments)

(***************************************************************************)
(* The part of drawn that no repayment in flight already claims.           *)
(***************************************************************************)
drawnOutstanding == facility.drawn   \* mutant: repayments in flight not netted

eligibleOutstanding ==
  IF facility.drawn > InFlight THEN facility.drawn - InFlight ELSE 0

(***************************************************************************)
(* The partial unique index repayments_one_live_per_settlement, which      *)
(* aborts the transaction that would give s a second row not FAILED.       *)
(***************************************************************************)
OneLiveRepayment(s, r) ==
  s # NoSettlement =>
    \A q \in RepaymentIds \ {r} :
      repayments[q].settlement = s => repayments[q].status = "FAILED"

(***************************************************************************)
(* Y01.  Nothing is restored; the amount may not exceed what is drawn and  *)
(* not already claimed (INV-46).                                           *)
(***************************************************************************)
requestRepayment(s, amount) ==
  /\ amount > 0
  /\ amount <= eligibleOutstanding
  /\ \E r \in RepaymentIds :
       /\ IsNextRepayment(r)
       /\ OneLiveRepayment(s, r)
       /\ repayments' = [repayments EXCEPT ![r] =
            [settlement |-> s, amount |-> amount, status |-> "REQUESTED", attempt |-> 1]]
  /\ UNCHANGED <<facility, reservations, ledger>>

(***************************************************************************)
(* The trigger protect_repayment_row: the amount does not change, a        *)
(* confirmed row stays confirmed, and a failed one is only asked for again *)
(* under a higher attempt number (INV-46, INV-47).                         *)
(***************************************************************************)
protect_repayment_row(old, new) ==
  /\ old.amount = new.amount
  /\ old.status = "CONFIRMED" => new.status = "CONFIRMED"
  /\ old.status = "FAILED" /\ new.status = "REQUESTED" => new.attempt > old.attempt

(***************************************************************************)
(* Y02-Y08.  Only a transition to CONFIRMED restores capacity; Y08 is a    *)
(* new submission of the same row, under a new attempt number, and checks  *)
(* no eligibility.                                                         *)
(***************************************************************************)
advanceRepayment(r, trigger) ==
  \E t \in RepaymentTransitions :
    /\ t.trigger = trigger
    /\ repayments[r].status = t.from
    /\ trigger = "re_request" => /\ repayments[r].attempt < MaxAttempt
                                /\ OneLiveRepayment(repayments[r].settlement, r)
    /\ repayments' = [repayments EXCEPT ![r] =
         [settlement |-> repayments[r].settlement,
          amount     |-> repayments[r].amount,
          status     |-> t.to,
          attempt    |-> repayments[r].attempt + (IF trigger = "re_request" THEN 1 ELSE 0)]]
    /\ protect_repayment_row(repayments[r], repayments'[r])
    /\ IF t.to = "CONFIRMED"
         THEN PostMovement("repayment_confirmed", repayments[r].amount)
         ELSE UNCHANGED <<facility, ledger>>
    /\ UNCHANGED reservations

-----------------------------------------------------------------------------
(* Operator controls on the facility *)

setFacilityLimit(limit) ==
  /\ limit >= facility.drawn + facility.reserved
  /\ facility' = [facility EXCEPT !.limit = limit]
  /\ FacilityChecks(facility')
  /\ UNCHANGED <<reservations, repayments, ledger>>

setFacilityStatus(status) ==
  /\ status # facility.status
  /\ facility' = [facility EXCEPT !.status = status]
  /\ UNCHANGED <<reservations, repayments, ledger>>

-----------------------------------------------------------------------------
(***************************************************************************)
(* createFacility: an ACTIVE facility with nothing drawn or reserved.      *)
(***************************************************************************)
LiquidityInit ==
  /\ facility \in {[status |-> "ACTIVE", limit |-> l, drawn |-> 0, reserved |-> 0]
                     : l \in 0..MaxLimit}
  /\ reservations = [i \in ReservationIds |-> UnusedReservation]
  /\ repayments = [r \in RepaymentIds |-> UnusedRepayment]
  /\ ledger = [m \in Movements |-> 0]

(***************************************************************************)
(* What an operator or a sweeper does to the facility without a            *)
(* settlement's state machine being involved.                              *)
(***************************************************************************)
FacilityOperation ==
  \/ \E limit \in 0..MaxLimit : setFacilityLimit(limit)
  \/ \E status \in {"ACTIVE", "SUSPENDED"} : setFacilityStatus(status)
  \/ \E amount \in Amounts : requestRepayment(NoSettlement, amount)
  \/ \E r \in RepaymentIds, t \in RepaymentTransitions : advanceRepayment(r, t.trigger)

(***************************************************************************)
(* The service on its own, driven by any sequence of legal calls.          *)
(***************************************************************************)
LiquidityNext ==
  \/ \E s \in Settlements, amount \in Amounts : reserveLiquidity(s, amount)
  \/ \E s \in Settlements : releaseReservation(s)
  \/ \E s \in Settlements : expireReservation(s)
  \/ \E s \in Settlements : consumeReservation(s)
  \/ \E s \in Settlements, amount \in Amounts : requestRepayment(s, amount)
  \/ FacilityOperation

LiquiditySpec == LiquidityInit /\ [][LiquidityNext]_liquidityVars

-----------------------------------------------------------------------------
(* Properties *)

Facilities ==
  [status : {"ACTIVE", "SUSPENDED"}, limit : 0..MaxLimit, drawn : Int, reserved : Int]

Reservations ==
  [settlement : Settlements \cup {NoSettlement}, amount : 0..MaxLimit,
   status : {"NONE", "ACTIVE", "CONSUMED", "RELEASED", "EXPIRED"}]

Repayments ==
  [settlement : Settlements \cup {NoSettlement}, amount : 0..MaxLimit,
   status : {"NONE", "REQUESTED", "SUBMITTED", "CONFIRMED", "FAILED", "UNKNOWN"},
   attempt : 0..MaxAttempt]

(***************************************************************************)
(* Facility, reservations and repayments keep to their columns, and every  *)
(* ledger entry posts a positive amount (CHECK amount_minor > 0).          *)
(***************************************************************************)
LiquidityTypeOK ==
  /\ facility \in Facilities
  /\ reservations \in [ReservationIds -> Reservations]
  /\ repayments \in [RepaymentIds -> Repayments]
  /\ ledger \in [Movements -> Nat]

ReservedRow(i) ==
  IF reservations[i].status = "ACTIVE" THEN reservations[i].amount ELSE 0

ConsumedRow(i) ==
  IF reservations[i].status = "CONSUMED" THEN reservations[i].amount ELSE 0

RepaidRow(r) ==
  IF repayments[r].status = "CONFIRMED" THEN repayments[r].amount ELSE 0

Reserved == Total([i \in ReservationIds |-> ReservedRow(i)], MaxReservations)
Consumed == Total([i \in ReservationIds |-> ConsumedRow(i)], MaxReservations)
Repaid   == Total([r \in RepaymentIds |-> RepaidRow(r)], MaxRepayments)

(***************************************************************************)
(* The reserved column equals the sum of the ACTIVE reservations, after    *)
(* any interleaving of reserve, release, expire and consume: nothing is    *)
(* released twice and nothing released stays counted (postMovement,        *)
(* releaseReservation, consumeReservation; INV-19, INV-22).                *)
(***************************************************************************)
ReservedIsActive == facility.reserved = Reserved

(***************************************************************************)
(* The drawn column equals what reservations consumed less what confirmed  *)
(* repayments gave back: a drawn unit is restored at most once, and only   *)
(* by a confirmation (consumeReservation, advanceRepayment; INV-46).       *)
(***************************************************************************)
DrawnIsOutstanding == facility.drawn = Consumed - Repaid

(***************************************************************************)
(* checkFacilityProjection agrees, after any sequence of calls: rebuilding *)
(* drawn and reserved from the ledger gives the stored columns (INV-23).   *)
(***************************************************************************)
LedgerProjection == checkFacilityProjection

(***************************************************************************)
(* INV-19: drawn and reserved never exceed the limit, whatever operators   *)
(* do to the limit while reservations and drawdowns are outstanding.       *)
(***************************************************************************)
NoOverAllocation ==
  /\ facility.reserved >= 0
  /\ facility.drawn >= 0
  /\ facility.drawn + facility.reserved <= facility.limit

(***************************************************************************)
(* While no failed repayment has been re-requested, the repayments in      *)
(* flight never claim more than is drawn, so no confirmation can run into  *)
(* CHECK (drawn_minor >= 0) (requestRepayment, eligibleOutstanding).       *)
(***************************************************************************)
ClaimsAreCovered ==
  (\A r \in RepaymentIds : repayments[r].attempt <= 1) => InFlight <= facility.drawn

(***************************************************************************)
(* A settlement never has two repayments that can still restore, or did    *)
(* restore, capacity (repayments_one_live_per_settlement and Y08).         *)
(***************************************************************************)
OneRestorationPerSettlement ==
  \A r, q \in RepaymentIds :
    /\ repayments[r].settlement = repayments[q].settlement
    /\ repayments[r].settlement # NoSettlement
    /\ repayments[r].status # "FAILED"
    /\ repayments[q].status # "FAILED"
    => r = q

(***************************************************************************)
(* Suspending a facility or moving its limit never touches what was        *)
(* promised, and a suspended facility takes on no new reservation:         *)
(* reserved rises only while it is ACTIVE (setFacilityStatus).             *)
(***************************************************************************)
NoExposureWhileSuspended ==
  [][facility'.reserved > facility.reserved =>
       facility.status = "ACTIVE" /\ facility'.status = "ACTIVE"]_liquidityVars

(***************************************************************************)
(* The facility is sound: its figures are those of its rows                *)
(* (ReservedIsActive, DrawnIsOutstanding) and of its ledger (INV-23), and  *)
(* within its limit (INV-19), after any sequence of calls.                 *)
(***************************************************************************)
FacilityBalances ==
  /\ LiquidityTypeOK
  /\ ReservedIsActive
  /\ DrawnIsOutstanding
  /\ LedgerProjection
  /\ NoOverAllocation

(***************************************************************************)
(* What is asked back was lent, and is given back once (requestRepayment,  *)
(* advanceRepayment; INV-46).                                              *)
(***************************************************************************)
RepaymentsAreCovered == ClaimsAreCovered /\ OneRestorationPerSettlement
=============================================================================
