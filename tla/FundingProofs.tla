---------------------------- MODULE FundingProofs ----------------------------
(***************************************************************************)
(* The facility's figures and the funding leg that moves them, for every   *)
(* set of settlements, every limit and every number of reservations,       *)
(* repayments and re-requests: first what the facility keeps by itself,    *)
(* then what holds of the settlement and its provider calls as well.       *)
(***************************************************************************)
EXTENDS Funding, CommonProofs

-----------------------------------------------------------------------------
(* The facility (Liquidity) *)

(***************************************************************************)
(* A row that was inserted has been submitted at least once.  Y08 needs it *)
(* for ClaimsAreCovered: a re-requested row is told by its attempt number. *)
(***************************************************************************)
AttemptsStartAtOne ==
  \A r \in RepaymentIds : repayments[r].status # "NONE" => repayments[r].attempt >= 1

LiquidityInv ==
  /\ LiquidityTypeOK
  /\ AttemptsStartAtOne
  /\ ReservedIsActive
  /\ DrawnIsOutstanding
  /\ LedgerProjection
  /\ NoOverAllocation
  /\ ClaimsAreCovered
  /\ OneRestorationPerSettlement

(***************************************************************************)
(* The sums over the tables are integers.                                  *)
(***************************************************************************)
LEMMA TotalsAreIntegers ==
  ASSUME LiquidityTypeOK
  PROVE  /\ Reserved \in Nat
         /\ Consumed \in Nat
         /\ Repaid \in Nat
         /\ InFlight \in Nat
<1> USE LiquidityAssumption DEF ReservationIds, RepaymentIds
<1>1. /\ [i \in ReservationIds |-> ReservedRow(i)] \in [1..MaxReservations -> Nat]
      /\ [i \in ReservationIds |-> ConsumedRow(i)] \in [1..MaxReservations -> Nat]
  BY DEF LiquidityTypeOK, Reservations, ReservedRow, ConsumedRow
<1>2. /\ [r \in RepaymentIds |-> RepaidRow(r)] \in [1..MaxRepayments -> Nat]
      /\ [r \in RepaymentIds |-> InFlightAmount(r)] \in [1..MaxRepayments -> Nat]
  BY DEF LiquidityTypeOK, Repayments, RepaidRow, InFlightAmount
<1>3. Reserved \in Nat /\ Consumed \in Nat
  BY <1>1, TotalOfNaturals DEF Reserved, Consumed
<1>4. Repaid \in Nat /\ InFlight \in Nat
  BY <1>2, TotalOfNaturals DEF Repaid, InFlight
<1> QED
  BY <1>3, <1>4

(***************************************************************************)
(* Writing one reservation row moves the two sums by what the row adds.    *)
(***************************************************************************)
LEMMA ReservationRowChange ==
  ASSUME LiquidityTypeOK, NEW i \in ReservationIds, NEW row \in Reservations,
         reservations' = [reservations EXCEPT ![i] = row]
  PROVE  /\ reservations' \in [ReservationIds -> Reservations]
         /\ Reserved' = Reserved + ReservedRow(i)' - ReservedRow(i)
         /\ Consumed' = Consumed + ConsumedRow(i)' - ConsumedRow(i)
<1> USE LiquidityAssumption DEF ReservationIds
<1>1. reservations' \in [ReservationIds -> Reservations]
  BY DEF LiquidityTypeOK
<1> DEFINE f == [j \in ReservationIds |-> ReservedRow(j)]
           g == [j \in ReservationIds |-> ReservedRow(j)']
           c == [j \in ReservationIds |-> ConsumedRow(j)]
           d == [j \in ReservationIds |-> ConsumedRow(j)']
<1>2. /\ f \in [1..MaxReservations -> Int] /\ g \in [1..MaxReservations -> Int]
      /\ c \in [1..MaxReservations -> Int] /\ d \in [1..MaxReservations -> Int]
  BY <1>1 DEF LiquidityTypeOK, Reservations, ReservedRow, ConsumedRow
<1>3. \A j \in 1..MaxReservations : j # i => g[j] = f[j] /\ d[j] = c[j]
  BY DEF LiquidityTypeOK, ReservedRow, ConsumedRow
<1>4. Reserved = Total(f, MaxReservations) /\ Reserved' = Total(g, MaxReservations)
  BY DEF Reserved
<1>5. Consumed = Total(c, MaxReservations) /\ Consumed' = Total(d, MaxReservations)
  BY DEF Consumed
<1>6. /\ f[i] = ReservedRow(i) /\ g[i] = ReservedRow(i)'
      /\ c[i] = ConsumedRow(i) /\ d[i] = ConsumedRow(i)'
  OBVIOUS
<1> HIDE DEF f, g, c, d
<1>u. \A old, new \in [1..MaxReservations -> Int] :
        (\A j \in 1..MaxReservations : j # i => new[j] = old[j])
        => Total(new, MaxReservations) = Total(old, MaxReservations) + new[i] - old[i]
  BY TotalUpdate
<1>7. Total(g, MaxReservations) = Total(f, MaxReservations) + g[i] - f[i]
  BY <1>2, <1>3, <1>u
<1>8. Total(d, MaxReservations) = Total(c, MaxReservations) + d[i] - c[i]
  BY <1>2, <1>3, <1>u
<1> QED
  BY <1>1, <1>4, <1>5, <1>6, <1>7, <1>8

(***************************************************************************)
(* The same for a repayment row.                                           *)
(***************************************************************************)
LEMMA RepaymentRowChange ==
  ASSUME LiquidityTypeOK, NEW r \in RepaymentIds, NEW row \in Repayments,
         repayments' = [repayments EXCEPT ![r] = row]
  PROVE  /\ repayments' \in [RepaymentIds -> Repayments]
         /\ Repaid' = Repaid + RepaidRow(r)' - RepaidRow(r)
         /\ InFlight' = InFlight + InFlightAmount(r)' - InFlightAmount(r)
<1> USE LiquidityAssumption DEF RepaymentIds
<1>1. repayments' \in [RepaymentIds -> Repayments]
  BY DEF LiquidityTypeOK
<1> DEFINE f == [q \in RepaymentIds |-> RepaidRow(q)]
           g == [q \in RepaymentIds |-> RepaidRow(q)']
           c == [q \in RepaymentIds |-> InFlightAmount(q)]
           d == [q \in RepaymentIds |-> InFlightAmount(q)']
<1>2. /\ f \in [1..MaxRepayments -> Int] /\ g \in [1..MaxRepayments -> Int]
      /\ c \in [1..MaxRepayments -> Int] /\ d \in [1..MaxRepayments -> Int]
  BY <1>1 DEF LiquidityTypeOK, Repayments, RepaidRow, InFlightAmount
<1>3. \A q \in 1..MaxRepayments : q # r => g[q] = f[q] /\ d[q] = c[q]
  BY DEF LiquidityTypeOK, RepaidRow, InFlightAmount
<1>4. Repaid = Total(f, MaxRepayments) /\ Repaid' = Total(g, MaxRepayments)
  BY DEF Repaid
<1>5. InFlight = Total(c, MaxRepayments) /\ InFlight' = Total(d, MaxRepayments)
  BY DEF InFlight
<1>6. /\ f[r] = RepaidRow(r) /\ g[r] = RepaidRow(r)'
      /\ c[r] = InFlightAmount(r) /\ d[r] = InFlightAmount(r)'
  OBVIOUS
<1> HIDE DEF f, g, c, d
<1>u. \A old, new \in [1..MaxRepayments -> Int] :
        (\A j \in 1..MaxRepayments : j # r => new[j] = old[j])
        => Total(new, MaxRepayments) = Total(old, MaxRepayments) + new[r] - old[r]
  BY TotalUpdate
<1>7. Total(g, MaxRepayments) = Total(f, MaxRepayments) + g[r] - f[r]
  BY <1>2, <1>3, <1>u
<1>8. Total(d, MaxRepayments) = Total(c, MaxRepayments) + d[r] - c[r]
  BY <1>2, <1>3, <1>u
<1> QED
  BY <1>1, <1>4, <1>5, <1>6, <1>7, <1>8

(***************************************************************************)
(* postMovement keeps the columns and the ledger in step, and what its     *)
(* CHECK lets through is never over-allocated.                             *)
(***************************************************************************)
LEMMA PostMovementKeepsLedger ==
  ASSUME LiquidityTypeOK, LedgerProjection,
         NEW m \in Movements, NEW amount \in Nat, PostMovement(m, amount)
  PROVE  /\ facility' \in Facilities
         /\ ledger' \in [Movements -> Nat]
         /\ LedgerProjection'
         /\ NoOverAllocation'
         /\ facility'.status = facility.status
         /\ facility'.drawn = facility.drawn + Delta(m, amount, "drawn")
         /\ facility'.reserved = facility.reserved + Delta(m, amount, "reserved")
<1>0. /\ facility \in Facilities
      /\ ledger \in [Movements -> Nat]
      /\ DOMAIN MovementPair = Movements
      /\ Movements = {"reservation_created", "reservation_released", "reservation_expired",
                      "reservation_consumed", "repayment_confirmed"}
  BY DEF LiquidityTypeOK, Movements, MovementPair
<1>1. Delta(m, amount, "drawn") \in Int /\ Delta(m, amount, "reserved") \in Int
  BY DEF Delta
<1>2. /\ facility' \in Facilities
      /\ facility'.status = facility.status
      /\ facility'.drawn = facility.drawn + Delta(m, amount, "drawn")
      /\ facility'.reserved = facility.reserved + Delta(m, amount, "reserved")
  BY <1>0, <1>1 DEF PostMovement, Facilities
<1>3. ledger' = [ledger EXCEPT ![m] = @ + amount] /\ ledger' \in [Movements -> Nat]
  BY <1>0 DEF PostMovement
<1>4. NoOverAllocation'
  <2>1. FacilityChecks(facility')
    BY DEF PostMovement
  <2> QED
    BY <1>2, <2>1 DEF FacilityChecks, NoOverAllocation, Facilities
<1>5. LedgerProjection'
  <2> USE <1>0, <1>2, <1>3 DEF LedgerProjection,
      checkFacilityProjection, project_facility_position, Facilities
  <2>1. CASE m = "reservation_created"
    <3>1. Delta(m, amount, "drawn") = 0 /\ Delta(m, amount, "reserved") = amount
      BY <2>1 DEF Delta, MovementPair
    <3> QED
      BY <2>1, <3>1
  <2>2. CASE m = "reservation_released" \/ m = "reservation_expired"
    <3>1. Delta(m, amount, "drawn") = 0 /\ Delta(m, amount, "reserved") = -amount
      BY <2>2 DEF Delta, MovementPair
    <3> QED
      BY <2>2, <3>1
  <2>3. CASE m = "reservation_consumed"
    <3>1. Delta(m, amount, "drawn") = amount /\ Delta(m, amount, "reserved") = -amount
      BY <2>3 DEF Delta, MovementPair
    <3> QED
      BY <2>3, <3>1
  <2>4. CASE m = "repayment_confirmed"
    <3>1. Delta(m, amount, "drawn") = -amount /\ Delta(m, amount, "reserved") = 0
      BY <2>4 DEF Delta, MovementPair
    <3> QED
      BY <2>4, <3>1
  <2> QED
    BY <2>1, <2>2, <2>3, <2>4
<1> QED
  BY <1>2, <1>3, <1>4, <1>5

(***************************************************************************)
(* V01 keeps the invariant: reserved grows by the new ACTIVE row.          *)
(***************************************************************************)
LEMMA ReserveKeepsInv ==
  ASSUME LiquidityInv, NEW s \in Settlements, NEW amount \in Amounts,
         reserveLiquidity(s, amount)
  PROVE  LiquidityInv'
<1> DEFINE row == [settlement |-> s, amount |-> amount, status |-> "ACTIVE"]
<1>0. LiquidityTypeOK /\ LedgerProjection /\ UNCHANGED repayments
  BY DEF LiquidityInv, reserveLiquidity
<1>1. PICK i \in ReservationIds : /\ IsNextReservation(i)
                                  /\ reservations' = [reservations EXCEPT ![i] = row]
  BY DEF reserveLiquidity
<1>2. amount \in Nat /\ row \in Reservations
  BY LiquidityAssumption DEF Amounts, Reservations
<1>3. /\ reservations[i].status = "NONE"
      /\ reservations[i] \in Reservations
  BY <1>0, <1>1, LiquidityAssumption DEF IsNextReservation, ReservationIds, LiquidityTypeOK
<1>4. /\ reservations' \in [ReservationIds -> Reservations]
      /\ Reserved' = Reserved + ReservedRow(i)' - ReservedRow(i)
      /\ Consumed' = Consumed + ConsumedRow(i)' - ConsumedRow(i)
  BY <1>0, <1>1, <1>2, ReservationRowChange
<1>5. /\ ReservedRow(i)' = amount /\ ReservedRow(i) = 0
      /\ ConsumedRow(i)' = 0 /\ ConsumedRow(i) = 0
  BY <1>0, <1>1, <1>3 DEF ReservedRow, ConsumedRow, LiquidityTypeOK
<1>6. /\ facility' \in Facilities
      /\ ledger' \in [Movements -> Nat]
      /\ LedgerProjection'
      /\ NoOverAllocation'
      /\ facility'.drawn = facility.drawn + Delta("reservation_created", amount, "drawn")
      /\ facility'.reserved = facility.reserved + Delta("reservation_created", amount, "reserved")
  <2>1. PostMovement("reservation_created", amount)
    BY DEF reserveLiquidity
  <2>2. "reservation_created" \in Movements
    BY DEF Movements, MovementPair
  <2> QED
    BY <1>0, <1>2, <2>1, <2>2, PostMovementKeepsLedger
<1>7. /\ Delta("reservation_created", amount, "drawn") = 0
      /\ Delta("reservation_created", amount, "reserved") = amount
  BY <1>2 DEF Delta, MovementPair
<1>8. Reserved \in Nat /\ Consumed \in Nat /\ Repaid \in Nat /\ InFlight \in Nat
  BY <1>0, TotalsAreIntegers
<1>9. facility.drawn \in Int /\ facility.reserved \in Int
  BY <1>0 DEF LiquidityTypeOK, Facilities
<1>10. Repaid' = Repaid /\ InFlight' = InFlight
  BY <1>0 DEF Repaid, RepaidRow, InFlight, InFlightAmount
<1>11. LiquidityTypeOK'
  BY <1>0, <1>4, <1>6 DEF LiquidityTypeOK
<1>12. ReservedIsActive' /\ DrawnIsOutstanding'
  BY <1>2, <1>4, <1>5, <1>6, <1>7, <1>8, <1>9, <1>10
  DEF LiquidityInv, ReservedIsActive, DrawnIsOutstanding
<1>13. AttemptsStartAtOne' /\ OneRestorationPerSettlement'
  BY <1>0 DEF LiquidityInv, AttemptsStartAtOne, OneRestorationPerSettlement
<1>14. ClaimsAreCovered'
  BY <1>0, <1>6, <1>7, <1>8, <1>9, <1>10 DEF LiquidityInv, ClaimsAreCovered
<1> QED
  BY <1>6, <1>11, <1>12, <1>13, <1>14 DEF LiquidityInv

(***************************************************************************)
(* V02, V03 and V04 keep it: an ACTIVE row leaves reserved once, and goes  *)
(* to drawn only when it is consumed.                                      *)
(***************************************************************************)
LEMMA LeaveActiveKeepsInv ==
  ASSUME LiquidityInv, NEW s \in Settlements, NEW trigger, LeaveActive(s, trigger)
  PROVE  LiquidityInv'
<1>0. LiquidityTypeOK /\ LedgerProjection /\ UNCHANGED repayments
  BY DEF LiquidityInv, LeaveActive
<1>1. PICK i \in ActiveReservations(s), t \in ReservationTransitions :
        /\ reservations' = [reservations EXCEPT ![i] =
             [settlement |-> s, amount |-> reservations[i].amount, status |-> t.to]]
        /\ PostMovement(t.movement, reservations[i].amount)
  BY DEF LeaveActive
<1> DEFINE amount == reservations[i].amount
           row == [settlement |-> s, amount |-> amount, status |-> t.to]
<1>2. /\ i \in ReservationIds
      /\ reservations[i] \in Reservations
      /\ reservations[i].status = "ACTIVE"
      /\ amount \in Nat
  BY <1>0, LiquidityAssumption DEF ActiveReservations, LiquidityTypeOK, Reservations
<1>3. \/ t.to = "CONSUMED" /\ t.movement = "reservation_consumed"
      \/ t.to = "RELEASED" /\ t.movement = "reservation_released"
      \/ t.to = "EXPIRED" /\ t.movement = "reservation_expired"
  BY DEF ReservationTransitions
<1>4. row \in Reservations /\ reservations' = [reservations EXCEPT ![i] = row]
  BY <1>0, <1>1, <1>2, <1>3 DEF Reservations, LiquidityTypeOK
<1>5. /\ reservations' \in [ReservationIds -> Reservations]
      /\ Reserved' = Reserved + ReservedRow(i)' - ReservedRow(i)
      /\ Consumed' = Consumed + ConsumedRow(i)' - ConsumedRow(i)
  BY <1>0, <1>2, <1>4, ReservationRowChange
<1>6. /\ ReservedRow(i)' = 0 /\ ReservedRow(i) = amount
      /\ ConsumedRow(i)' = (IF t.to = "CONSUMED" THEN amount ELSE 0) /\ ConsumedRow(i) = 0
  BY <1>0, <1>2, <1>3, <1>4 DEF ReservedRow, ConsumedRow, LiquidityTypeOK
<1>7. /\ facility' \in Facilities
      /\ ledger' \in [Movements -> Nat]
      /\ LedgerProjection'
      /\ NoOverAllocation'
      /\ facility'.drawn = facility.drawn + Delta(t.movement, amount, "drawn")
      /\ facility'.reserved = facility.reserved + Delta(t.movement, amount, "reserved")
  <2>1. t.movement \in Movements
    BY <1>3 DEF Movements, MovementPair
  <2> QED
    BY <1>0, <1>1, <1>2, <2>1, PostMovementKeepsLedger
<1>8. /\ Delta(t.movement, amount, "drawn") = (IF t.to = "CONSUMED" THEN amount ELSE 0)
      /\ Delta(t.movement, amount, "reserved") = -amount
  BY <1>2, <1>3 DEF Delta, MovementPair
<1>9. /\ Reserved \in Nat /\ Consumed \in Nat /\ Repaid \in Nat /\ InFlight \in Nat
      /\ facility.drawn \in Int /\ facility.reserved \in Int
  BY <1>0, TotalsAreIntegers DEF LiquidityTypeOK, Facilities
<1>10. Repaid' = Repaid /\ InFlight' = InFlight
  BY <1>0 DEF Repaid, RepaidRow, InFlight, InFlightAmount
<1> HIDE DEF amount
<1>11. LiquidityTypeOK'
  BY <1>0, <1>5, <1>7 DEF LiquidityTypeOK
<1>12. ReservedIsActive' /\ DrawnIsOutstanding'
  BY <1>2, <1>5, <1>6, <1>7, <1>8, <1>9, <1>10
  DEF LiquidityInv, ReservedIsActive, DrawnIsOutstanding
<1>13. AttemptsStartAtOne' /\ OneRestorationPerSettlement'
  BY <1>0 DEF LiquidityInv, AttemptsStartAtOne, OneRestorationPerSettlement
<1>14. ClaimsAreCovered'
  BY <1>0, <1>2, <1>7, <1>8, <1>9, <1>10 DEF LiquidityInv, ClaimsAreCovered
<1> QED
  BY <1>7, <1>11, <1>12, <1>13, <1>14 DEF LiquidityInv

(***************************************************************************)
(* Y01 keeps it: a new claim is made only on what nothing else claims, and *)
(* the unique index keeps a settlement to one live repayment.              *)
(***************************************************************************)
LEMMA RequestRepaymentKeepsInv ==
  ASSUME LiquidityInv, NEW s \in Settlements \cup {NoSettlement}, NEW amount \in Amounts,
         requestRepayment(s, amount)
  PROVE  LiquidityInv'
<1> DEFINE row == [settlement |-> s, amount |-> amount, status |-> "REQUESTED", attempt |-> 1]
<1>0. /\ LiquidityTypeOK
      /\ UNCHANGED <<facility, reservations, ledger>>
      /\ amount <= eligibleOutstanding
  BY DEF LiquidityInv, requestRepayment
<1>1. PICK r \in RepaymentIds : /\ IsNextRepayment(r)
                                /\ OneLiveRepayment(s, r)
                                /\ repayments' = [repayments EXCEPT ![r] = row]
  BY DEF requestRepayment
<1>2. amount \in Nat /\ amount > 0 /\ row \in Repayments
  BY LiquidityAssumption DEF Amounts, Repayments
<1>3. repayments[r].status = "NONE" /\ repayments \in [RepaymentIds -> Repayments]
  BY <1>0, <1>1, LiquidityAssumption DEF IsNextRepayment, RepaymentIds, LiquidityTypeOK
<1>4. /\ repayments' \in [RepaymentIds -> Repayments]
      /\ Repaid' = Repaid + RepaidRow(r)' - RepaidRow(r)
      /\ InFlight' = InFlight + InFlightAmount(r)' - InFlightAmount(r)
  BY <1>0, <1>1, <1>2, RepaymentRowChange
<1>5. /\ RepaidRow(r)' = 0 /\ RepaidRow(r) = 0
      /\ InFlightAmount(r)' = amount /\ InFlightAmount(r) = 0
  BY <1>1, <1>3 DEF RepaidRow, InFlightAmount, InFlightStatuses
<1>6. /\ Reserved \in Nat /\ Consumed \in Nat /\ Repaid \in Nat /\ InFlight \in Nat
      /\ facility.drawn \in Int
  BY <1>0, TotalsAreIntegers DEF LiquidityTypeOK, Facilities
<1>7. Reserved' = Reserved /\ Consumed' = Consumed
  BY <1>0 DEF Reserved, ReservedRow, Consumed, ConsumedRow
<1>8. LiquidityTypeOK'
  BY <1>0, <1>4 DEF LiquidityTypeOK
<1>9. ReservedIsActive' /\ DrawnIsOutstanding' /\ LedgerProjection' /\ NoOverAllocation'
  <2>1. ReservedIsActive' /\ LedgerProjection' /\ NoOverAllocation'
    BY <1>0, <1>7 DEF LiquidityInv, ReservedIsActive, LedgerProjection,
        checkFacilityProjection, project_facility_position, NoOverAllocation
  <2>2. Repaid' = Repaid
    BY <1>4, <1>5, <1>6
  <2>3. DrawnIsOutstanding'
    BY <1>0, <1>7, <2>2 DEF LiquidityInv, DrawnIsOutstanding
  <2> QED
    BY <2>1, <2>3
<1>10. AttemptsStartAtOne'
  BY <1>1, <1>3 DEF LiquidityInv, AttemptsStartAtOne
<1>11. OneRestorationPerSettlement'
  BY <1>1, <1>3 DEF LiquidityInv, OneRestorationPerSettlement, OneLiveRepayment
<1>12. ClaimsAreCovered'
  <2>1. InFlight' <= facility'.drawn
    BY <1>0, <1>2, <1>4, <1>5, <1>6 DEF eligibleOutstanding
  <2> QED
    BY <2>1 DEF ClaimsAreCovered
<1> QED
  BY <1>8, <1>9, <1>10, <1>11, <1>12 DEF LiquidityInv

(***************************************************************************)
(* Y02-Y08 keep it: drawn falls exactly when a row reaches CONFIRMED, and  *)
(* a re-request leaves the premise of ClaimsAreCovered for good.           *)
(***************************************************************************)
LEMMA AdvanceRepaymentKeepsInv ==
  ASSUME LiquidityInv, NEW r \in RepaymentIds, NEW trigger, advanceRepayment(r, trigger)
  PROVE  LiquidityInv'
<1> DEFINE amount == repayments[r].amount
           retry == IF trigger = "re_request" THEN 1 ELSE 0
<1>0. LiquidityTypeOK /\ LedgerProjection /\ UNCHANGED reservations
  BY DEF LiquidityInv, advanceRepayment
<1>1. PICK t \in RepaymentTransitions :
        /\ t.trigger = trigger
        /\ repayments[r].status = t.from
        /\ trigger = "re_request" => /\ repayments[r].attempt < MaxAttempt
                                    /\ OneLiveRepayment(repayments[r].settlement, r)
        /\ repayments' = [repayments EXCEPT ![r] =
             [settlement |-> repayments[r].settlement,
              amount     |-> repayments[r].amount,
              status     |-> t.to,
              attempt    |-> repayments[r].attempt + (IF trigger = "re_request" THEN 1 ELSE 0)]]
        /\ IF t.to = "CONFIRMED"
             THEN PostMovement("repayment_confirmed", repayments[r].amount)
             ELSE UNCHANGED <<facility, ledger>>
  BY DEF advanceRepayment
<1> DEFINE row == [settlement |-> repayments[r].settlement, amount |-> amount,
                   status |-> t.to, attempt |-> repayments[r].attempt + retry]
<1>2. /\ repayments \in [RepaymentIds -> Repayments]
      /\ repayments[r] \in Repayments
      /\ amount \in Nat
      /\ repayments[r].attempt \in Nat
  BY <1>0, LiquidityAssumption DEF LiquidityTypeOK, Repayments
<1>3. \/ /\ t.from \in InFlightStatuses /\ trigger # "re_request"
         /\ t.to \in {"SUBMITTED", "UNKNOWN"}
      \/ /\ t.from \in {"SUBMITTED", "UNKNOWN"} /\ trigger # "re_request"
         /\ t.to = "FAILED"
      \/ /\ t.from \in {"SUBMITTED", "UNKNOWN"} /\ trigger # "re_request"
         /\ t.to = "CONFIRMED"
      \/ t.from = "FAILED" /\ t.to = "REQUESTED" /\ trigger = "re_request"
  BY <1>1 DEF RepaymentTransitions, InFlightStatuses
<1>4. row \in Repayments /\ repayments' = [repayments EXCEPT ![r] = row]
  BY <1>1, <1>2, <1>3, LiquidityAssumption DEF Repayments
<1>5. /\ repayments' \in [RepaymentIds -> Repayments]
      /\ Repaid' = Repaid + RepaidRow(r)' - RepaidRow(r)
      /\ InFlight' = InFlight + InFlightAmount(r)' - InFlightAmount(r)
  BY <1>0, <1>4, RepaymentRowChange
<1>6. /\ RepaidRow(r)' = (IF t.to = "CONFIRMED" THEN amount ELSE 0)
      /\ RepaidRow(r) = 0
      /\ InFlightAmount(r)' = (IF t.to \in InFlightStatuses THEN amount ELSE 0)
      /\ InFlightAmount(r) = (IF t.from \in InFlightStatuses THEN amount ELSE 0)
  <2>1. repayments'[r] = row
    BY <1>2, <1>4
  <2>2. t.from # "CONFIRMED"
    BY <1>3 DEF InFlightStatuses
  <2> QED
    BY <1>1, <2>1, <2>2 DEF RepaidRow, InFlightAmount
<1>7. /\ facility' \in Facilities
      /\ ledger' \in [Movements -> Nat]
      /\ LedgerProjection'
      /\ NoOverAllocation'
      /\ facility'.drawn = facility.drawn - (IF t.to = "CONFIRMED" THEN amount ELSE 0)
      /\ facility'.reserved = facility.reserved
  <2>1. CASE t.to = "CONFIRMED"
    <3>1. /\ Delta("repayment_confirmed", amount, "drawn") = -amount
          /\ Delta("repayment_confirmed", amount, "reserved") = 0
      BY <1>2 DEF Delta, MovementPair
    <3>2. "repayment_confirmed" \in Movements
      BY DEF Movements, MovementPair
    <3>3. PostMovement("repayment_confirmed", amount)
      BY <1>1, <2>1
    <3>4. /\ facility' \in Facilities
          /\ ledger' \in [Movements -> Nat]
          /\ LedgerProjection'
          /\ NoOverAllocation'
          /\ facility'.drawn = facility.drawn + Delta("repayment_confirmed", amount, "drawn")
          /\ facility'.reserved = facility.reserved + Delta("repayment_confirmed", amount, "reserved")
      BY <1>0, <1>2, <3>2, <3>3, PostMovementKeepsLedger
    <3> QED
      BY <1>0, <1>2, <2>1, <3>1, <3>4 DEF LiquidityTypeOK, Facilities
  <2>2. CASE t.to # "CONFIRMED"
    BY <1>0, <1>1, <2>2
    DEF LiquidityInv, LiquidityTypeOK, Facilities, LedgerProjection,
        checkFacilityProjection, project_facility_position, NoOverAllocation
  <2> QED
    BY <2>1, <2>2
<1>8. /\ Reserved \in Nat /\ Consumed \in Nat /\ Repaid \in Nat /\ InFlight \in Nat
      /\ facility.drawn \in Int /\ facility.reserved \in Int
  BY <1>0, TotalsAreIntegers DEF LiquidityTypeOK, Facilities
<1>9. Reserved' = Reserved /\ Consumed' = Consumed
  BY <1>0 DEF Reserved, ReservedRow, Consumed, ConsumedRow
<1>10. LiquidityTypeOK'
  BY <1>0, <1>5, <1>7 DEF LiquidityTypeOK
<1>11. ReservedIsActive' /\ DrawnIsOutstanding'
  <2> HIDE DEF amount
  <2> QED
    BY <1>2, <1>5, <1>6, <1>7, <1>8, <1>9
    DEF LiquidityInv, ReservedIsActive, DrawnIsOutstanding
<1>12. AttemptsStartAtOne'
  <2>1. repayments[r].attempt >= 1
    BY <1>1, <1>2, <1>3 DEF LiquidityInv, AttemptsStartAtOne, InFlightStatuses
  <2> QED
    BY <1>2, <1>4, <2>1 DEF LiquidityInv, AttemptsStartAtOne
<1>13. OneRestorationPerSettlement'
  <2>1. CASE trigger = "re_request"
    BY <1>1, <1>2, <1>4, <2>1 DEF LiquidityInv, OneRestorationPerSettlement, OneLiveRepayment
  <2>2. CASE trigger # "re_request"
    <3>1. repayments[r].status # "FAILED"
      BY <1>1, <1>3, <2>2 DEF InFlightStatuses
    <3> QED
      BY <1>2, <1>4, <3>1 DEF LiquidityInv, OneRestorationPerSettlement
  <2> QED
    BY <2>1, <2>2
<1>14. ClaimsAreCovered'
  <2>1. CASE trigger = "re_request"
    <3>1. repayments[r].attempt >= 1
      BY <1>1, <1>2, <1>3, <2>1 DEF LiquidityInv, AttemptsStartAtOne, InFlightStatuses
    <3>2. repayments'[r].attempt > 1
      BY <1>2, <1>4, <2>1, <3>1
    <3> QED
      BY <3>2, <1>5 DEF ClaimsAreCovered, Repayments
  <2>2. CASE trigger # "re_request"
    <3>1. \A q \in RepaymentIds : repayments'[q].attempt = repayments[q].attempt
      BY <1>2, <1>4, <2>2
    <3>2. ASSUME InFlight <= facility.drawn PROVE InFlight' <= facility'.drawn
      <4> HIDE DEF amount
      <4> QED
        BY <1>2, <1>3, <1>5, <1>6, <1>7, <1>8, <2>2, <3>2 DEF InFlightStatuses
    <3> QED
      BY <3>1, <3>2 DEF LiquidityInv, ClaimsAreCovered
  <2> QED
    BY <2>1, <2>2
<1> QED
  BY <1>7, <1>10, <1>11, <1>12, <1>13, <1>14 DEF LiquidityInv

(***************************************************************************)
(* setFacilityLimit and setFacilityStatus keep it: they leave drawn and    *)
(* reserved alone, and the limit never goes below their sum.               *)
(***************************************************************************)
LEMMA OperatorKeepsInv ==
  ASSUME LiquidityInv,
         \/ \E limit \in 0..MaxLimit : setFacilityLimit(limit)
         \/ \E status \in {"ACTIVE", "SUSPENDED"} : setFacilityStatus(status)
  PROVE  LiquidityInv'
<1>1. UNCHANGED <<reservations, repayments, ledger>>
  BY DEF setFacilityLimit, setFacilityStatus
<1>2. /\ facility' \in Facilities
      /\ facility'.drawn = facility.drawn
      /\ facility'.reserved = facility.reserved
      /\ facility'.drawn + facility'.reserved <= facility'.limit
  <2>0. facility \in Facilities /\ NoOverAllocation
    BY DEF LiquidityInv, LiquidityTypeOK
  <2>1. ASSUME NEW limit \in 0..MaxLimit, setFacilityLimit(limit)
        PROVE  /\ facility' \in Facilities
               /\ facility'.drawn = facility.drawn
               /\ facility'.reserved = facility.reserved
               /\ facility'.drawn + facility'.reserved <= facility'.limit
    BY <2>0, <2>1, LiquidityAssumption DEF setFacilityLimit, Facilities
  <2>2. ASSUME NEW status \in {"ACTIVE", "SUSPENDED"}, setFacilityStatus(status)
        PROVE  /\ facility' \in Facilities
               /\ facility'.drawn = facility.drawn
               /\ facility'.reserved = facility.reserved
               /\ facility'.drawn + facility'.reserved <= facility'.limit
    BY <2>0, <2>2 DEF setFacilityStatus, Facilities, NoOverAllocation
  <2> QED
    BY <2>1, <2>2
<1>3. /\ Reserved' = Reserved /\ Consumed' = Consumed
      /\ Repaid' = Repaid /\ InFlight' = InFlight
  BY <1>1 DEF Reserved, ReservedRow, Consumed, ConsumedRow, Repaid, RepaidRow,
              InFlight, InFlightAmount
<1>4. LiquidityTypeOK' /\ AttemptsStartAtOne' /\ OneRestorationPerSettlement'
  BY <1>1, <1>2
  DEF LiquidityInv, LiquidityTypeOK, AttemptsStartAtOne, OneRestorationPerSettlement
<1>5. ReservedIsActive' /\ DrawnIsOutstanding' /\ ClaimsAreCovered'
  BY <1>1, <1>2, <1>3 DEF LiquidityInv, ReservedIsActive, DrawnIsOutstanding, ClaimsAreCovered
<1>6. LedgerProjection' /\ NoOverAllocation'
  BY <1>1, <1>2 DEF LiquidityInv, LedgerProjection,
      checkFacilityProjection, project_facility_position, NoOverAllocation
<1> QED
  BY <1>4, <1>5, <1>6 DEF LiquidityInv

(***************************************************************************)
(* A new facility satisfies the invariant: all sums are zero.              *)
(***************************************************************************)
LEMMA InitEstablishesInv == LiquidityInit => LiquidityInv
<1> SUFFICES ASSUME LiquidityInit PROVE LiquidityInv
  OBVIOUS
<1>1. LiquidityTypeOK
  BY LiquidityAssumption
  DEF LiquidityInit, LiquidityTypeOK, Facilities, Reservations, Repayments,
      UnusedReservation, UnusedRepayment
<1>2. \A i \in ReservationIds : ReservedRow(i) = 0 /\ ConsumedRow(i) = 0
  BY DEF LiquidityInit, UnusedReservation, ReservedRow, ConsumedRow
<1>3. \A r \in RepaymentIds : RepaidRow(r) = 0 /\ InFlightAmount(r) = 0
  BY DEF LiquidityInit, UnusedRepayment, RepaidRow, InFlightAmount, InFlightStatuses
<1>4. Reserved = 0 /\ Consumed = 0
  <2>1. \A f \in [1..MaxReservations -> Int] :
          (\A k \in 1..MaxReservations : f[k] = 0) => Total(f, MaxReservations) = 0
    BY TotalOfZeros, LiquidityAssumption
  <2> DEFINE f == [k \in ReservationIds |-> ReservedRow(k)]
             g == [k \in ReservationIds |-> ConsumedRow(k)]
  <2>2. /\ f \in [1..MaxReservations -> Int] /\ g \in [1..MaxReservations -> Int]
        /\ \A k \in 1..MaxReservations : f[k] = 0 /\ g[k] = 0
    BY <1>2 DEF ReservationIds
  <2>3. Reserved = Total(f, MaxReservations) /\ Consumed = Total(g, MaxReservations)
    BY DEF Reserved, Consumed
  <2> HIDE DEF f, g
  <2> QED
    BY <2>1, <2>2, <2>3
<1>5. Repaid = 0 /\ InFlight = 0
  <2>1. \A f \in [1..MaxRepayments -> Int] :
          (\A k \in 1..MaxRepayments : f[k] = 0) => Total(f, MaxRepayments) = 0
    BY TotalOfZeros, LiquidityAssumption
  <2> DEFINE f == [k \in RepaymentIds |-> RepaidRow(k)]
             g == [k \in RepaymentIds |-> InFlightAmount(k)]
  <2>2. /\ f \in [1..MaxRepayments -> Int] /\ g \in [1..MaxRepayments -> Int]
        /\ \A k \in 1..MaxRepayments : f[k] = 0 /\ g[k] = 0
    BY <1>3 DEF RepaymentIds
  <2>3. Repaid = Total(f, MaxRepayments) /\ InFlight = Total(g, MaxRepayments)
    BY DEF Repaid, InFlight
  <2> HIDE DEF f, g
  <2> QED
    BY <2>1, <2>2, <2>3
<1>6. facility.drawn = 0 /\ facility.reserved = 0 /\ facility.limit \in Nat
  BY LiquidityAssumption DEF LiquidityInit
<1>7. ReservedIsActive /\ DrawnIsOutstanding /\ NoOverAllocation /\ ClaimsAreCovered
  BY <1>4, <1>5, <1>6 DEF ReservedIsActive, DrawnIsOutstanding, NoOverAllocation, ClaimsAreCovered
<1>8. LedgerProjection
  BY <1>6 DEF LiquidityInit, LedgerProjection,
      checkFacilityProjection, project_facility_position, Movements, MovementPair
<1>9. AttemptsStartAtOne /\ OneRestorationPerSettlement
  BY DEF LiquidityInit, UnusedRepayment, AttemptsStartAtOne, OneRestorationPerSettlement
<1> QED
  BY <1>1, <1>7, <1>8, <1>9 DEF LiquidityInv

(***************************************************************************)
(* Every step of the service keeps the invariant, one case per operation.  *)
(***************************************************************************)
LEMMA NextKeepsInv == LiquidityInv /\ [LiquidityNext]_liquidityVars => LiquidityInv'
<1> SUFFICES ASSUME LiquidityInv, [LiquidityNext]_liquidityVars PROVE LiquidityInv'
  OBVIOUS
<1>1. ASSUME NEW s \in Settlements, NEW amount \in Amounts, reserveLiquidity(s, amount)
      PROVE  LiquidityInv'
  BY <1>1, ReserveKeepsInv
<1>2. ASSUME NEW s \in Settlements,
             releaseReservation(s) \/ expireReservation(s) \/ consumeReservation(s)
      PROVE  LiquidityInv'
  <2>1. \E trigger \in {"release", "expire", "consume"} : LeaveActive(s, trigger)
    BY <1>2 DEF releaseReservation, expireReservation, consumeReservation
  <2> QED
    BY <2>1, LeaveActiveKeepsInv
<1>3. ASSUME NEW s \in Settlements \cup {NoSettlement}, NEW amount \in Amounts,
             requestRepayment(s, amount)
      PROVE  LiquidityInv'
  BY <1>3, RequestRepaymentKeepsInv
<1>4. ASSUME NEW r \in RepaymentIds, NEW t \in RepaymentTransitions,
             advanceRepayment(r, t.trigger)
      PROVE  LiquidityInv'
  BY <1>4, AdvanceRepaymentKeepsInv
<1>5. ASSUME \/ \E limit \in 0..MaxLimit : setFacilityLimit(limit)
             \/ \E status \in {"ACTIVE", "SUSPENDED"} : setFacilityStatus(status)
      PROVE  LiquidityInv'
  BY <1>5, OperatorKeepsInv
<1>6. ASSUME UNCHANGED liquidityVars PROVE LiquidityInv'
  BY <1>6
  DEF liquidityVars, LiquidityInv, LiquidityTypeOK, AttemptsStartAtOne, ReservedIsActive,
      DrawnIsOutstanding, LedgerProjection, checkFacilityProjection, project_facility_position,
      NoOverAllocation, ClaimsAreCovered,
      OneRestorationPerSettlement, Reserved, ReservedRow, Consumed, ConsumedRow, Repaid,
      RepaidRow, InFlight, InFlightAmount
<1> QED
  BY <1>1, <1>2, <1>3, <1>4, <1>5, <1>6 DEF LiquidityNext, FacilityOperation

(***************************************************************************)
(* Every reachable state of the liquidity service has well-typed rows.     *)
(***************************************************************************)
THEOREM LiquidityTypeCorrect == LiquiditySpec => []LiquidityTypeOK
<1>1. LiquidityInv => LiquidityTypeOK
  BY DEF LiquidityInv
<1> QED
  BY <1>1, InitEstablishesInv, NextKeepsInv, PTL DEF LiquiditySpec

(***************************************************************************)
(* INV-19, INV-22 and INV-46 in one: the reserved column is the sum of the *)
(* ACTIVE reservations and the drawn column is what was consumed less what *)
(* confirmed repayments restored, whatever the order of the calls.         *)
(***************************************************************************)
THEOREM FiguresMatchRows == LiquiditySpec => [](ReservedIsActive /\ DrawnIsOutstanding)
<1>1. LiquidityInv => ReservedIsActive /\ DrawnIsOutstanding
  BY DEF LiquidityInv
<1> QED
  BY <1>1, InitEstablishesInv, NextKeepsInv, PTL DEF LiquiditySpec

(***************************************************************************)
(* INV-23 and INV-19: the ledger always rebuilds the stored figures, and   *)
(* drawn plus reserved never exceeds the limit.                            *)
(***************************************************************************)
THEOREM LedgerAndLimitHold == LiquiditySpec => [](LedgerProjection /\ NoOverAllocation)
<1>1. LiquidityInv => LedgerProjection /\ NoOverAllocation
  BY DEF LiquidityInv
<1> QED
  BY <1>1, InitEstablishesInv, NextKeepsInv, PTL DEF LiquiditySpec

(***************************************************************************)
(* Until a failed repayment is re-requested, repayments in flight never    *)
(* claim more than is drawn; and a settlement never has two repayments     *)
(* that restored or can still restore capacity.                            *)
(***************************************************************************)
THEOREM RepaymentClaims ==
  LiquiditySpec => [](ClaimsAreCovered /\ OneRestorationPerSettlement)
<1>1. LiquidityInv => ClaimsAreCovered /\ OneRestorationPerSettlement
  BY DEF LiquidityInv
<1> QED
  BY <1>1, InitEstablishesInv, NextKeepsInv, PTL DEF LiquiditySpec

(***************************************************************************)
(* setFacilityStatus: a suspended facility takes on no new exposure, and   *)
(* no other operation than V01 raises reserved.                            *)
(***************************************************************************)
THEOREM SuspensionStopsReservations == LiquiditySpec => NoExposureWhileSuspended
<1> DEFINE Step == facility'.reserved > facility.reserved =>
                     facility.status = "ACTIVE" /\ facility'.status = "ACTIVE"
<1>1. ASSUME LiquidityInv, [LiquidityNext]_liquidityVars PROVE [Step]_liquidityVars
  <2>0. /\ LiquidityTypeOK /\ LedgerProjection
        /\ facility \in Facilities /\ facility.reserved \in Int
    BY <1>1 DEF LiquidityInv, LiquidityTypeOK, Facilities
  <2>1. ASSUME NEW s \in Settlements, NEW amount \in Amounts, reserveLiquidity(s, amount)
        PROVE  Step
    <3>1. facility.status = "ACTIVE"
      BY <2>1 DEF reserveLiquidity, canReserve
    <3>2. facility'.status = facility.status
      BY <2>1 DEF reserveLiquidity, PostMovement
    <3> QED
      BY <3>1, <3>2
  <2>2. ASSUME NEW s \in Settlements, NEW trigger, LeaveActive(s, trigger)
        PROVE  Step
    <3>1. PICK i \in ActiveReservations(s), t \in ReservationTransitions :
            PostMovement(t.movement, reservations[i].amount)
      BY <2>2 DEF LeaveActive
    <3>2. reservations[i].amount \in Nat
      BY <2>0, LiquidityAssumption DEF ActiveReservations, LiquidityTypeOK, Reservations
    <3>3. t.movement \in {"reservation_consumed", "reservation_released", "reservation_expired"}
      BY DEF ReservationTransitions
    <3>4. t.movement \in Movements
      BY <3>3 DEF Movements, MovementPair
    <3>5. Delta(t.movement, reservations[i].amount, "reserved") = -reservations[i].amount
      BY <3>2, <3>3 DEF Delta, MovementPair
    <3>6. facility'.reserved =
            facility.reserved + Delta(t.movement, reservations[i].amount, "reserved")
      BY <2>0, <3>1, <3>2, <3>4, PostMovementKeepsLedger
    <3> QED
      BY <2>0, <3>2, <3>5, <3>6
  <2>3. ASSUME NEW s, NEW amount, requestRepayment(s, amount) PROVE Step
    <3>1. facility' = facility
      BY <2>3 DEF requestRepayment
    <3> QED
      BY <2>0, <3>1
  <2>4. ASSUME NEW r \in RepaymentIds, NEW trigger, advanceRepayment(r, trigger) PROVE Step
    <3>1. \/ UNCHANGED facility
          \/ PostMovement("repayment_confirmed", repayments[r].amount)
      BY <2>4 DEF advanceRepayment
    <3>2. repayments[r].amount \in Nat /\ "repayment_confirmed" \in Movements
      BY <2>0, LiquidityAssumption DEF LiquidityTypeOK, Repayments, Movements, MovementPair
    <3>3. Delta("repayment_confirmed", repayments[r].amount, "reserved") = 0
      BY <3>2 DEF Delta, MovementPair
    <3>4. CASE PostMovement("repayment_confirmed", repayments[r].amount)
      <4>1. facility'.reserved =
              facility.reserved + Delta("repayment_confirmed", repayments[r].amount, "reserved")
        BY <2>0, <3>2, <3>4, PostMovementKeepsLedger
      <4> QED
        BY <2>0, <3>3, <4>1
    <3> QED
      BY <2>0, <3>1, <3>4
  <2>5. ASSUME \/ \E limit \in 0..MaxLimit : setFacilityLimit(limit)
               \/ \E status \in {"ACTIVE", "SUSPENDED"} : setFacilityStatus(status)
        PROVE  Step
    <3>1. facility'.reserved = facility.reserved
      <4>1. ASSUME NEW limit \in 0..MaxLimit, setFacilityLimit(limit)
            PROVE  facility'.reserved = facility.reserved
        BY <2>0, <4>1 DEF setFacilityLimit, Facilities
      <4>2. ASSUME NEW status \in {"ACTIVE", "SUSPENDED"}, setFacilityStatus(status)
            PROVE  facility'.reserved = facility.reserved
        BY <2>0, <4>2 DEF setFacilityStatus, Facilities
      <4> QED
        BY <2>5, <4>1, <4>2
    <3> QED
      BY <2>0, <3>1
  <2> HIDE DEF Step
  <2> QED
    BY <1>1, <2>1, <2>2, <2>3, <2>4, <2>5
    DEF LiquidityNext, FacilityOperation, releaseReservation, expireReservation,
        consumeReservation
<1> QED
  BY <1>1, InitEstablishesInv, NextKeepsInv, PTL DEF LiquiditySpec, NoExposureWhileSuspended

(***************************************************************************)
(* FacilityBalances: after any sequence of calls, for any settlements and  *)
(* bounds, the facility's figures are those of its rows and of its ledger, *)
(* and within its limit (postMovement and its callers; INV-19, INV-23).    *)
(***************************************************************************)
THEOREM FacilityIsSound == LiquiditySpec => []FacilityBalances
<1>1. LiquidityInv => FacilityBalances
  BY DEF LiquidityInv, FacilityBalances
<1> QED
  BY <1>1, InitEstablishesInv, NextKeepsInv, PTL DEF LiquiditySpec

(***************************************************************************)
(* RepaymentsAreCovered: what is asked back was lent and is given back     *)
(* once (requestRepayment, advanceRepayment).                              *)
(***************************************************************************)
THEOREM RepaymentsAreSound == LiquiditySpec => []RepaymentsAreCovered
<1>1. LiquidityInv => RepaymentsAreCovered
  BY DEF LiquidityInv, RepaymentsAreCovered
<1> QED
  BY <1>1, InitEstablishesInv, NextKeepsInv, PTL DEF LiquiditySpec

-----------------------------------------------------------------------------
(* The funding leg (Funding) *)

(***************************************************************************)
(* Every reservation of a settlement is for its authorized amount.         *)
(***************************************************************************)
AmountsAreAuthorized ==
  \A i \in ReservationIds, s \in Settlements :
    reservations[i].settlement = s => reservations[i].amount = FundingAmount[s]

Late == {"DRAWDOWN_REQUESTED", "DRAWDOWN_CONFIRMED", "CANCELLED", "FAILED"}

(***************************************************************************)
(* What holds of one settlement: an open exception row means EXCEPTION; a  *)
(* drawdown row exists only once the settlement asked for it, and it never *)
(* goes back to before; no exception is entered from DRAWDOWN_CONFIRMED;   *)
(* and the three properties themselves.                                    *)
(***************************************************************************)
SettlementOK(s) ==
  /\ s \in openRows => settlements[s].status = "EXCEPTION"
  /\ drawdowns[s] # "NONE" => PhaseOf(settlements[s]) \in Late
  /\ settlements[s].enteredFrom # "DRAWDOWN_CONFIRMED"
  /\ Reservation(s, "CONSUMED") => drawdowns[s] = "CONFIRMED"
  /\ settlements[s].status = "DRAWDOWN_CONFIRMED" =>
       drawdowns[s] = "CONFIRMED" /\ Reservation(s, "CONSUMED")
  /\ \A r \in RepaymentIds :
       repayments[r].settlement = s =>
         /\ Reservation(s, "CONSUMED")
         /\ repayments[r].amount = FundingAmount[s]
         /\ settlements[s].status \in {"CANCELLED", "FAILED"}

FundingInv ==
  /\ LiquidityInv
  /\ FundingTypeOK
  /\ AmountsAreAuthorized
  /\ \A s \in Settlements : SettlementOK(s)

-----------------------------------------------------------------------------
(***************************************************************************)
(* A repayment the service grants is of an amount the facility could lend. *)
(***************************************************************************)
LEMMA RepaymentAmountIsLegal ==
  ASSUME LiquidityInv, NEW s, NEW amount \in Int, requestRepayment(s, amount)
  PROVE  amount \in Amounts
<1>1. /\ facility.drawn \in Int /\ facility.reserved \in Int /\ facility.limit \in 0..MaxLimit
      /\ facility.reserved >= 0 /\ facility.drawn >= 0
      /\ facility.drawn + facility.reserved <= facility.limit
  BY DEF LiquidityInv, LiquidityTypeOK, Facilities, NoOverAllocation
<1>2. InFlight \in Nat
  BY TotalsAreIntegers DEF LiquidityInv
<1>3. amount > 0 /\ amount <= eligibleOutstanding
  BY DEF requestRepayment
<1>4. eligibleOutstanding <= facility.drawn
  BY <1>1, <1>2 DEF eligibleOutstanding
<1>5. eligibleOutstanding \in Int
  BY <1>1, <1>2 DEF eligibleOutstanding
<1> QED
  BY <1>1, <1>3, <1>4, <1>5, LiquidityAssumption DEF Amounts

(***************************************************************************)
(* Compensation is a release, a legal repayment request, or nothing.       *)
(***************************************************************************)
LEMMA CompensationIsLegal ==
  ASSUME LiquidityInv, NEW s \in Settlements, Compensation(s)
  PROVE  \/ releaseReservation(s)
         \/ \E amount \in Amounts : requestRepayment(s, amount)
         \/ UNCHANGED liquidityVars
<1>1. CASE \E i \in LockedReservation(s) : requestRepayment(s, reservations[i].amount)
  <2>1. PICK i \in LockedReservation(s) : requestRepayment(s, reservations[i].amount)
    BY <1>1
  <2>2. i \in ReservationIds
    BY DEF LockedReservation
  <2>3. reservations[i].amount \in Int
    BY <2>2, LiquidityAssumption DEF LiquidityInv, LiquidityTypeOK, Reservations
  <2> QED
    BY <2>1, <2>3, RepaymentAmountIsLegal
<1> QED
  BY <1>1 DEF Compensation

(***************************************************************************)
(* Whatever a settlement does is, for the facility, one call or none.      *)
(***************************************************************************)
LEMMA FundingStepIsLiquidityStep ==
  ASSUME LiquidityInv, [FundingNext]_fundingVars
  PROVE  [LiquidityNext]_liquidityVars
<1>1. ASSUME NEW s \in Settlements, SettlementOperation(s)
      PROVE  [LiquidityNext]_liquidityVars
  <2>0. FundingAmount[s] \in Amounts
    BY FundingAssumption
  <2>1. CASE \/ beginReservation(s) \/ crashReserving(s) \/ requestDrawdown(s)
             \/ requestCancellation(s) \/ honourCancellation(s)
             \/ \E trigger \in OpenTriggers : openException(s, trigger)
             \/ \E trigger \in ResolveTriggers : resolveException(s, trigger)
    <3>1. UNCHANGED liquidityVars
      BY <2>1 DEF beginReservation, crashReserving, requestDrawdown, requestCancellation,
                  honourCancellation, openException, resolveException
    <3> QED
      BY <3>1
  <2>2. CASE completeReservation(s)
    <3>1. reserveLiquidity(s, FundingAmount[s]) \/ UNCHANGED liquidityVars
      BY <2>2 DEF completeReservation
    <3> QED
      BY <2>0, <3>1 DEF LiquidityNext
  <2>3. ASSUME NEW w \in DrawdownTransitions, NEW e \in Answers, resolveDrawdown(s, w.trigger, e)
        PROVE  [LiquidityNext]_liquidityVars
    <3>1. confirmDrawdown(s) \/ failDrawdown(s) \/ timeOutDrawdown(s)
      BY <2>3 DEF resolveDrawdown
    <3>2. consumeReservation(s) \/ releaseReservation(s) \/ UNCHANGED liquidityVars
      BY <3>1 DEF confirmDrawdown, failDrawdown, timeOutDrawdown
    <3> QED
      BY <3>2 DEF LiquidityNext
  <2>4. CASE compensateCancellation(s) \/ \E trigger \in ResolveTriggers :
               resolveExceptionAsOperator(s, trigger)
    <3>1. Compensation(s) \/ UNCHANGED liquidityVars
      BY <2>4 DEF compensateCancellation, resolveExceptionAsOperator
    <3> QED
      BY <3>1, CompensationIsLegal DEF LiquidityNext
  <2>5. CASE sweepReservation(s)
    <3>1. expireReservation(s)
      BY <2>5 DEF sweepReservation
    <3> QED
      BY <3>1 DEF LiquidityNext
  <2> QED
    BY <1>1, <2>1, <2>2, <2>3, <2>4, <2>5 DEF SettlementOperation
<1>2. CASE FacilityOperation
  BY <1>2 DEF LiquidityNext
<1>3. CASE UNCHANGED fundingVars
  BY <1>3 DEF fundingVars
<1> QED
  BY <1>1, <1>2, <1>3 DEF FundingNext

(***************************************************************************)
(* The funding leg implements the facility's specification: every          *)
(* behaviour of several settlements that reserve, crash, draw, cancel and  *)
(* compensate is a behaviour of Liquidity, so the theorems of              *)
(* the facility hold of it (settlement-liquidity.service.ts).              *)
(***************************************************************************)
THEOREM FundingImplementsLiquidity == FundingSpec => ImplementsLiquidity
<1>1. FundingInit => LiquidityInit /\ LiquidityInv
  BY InitEstablishesInv DEF FundingInit
<1>2. LiquidityInv /\ [FundingNext]_fundingVars => LiquidityInv' /\ [LiquidityNext]_liquidityVars
  BY FundingStepIsLiquidityStep, NextKeepsInv
<1> QED
  BY <1>1, <1>2, PTL DEF FundingSpec, ImplementsLiquidity, LiquiditySpec

-----------------------------------------------------------------------------
(* What the calls of the liquidity service do to the rows of a settlement *)

ConsumedKept ==
  \A u \in Settlements : Reservation(u, "CONSUMED") => Reservation(u, "CONSUMED")'

ConsumedIsOld(u) == Reservation(u, "CONSUMED")' => Reservation(u, "CONSUMED")

RepaymentsAreOld(u) ==
  \A r \in RepaymentIds :
    repayments'[r].settlement = u =>
      repayments[r].settlement = u /\ repayments'[r].amount = repayments[r].amount

(***************************************************************************)
(* V01 writes an unused row.                                               *)
(***************************************************************************)
LEMMA ReserveRows ==
  ASSUME LiquidityTypeOK, AmountsAreAuthorized, NEW s \in Settlements,
         reserveLiquidity(s, FundingAmount[s])
  PROVE  /\ AmountsAreAuthorized' /\ ConsumedKept
         /\ \A u \in Settlements : ConsumedIsOld(u) /\ RepaymentsAreOld(u)
<1>1. PICK i \in ReservationIds :
        /\ IsNextReservation(i)
        /\ reservations' = [reservations EXCEPT ![i] =
             [settlement |-> s, amount |-> FundingAmount[s], status |-> "ACTIVE"]]
        /\ UNCHANGED repayments
  BY DEF reserveLiquidity
<1>2. reservations[i].status = "NONE"
  BY <1>1 DEF IsNextReservation, ReservationIds
<1>3. \A j \in ReservationIds : reservations'[j] =
        IF j = i THEN [settlement |-> s, amount |-> FundingAmount[s], status |-> "ACTIVE"]
                 ELSE reservations[j]
  BY <1>1 DEF LiquidityTypeOK
<1>4. AmountsAreAuthorized'
  BY <1>3 DEF AmountsAreAuthorized
<1>5. ConsumedKept /\ \A u \in Settlements : ConsumedIsOld(u)
  BY <1>2, <1>3 DEF ConsumedKept, ConsumedIsOld, Reservation
<1> QED
  BY <1>1, <1>4, <1>5 DEF RepaymentsAreOld

(***************************************************************************)
(* V02, V03 and V04 move the ACTIVE row of s.                              *)
(***************************************************************************)
LEMMA LeaveRows ==
  ASSUME LiquidityTypeOK, AmountsAreAuthorized, NEW s \in Settlements,
         NEW trigger \in {"consume", "release", "expire"}, LeaveActive(s, trigger)
  PROVE  /\ AmountsAreAuthorized' /\ ConsumedKept
         /\ \A u \in Settlements : RepaymentsAreOld(u)
         /\ \A u \in Settlements : u # s \/ trigger # "consume" => ConsumedIsOld(u)
         /\ trigger = "consume" => Reservation(s, "CONSUMED")'
<1>1. PICK i \in ActiveReservations(s), t \in ReservationTransitions :
        /\ t.trigger = trigger
        /\ reservations' = [reservations EXCEPT ![i] =
             [settlement |-> s, amount |-> reservations[i].amount, status |-> t.to]]
        /\ UNCHANGED repayments
  BY DEF LeaveActive
<1>2. /\ i \in ReservationIds /\ reservations[i].settlement = s
      /\ reservations[i].status = "ACTIVE" /\ reservations[i].amount = FundingAmount[s]
  BY <1>1 DEF ActiveReservations, AmountsAreAuthorized
<1>3. t.to = "CONSUMED" <=> trigger = "consume"
  BY <1>1 DEF ReservationTransitions
<1>4. \A j \in ReservationIds : reservations'[j] =
        IF j = i THEN [settlement |-> s, amount |-> FundingAmount[s], status |-> t.to]
                 ELSE reservations[j]
  BY <1>1, <1>2 DEF LiquidityTypeOK
<1>5. AmountsAreAuthorized'
  BY <1>4 DEF AmountsAreAuthorized
<1>6. ConsumedKept
  BY <1>2, <1>4 DEF ConsumedKept, Reservation
<1>7. \A u \in Settlements : u # s \/ trigger # "consume" => ConsumedIsOld(u)
  BY <1>2, <1>3, <1>4 DEF ConsumedIsOld, Reservation
<1>8. trigger = "consume" => Reservation(s, "CONSUMED")'
  BY <1>2, <1>3, <1>4 DEF Reservation
<1> QED
  BY <1>1, <1>5, <1>6, <1>7, <1>8 DEF RepaymentsAreOld

(***************************************************************************)
(* Operator calls touch no reservation, and no repayment's settlement or   *)
(* amount; what they request names no settlement.                          *)
(***************************************************************************)
LEMMA FacilityRows ==
  ASSUME LiquidityTypeOK, AmountsAreAuthorized, FacilityOperation \/ UNCHANGED liquidityVars
  PROVE  /\ AmountsAreAuthorized' /\ ConsumedKept
         /\ \A u \in Settlements : ConsumedIsOld(u) /\ RepaymentsAreOld(u)
<1>1. UNCHANGED reservations
  BY DEF FacilityOperation, setFacilityLimit, setFacilityStatus, requestRepayment,
         advanceRepayment, liquidityVars
<1>2. AmountsAreAuthorized' /\ ConsumedKept /\ \A u \in Settlements : ConsumedIsOld(u)
  BY <1>1 DEF AmountsAreAuthorized, ConsumedKept, ConsumedIsOld, Reservation
<1>3. \A u \in Settlements : RepaymentsAreOld(u)
  <2>1. ASSUME NEW amount \in Amounts, requestRepayment(NoSettlement, amount)
        PROVE  \A u \in Settlements : RepaymentsAreOld(u)
    <3>1. PICK r \in RepaymentIds : repayments' = [repayments EXCEPT ![r] =
            [settlement |-> NoSettlement, amount |-> amount,
             status |-> "REQUESTED", attempt |-> 1]]
      BY <2>1 DEF requestRepayment
    <3>2. \A q \in RepaymentIds : repayments'[q] =
            IF q = r THEN [settlement |-> NoSettlement, amount |-> amount,
                           status |-> "REQUESTED", attempt |-> 1]
                     ELSE repayments[q]
      BY <3>1 DEF LiquidityTypeOK
    <3> QED
      BY <3>2, LiquidityAssumption DEF RepaymentsAreOld
  <2>2. ASSUME NEW r \in RepaymentIds, NEW trigger, advanceRepayment(r, trigger)
        PROVE  \A u \in Settlements : RepaymentsAreOld(u)
    <3>1. PICK t \in RepaymentTransitions : repayments' = [repayments EXCEPT ![r] =
            [settlement |-> repayments[r].settlement, amount |-> repayments[r].amount,
             status |-> t.to,
             attempt |-> repayments[r].attempt + (IF trigger = "re_request" THEN 1 ELSE 0)]]
      BY <2>2 DEF advanceRepayment
    <3>2. \A q \in RepaymentIds : /\ repayments'[q].settlement = repayments[q].settlement
                                  /\ repayments'[q].amount = repayments[q].amount
      BY <3>1 DEF LiquidityTypeOK
    <3> QED
      BY <3>2 DEF RepaymentsAreOld
  <2>3. CASE UNCHANGED repayments
    BY <2>3 DEF RepaymentsAreOld
  <2> QED
    BY <2>1, <2>2, <2>3
    DEF FacilityOperation, setFacilityLimit, setFacilityStatus, liquidityVars
<1> QED
  BY <1>2, <1>3

(***************************************************************************)
(* Compensation consumes nothing, and requests a repayment only of what s  *)
(* consumed.                                                               *)
(***************************************************************************)
LEMMA CompensationRows ==
  ASSUME LiquidityTypeOK, AmountsAreAuthorized, NEW s \in Settlements, Compensation(s)
  PROVE  /\ AmountsAreAuthorized' /\ ConsumedKept
         /\ \A u \in Settlements : ConsumedIsOld(u)
         /\ \A u \in Settlements : u # s => RepaymentsAreOld(u)
         /\ \/ RepaymentsAreOld(s)
            \/ /\ Reservation(s, "CONSUMED")
               /\ \A r \in RepaymentIds :
                    repayments'[r].settlement = s =>
                      \/ repayments'[r] = repayments[r]
                      \/ repayments'[r].amount = FundingAmount[s]
<1>1. CASE releaseReservation(s)
  BY <1>1, LeaveRows DEF releaseReservation
<1>2. CASE /\ ReservationStatus(s) = "CONSUMED"
           /\ \E i \in LockedReservation(s) : requestRepayment(s, reservations[i].amount)
  <2>1. PICK i \in LockedReservation(s) : requestRepayment(s, reservations[i].amount)
    BY <1>2
  <2>2. i \in ReservationIds /\ reservations[i].amount = FundingAmount[s]
    BY DEF LockedReservation, AmountsAreAuthorized
  <2>3. PICK r \in RepaymentIds : repayments' = [repayments EXCEPT ![r] =
          [settlement |-> s, amount |-> reservations[i].amount,
           status |-> "REQUESTED", attempt |-> 1]]
    BY <2>1 DEF requestRepayment
  <2>4. UNCHANGED reservations
    BY <2>1 DEF requestRepayment
  <2>5. \A q \in RepaymentIds : repayments'[q] =
          IF q = r THEN [settlement |-> s, amount |-> FundingAmount[s],
                         status |-> "REQUESTED", attempt |-> 1]
                   ELSE repayments[q]
    BY <2>2, <2>3 DEF LiquidityTypeOK
  <2>6. Reservation(s, "CONSUMED")
    <3>1. LockedReservation(s) # {}
      BY <2>1
    <3>2. PICK j \in LockedReservation(s) : reservations[j].status = "CONSUMED"
      BY <1>2, <3>1 DEF ReservationStatus
    <3> QED
      BY <3>2 DEF LockedReservation, Reservation, AmountsAreAuthorized
  <2>7. AmountsAreAuthorized' /\ ConsumedKept /\ \A u \in Settlements : ConsumedIsOld(u)
    BY <2>4 DEF AmountsAreAuthorized, ConsumedKept, ConsumedIsOld, Reservation
  <2> QED
    BY <2>5, <2>6, <2>7 DEF RepaymentsAreOld
<1>3. CASE UNCHANGED liquidityVars
  BY <1>3, FacilityRows
<1> QED
  BY <1>1, <1>2, <1>3 DEF Compensation

-----------------------------------------------------------------------------
(* What a transition does to its settlement *)

Moved(s, trigger) ==
  LET old == settlements[s]
      new == settlements'[s]
  IN  /\ settlements' \in [Settlements -> Rows]
      /\ \A u \in Settlements : u # s => settlements'[u] = settlements[u]
      /\ old.status \notin TerminalStatuses
      /\ old.status = "EXCEPTION" <=> trigger \in ResolveTriggers
      /\ old.enteredFrom # "DRAWDOWN_CONFIRMED" => new.enteredFrom # "DRAWDOWN_CONFIRMED"
      /\ PhaseOf(old) \in Late => PhaseOf(new) \in Late
      /\ new.status = "DRAWDOWN_CONFIRMED" =>
           \/ trigger = "drawdown_confirmed"
           \/ old.status = "DRAWDOWN_CONFIRMED"
           \/ old.enteredFrom = "DRAWDOWN_CONFIRMED"
      /\ trigger = "request_drawdown" =>
           old.status = "LIQUIDITY_RESERVED" /\ new.status = "DRAWDOWN_REQUESTED"
      /\ trigger \in ExceptionTriggers => new.status = "EXCEPTION"
      /\ trigger \in {"resolve_fail", "resolve_cancel"} => new.status \in {"FAILED", "CANCELLED"}

(***************************************************************************)
(* Every transition of the leg, which ends before dispatch, is such a move.*)
(***************************************************************************)
LEMMA TransitionFacts ==
  ASSUME settlements \in [Settlements -> Rows], NEW s \in Settlements, NEW trigger, NEW answers,
         trigger # "dispatch_payout", applyTransition(s, trigger, answers)
  PROVE  Moved(s, trigger)
<1>1. PICK t \in Permitted(settlements[s], trigger, answers) :
        settlements' = [settlements EXCEPT ![s] = Applied(settlements[s], t)]
  BY DEF applyTransition
<1> DEFINE old == settlements[s]
           new == settlements'[s]
<1>2. old \in Rows
  OBVIOUS
<1>3. new = Applied(old, t)
  BY <1>1
<1>4. /\ t \in Transitions /\ t.trigger = trigger /\ old.status \in t.from
      /\ RowFacts(t) /\ Applied(old, t) \in Rows
  BY <1>2, AppliedIsRow
<1>5. /\ settlements' \in [Settlements -> Rows]
      /\ \A u \in Settlements : u # s => settlements'[u] = settlements[u]
  BY <1>1, <1>4
<1>6. /\ new.status = Destination(old, t)
      /\ new.enteredFrom = IF t.to = "EXCEPTION" THEN old.status ELSE old.enteredFrom
  BY <1>3 DEF Applied
<1> HIDE DEF old, new
<1>7. old.status \notin TerminalStatuses
  BY <1>4 DEF RowFacts
<1>8. old.status = "EXCEPTION" <=> trigger \in ResolveTriggers
  BY <1>4 DEF RowFacts, ResolveTriggers
<1>9. old.enteredFrom # "DRAWDOWN_CONFIRMED" => new.enteredFrom # "DRAWDOWN_CONFIRMED"
  BY <1>4, <1>6 DEF RowFacts
<1>10. ASSUME PhaseOf(old) \in Late PROVE PhaseOf(new) \in Late
  <2>1. CASE old.status = "EXCEPTION"
    <3>1. t.to \in {"ENTERED_FROM", "FAILED", "CANCELLED"} /\ old.enteredFrom \in Late
      BY <1>4, <1>10, <2>1 DEF RowFacts, PhaseOf
    <3> QED
      BY <1>6, <3>1 DEF Destination, PhaseOf, Late
  <2>2. CASE old.status # "EXCEPTION"
    <3>1. old.status \in {"DRAWDOWN_REQUESTED", "DRAWDOWN_CONFIRMED"}
      BY <1>7, <1>10, <2>2 DEF PhaseOf, Late, TerminalStatuses
    <3>2. t.to \in {"DRAWDOWN_REQUESTED", "DRAWDOWN_CONFIRMED", "EXCEPTION", "SAME", "CANCELLED"}
      BY <1>4, <3>1 DEF RowFacts
    <3> QED
      BY <1>6, <3>1, <3>2 DEF Destination, PhaseOf, Late
  <2> QED
    BY <2>1, <2>2
<1>11. ASSUME new.status = "DRAWDOWN_CONFIRMED"
       PROVE  \/ trigger = "drawdown_confirmed"
              \/ old.status = "DRAWDOWN_CONFIRMED"
              \/ old.enteredFrom = "DRAWDOWN_CONFIRMED"
  BY <1>4, <1>6, <1>11 DEF RowFacts, Destination
<1>12. trigger = "request_drawdown" =>
         old.status = "LIQUIDITY_RESERVED" /\ new.status = "DRAWDOWN_REQUESTED"
  BY <1>4, <1>6 DEF RowFacts, Destination
<1>13. trigger \in ExceptionTriggers => new.status = "EXCEPTION"
  BY <1>4, <1>6 DEF RowFacts, Destination
<1>14. trigger \in {"resolve_fail", "resolve_cancel"} => new.status \in {"FAILED", "CANCELLED"}
  BY <1>4, <1>6 DEF RowFacts, Destination
<1> QED
  BY <1>5, <1>7, <1>8, <1>9, <1>10, <1>11, <1>12, <1>13, <1>14 DEF Moved, old, new

-----------------------------------------------------------------------------
(* What keeps SettlementOK *)

(***************************************************************************)
(* A settlement whose own rows stay put.                                   *)
(***************************************************************************)
LEMMA StillOK ==
  ASSUME NEW u \in Settlements, SettlementOK(u), settlements'[u] = settlements[u],
         drawdowns'[u] = drawdowns[u], u \in openRows' => u \in openRows,
         ConsumedKept, ConsumedIsOld(u), RepaymentsAreOld(u)
  PROVE  SettlementOK(u)'
<1>1. Reservation(u, "CONSUMED")' <=> Reservation(u, "CONSUMED")
  BY DEF ConsumedKept, ConsumedIsOld
<1> QED
  BY <1>1 DEF SettlementOK, RepaymentsAreOld, PhaseOf

(***************************************************************************)
(* A settlement that moves, when nothing is consumed for it.               *)
(***************************************************************************)
LEMMA MovedOK ==
  ASSUME NEW s \in Settlements, NEW trigger, SettlementOK(s), Moved(s, trigger),
         trigger # "drawdown_confirmed",
         drawdowns'[s] # "NONE" => drawdowns[s] # "NONE" \/ trigger = "request_drawdown",
         drawdowns[s] = "CONFIRMED" =>
           drawdowns'[s] = "CONFIRMED" \/ trigger = "request_drawdown",
         s \in openRows' => settlements'[s].status = "EXCEPTION",
         ConsumedKept, ConsumedIsOld(s), RepaymentsAreOld(s)
  PROVE  SettlementOK(s)'
<1>1. Reservation(s, "CONSUMED")' <=> Reservation(s, "CONSUMED")
  BY DEF ConsumedKept, ConsumedIsOld
<1>2. drawdowns'[s] # "NONE" => PhaseOf(settlements'[s]) \in Late
  BY DEF SettlementOK, Moved, PhaseOf, Late
<1>3. trigger = "request_drawdown" => drawdowns[s] = "NONE"
  BY DEF SettlementOK, Moved, PhaseOf, Late
<1>4. Reservation(s, "CONSUMED")' => drawdowns'[s] = "CONFIRMED"
  BY <1>1, <1>3 DEF SettlementOK
<1>5. settlements'[s].enteredFrom # "DRAWDOWN_CONFIRMED"
  BY DEF SettlementOK, Moved
<1>6. settlements'[s].status = "DRAWDOWN_CONFIRMED" =>
        drawdowns'[s] = "CONFIRMED" /\ Reservation(s, "CONSUMED")'
  BY <1>1, <1>4 DEF SettlementOK, Moved
<1>7. \A r \in RepaymentIds : repayments'[r].settlement # s
  BY DEF SettlementOK, Moved, RepaymentsAreOld, TerminalStatuses
<1> QED
  BY <1>2, <1>4, <1>5, <1>6, <1>7 DEF SettlementOK, PhaseOf

(***************************************************************************)
(* What a step owes FundingInv, apart from the facility's own invariant.   *)
(***************************************************************************)
DrawdownStatuses == {"NONE", "REQUESTED", "CONFIRMED", "FAILED", "UNKNOWN"}

StepOK ==
  /\ settlements' \in [Settlements -> Rows]
  /\ drawdowns' \in [Settlements -> DrawdownStatuses]
  /\ reserving' \subseteq Settlements
  /\ openRows' \subseteq Settlements
  /\ AmountsAreAuthorized'
  /\ \A u \in Settlements : SettlementOK(u)'

(***************************************************************************)
(* The calls that leave the facility alone and move the settlement.        *)
(***************************************************************************)
LEMMA MoveOnlyKeeps ==
  ASSUME FundingInv, NEW s \in Settlements,
         \/ beginReservation(s) \/ requestDrawdown(s)
         \/ requestCancellation(s) \/ honourCancellation(s)
  PROVE  StepOK
<1>1. PICK trigger \in {"begin_reservation", "request_drawdown", "request_cancellation",
                        "cancellation_honoured"} :
        /\ \E answers : applyTransition(s, trigger, answers)
        /\ drawdowns' = IF trigger = "request_drawdown"
                        THEN [drawdowns EXCEPT ![s] = "REQUESTED"] ELSE drawdowns
        /\ UNCHANGED <<liquidityVars, openRows>>
        /\ reserving' \subseteq reserving \cup {s}
  BY DEF beginReservation, requestDrawdown, requestCancellation, honourCancellation
<1>2. Moved(s, trigger)
  BY <1>1, TransitionFacts DEF FundingInv, FundingTypeOK
<1>3. /\ AmountsAreAuthorized' /\ ConsumedKept
      /\ \A u \in Settlements : ConsumedIsOld(u) /\ RepaymentsAreOld(u)
  BY <1>1, FacilityRows DEF FundingInv, FundingTypeOK
<1>4. /\ drawdowns' \in [Settlements -> DrawdownStatuses]
      /\ \A u \in Settlements : u # s => drawdowns'[u] = drawdowns[u]
  BY <1>1 DEF FundingInv, FundingTypeOK, DrawdownStatuses
<1>5. s \notin openRows
  BY <1>2 DEF Moved, ResolveTriggers, FundingInv, SettlementOK
<1>6. SettlementOK(s)'
  BY <1>1, <1>2, <1>3, <1>5, MovedOK DEF FundingInv
<1>7. \A u \in Settlements : u # s => SettlementOK(u)'
  BY <1>1, <1>2, <1>3, <1>4, StillOK DEF Moved, FundingInv
<1> QED
  BY <1>1, <1>2, <1>3, <1>4, <1>6, <1>7 DEF StepOK, Moved, FundingInv, FundingTypeOK

(***************************************************************************)
(* The second transaction of reserveForSettlement, or its loss.            *)
(***************************************************************************)
LEMMA CompleteReservationKeeps ==
  ASSUME FundingInv, NEW s \in Settlements, completeReservation(s) \/ crashReserving(s)
  PROVE  StepOK
<1>1. /\ AmountsAreAuthorized' /\ ConsumedKept
      /\ \A u \in Settlements : ConsumedIsOld(u) /\ RepaymentsAreOld(u)
  <2>1. reserveLiquidity(s, FundingAmount[s]) \/ UNCHANGED liquidityVars
    BY DEF completeReservation, crashReserving
  <2> QED
    BY <2>1, ReserveRows, FacilityRows DEF FundingInv, FundingTypeOK
<1>2. drawdowns' = drawdowns /\ openRows' = openRows /\ reserving' \subseteq reserving
  BY DEF completeReservation, crashReserving
<1>3. \/ UNCHANGED settlements
      \/ \E trigger \in {"reservation_succeeded", "reservation_failed"} : \E answers :
           applyTransition(s, trigger, answers)
  <2>1. CASE crashReserving(s)
    BY <2>1 DEF crashReserving
  <2>2. CASE completeReservation(s)
    <3>1. \/ applyOrReturnRefusal(s, "reservation_succeeded", {"sufficient_availability"})
          \/ applyOrReturnRefusal(s, "reservation_failed", {})
      BY <2>2 DEF completeReservation
    <3> QED
      BY <3>1 DEF applyOrReturnRefusal
  <2> QED
    BY <2>1, <2>2
<1>4. CASE UNCHANGED settlements
  <2>1. \A u \in Settlements : SettlementOK(u)'
    BY <1>1, <1>2, <1>4, StillOK DEF FundingInv
  <2> QED
    BY <1>1, <1>2, <1>4, <2>1 DEF StepOK, FundingInv, FundingTypeOK, DrawdownStatuses
<1>5. ASSUME NEW trigger \in {"reservation_succeeded", "reservation_failed"}, NEW answers,
             applyTransition(s, trigger, answers)
      PROVE  StepOK
  <2>1. Moved(s, trigger)
    BY <1>5, TransitionFacts DEF FundingInv, FundingTypeOK
  <2>2. s \notin openRows
    BY <2>1 DEF Moved, ResolveTriggers, FundingInv, SettlementOK
  <2>3. SettlementOK(s)'
    BY <1>1, <1>2, <2>1, <2>2, MovedOK DEF FundingInv
  <2>4. \A u \in Settlements : u # s => SettlementOK(u)'
    BY <1>1, <1>2, <2>1, StillOK DEF Moved, FundingInv
  <2> QED
    BY <1>1, <1>2, <2>1, <2>3, <2>4 DEF StepOK, Moved, FundingInv, FundingTypeOK, DrawdownStatuses
<1> QED
  BY <1>3, <1>4, <1>5

(***************************************************************************)
(* The provider's answer, or its absence.                                  *)
(***************************************************************************)
LEMMA ResolveDrawdownKeeps ==
  ASSUME FundingInv, NEW s \in Settlements, NEW trigger, NEW evidence,
         resolveDrawdown(s, trigger, evidence)
  PROVE  StepOK
<1>1. PICK w \in DrawdownTransitions :
        /\ drawdowns[s] = w.from
        /\ drawdowns' = [drawdowns EXCEPT ![s] = w.to]
        /\ \/ w.to = "CONFIRMED" /\ confirmDrawdown(s)
           \/ w.to = "FAILED"    /\ failDrawdown(s)
           \/ w.to = "UNKNOWN"   /\ timeOutDrawdown(s)
        /\ UNCHANGED <<reserving, openRows>>
  BY DEF resolveDrawdown
<1>2. /\ w.from \in {"REQUESTED", "UNKNOWN"} /\ w.to \in {"CONFIRMED", "FAILED", "UNKNOWN"}
  BY DEF DrawdownTransitions
<1>3. /\ drawdowns' \in [Settlements -> DrawdownStatuses] /\ drawdowns'[s] = w.to
      /\ \A u \in Settlements : u # s => drawdowns'[u] = drawdowns[u]
  BY <1>1, <1>2 DEF FundingInv, FundingTypeOK, DrawdownStatuses
<1>4. /\ SettlementOK(s) /\ PhaseOf(settlements[s]) \in Late
      /\ ~Reservation(s, "CONSUMED") /\ settlements[s].status # "DRAWDOWN_CONFIRMED"
      /\ \A r \in RepaymentIds : repayments[r].settlement # s
  BY <1>1, <1>2 DEF FundingInv, SettlementOK
<1>5. /\ AmountsAreAuthorized' /\ ConsumedKept
      /\ \A u \in Settlements : RepaymentsAreOld(u)
      /\ \A u \in Settlements : u # s => ConsumedIsOld(u)
      /\ w.to # "CONFIRMED" => ConsumedIsOld(s)
  <2>1. \/ w.to = "CONFIRMED" /\ consumeReservation(s)
        \/ w.to # "CONFIRMED" /\ releaseReservation(s)
        \/ UNCHANGED liquidityVars
    BY <1>1 DEF confirmDrawdown, failDrawdown, timeOutDrawdown
  <2> QED
    BY <2>1, LeaveRows, FacilityRows
    DEF consumeReservation, releaseReservation, FundingInv, FundingTypeOK
<1>6. \/ UNCHANGED settlements
      \/ /\ w.to # "CONFIRMED"
         /\ \E tr \in {"drawdown_failed", "drawdown_timeout"} : \E answers :
              applyTransition(s, tr, answers)
      \/ /\ w.to = "CONFIRMED" /\ consumeReservation(s)
         /\ \E answers : applyTransition(s, "drawdown_confirmed", answers)
  BY <1>1 DEF confirmDrawdown, failDrawdown, timeOutDrawdown, applyOrReturnRefusal
<1>7. CASE UNCHANGED settlements
  <2>1. SettlementOK(s)'
    BY <1>1, <1>2, <1>3, <1>4, <1>5, <1>7 DEF SettlementOK, ConsumedIsOld, RepaymentsAreOld, PhaseOf
  <2>2. \A u \in Settlements : u # s => SettlementOK(u)'
    BY <1>1, <1>3, <1>5, <1>7, StillOK DEF FundingInv
  <2> QED
    BY <1>1, <1>3, <1>5, <1>7, <2>1, <2>2 DEF StepOK, FundingInv, FundingTypeOK
<1>8. ASSUME NEW tr \in {"drawdown_failed", "drawdown_timeout", "drawdown_confirmed"}, NEW answers,
             applyTransition(s, tr, answers),
             tr = "drawdown_confirmed" => w.to = "CONFIRMED" /\ consumeReservation(s),
             tr # "drawdown_confirmed" => w.to # "CONFIRMED"
      PROVE  StepOK
  <2>1. Moved(s, tr)
    BY <1>8, TransitionFacts DEF FundingInv, FundingTypeOK
  <2>2. s \notin openRows
    BY <1>4, <2>1 DEF Moved, ResolveTriggers, SettlementOK
  <2>3. SettlementOK(s)'
    <3>1. CASE tr # "drawdown_confirmed"
      BY <1>1, <1>2, <1>3, <1>4, <1>5, <1>8, <2>1, <2>2, <3>1, MovedOK
    <3>2. CASE tr = "drawdown_confirmed"
      <4>1. Reservation(s, "CONSUMED")'
        BY <1>8, <3>2, LeaveRows DEF consumeReservation, FundingInv, FundingTypeOK
      <4>2. drawdowns'[s] = "CONFIRMED" /\ PhaseOf(settlements'[s]) \in Late
        BY <1>3, <1>4, <1>8, <2>1, <3>2 DEF Moved
      <4>3. settlements'[s].enteredFrom # "DRAWDOWN_CONFIRMED"
        BY <1>4, <2>1 DEF Moved, SettlementOK
      <4>4. \A r \in RepaymentIds : repayments'[r].settlement # s
        BY <1>4, <1>5 DEF RepaymentsAreOld
      <4> QED
        BY <1>1, <2>2, <4>1, <4>2, <4>3, <4>4 DEF SettlementOK, PhaseOf
    <3> QED
      BY <3>1, <3>2
  <2>4. \A u \in Settlements : u # s => SettlementOK(u)'
    BY <1>1, <1>3, <1>5, <2>1, StillOK DEF Moved, FundingInv
  <2> QED
    BY <1>1, <1>3, <1>5, <2>1, <2>3, <2>4 DEF StepOK, Moved, FundingInv, FundingTypeOK
<1> QED
  BY <1>6, <1>7, <1>8

(***************************************************************************)
(* Opening an exception, and the sweeper that expires the reservation      *)
(* with it.                                                                *)
(***************************************************************************)
LEMMA OpenExceptionKeeps ==
  ASSUME FundingInv, NEW s \in Settlements,
         (\E trigger \in OpenTriggers : openException(s, trigger)) \/ sweepReservation(s)
  PROVE  StepOK
<1>1. PICK trigger \in ExceptionTriggers :
        /\ \E answers : applyTransition(s, trigger, answers)
        /\ openRows' = openRows \cup {s}
        /\ UNCHANGED <<drawdowns, reserving>>
        /\ UNCHANGED liquidityVars \/ LeaveActive(s, "expire")
  BY DEF openException, sweepReservation, OpenTriggers, ExceptionTriggers, expireReservation
<1>2. Moved(s, trigger) /\ trigger # "drawdown_confirmed"
  BY <1>1, TransitionFacts DEF FundingInv, FundingTypeOK, ExceptionTriggers
<1>3. /\ AmountsAreAuthorized' /\ ConsumedKept
      /\ \A u \in Settlements : ConsumedIsOld(u) /\ RepaymentsAreOld(u)
  BY <1>1, LeaveRows, FacilityRows DEF FundingInv, FundingTypeOK
<1>4. SettlementOK(s)'
  BY <1>1, <1>2, <1>3, MovedOK DEF FundingInv, Moved
<1>5. \A u \in Settlements : u # s => SettlementOK(u)'
  BY <1>1, <1>2, <1>3, StillOK DEF Moved, FundingInv
<1> QED
  BY <1>1, <1>2, <1>3, <1>4, <1>5 DEF StepOK, Moved, FundingInv, FundingTypeOK, DrawdownStatuses

(***************************************************************************)
(* resolveException without compensation.                                  *)
(***************************************************************************)
LEMMA ResolveExceptionKeeps ==
  ASSUME FundingInv, NEW s \in Settlements, NEW trigger \in ResolveTriggers,
         resolveException(s, trigger)
  PROVE  StepOK
<1>1. Moved(s, trigger) /\ trigger # "drawdown_confirmed"
  BY TransitionFacts DEF resolveException, ResolveTriggers, FundingInv, FundingTypeOK
<1>2. openRows' = openRows \ {s} /\ UNCHANGED <<liquidityVars, drawdowns, reserving>>
  BY DEF resolveException
<1>3. /\ AmountsAreAuthorized' /\ ConsumedKept
      /\ \A u \in Settlements : ConsumedIsOld(u) /\ RepaymentsAreOld(u)
  BY <1>2, FacilityRows DEF FundingInv, FundingTypeOK
<1>4. SettlementOK(s)'
  BY <1>1, <1>2, <1>3, MovedOK DEF FundingInv
<1>5. \A u \in Settlements : u # s => SettlementOK(u)'
  BY <1>1, <1>2, <1>3, StillOK DEF Moved, FundingInv
<1> QED
  BY <1>1, <1>2, <1>3, <1>4, <1>5 DEF StepOK, Moved, FundingInv, FundingTypeOK, DrawdownStatuses

(***************************************************************************)
(* From EXCEPTION no resolution of the operator that gives up is refused.  *)
(***************************************************************************)
LEMMA ResolutionIsNotRefused ==
  ASSUME NEW row, row.status = "EXCEPTION", NEW trigger \in {"resolve_fail", "resolve_cancel"}
  PROVE  ~Refused(row, trigger, ResolutionAnswers)
<1>1. PICK t \in ResolutionTransitions :
        /\ t.trigger = trigger /\ t.from = {"EXCEPTION"} /\ t.to # "ENTERED_FROM"
        /\ t.guards \subseteq ResolutionAnswers
  BY DEF ResolutionTransitions, Transition, ResolutionAnswers
<1>2. t \in Permitted(row, trigger, ResolutionAnswers)
  BY <1>1 DEF Permitted, Transitions
<1> QED
  BY <1>2 DEF Refused

(***************************************************************************)
(* Compensation in a step that leaves the settlement given up.             *)
(***************************************************************************)
LEMMA CompensationKeeps ==
  ASSUME FundingInv, NEW s \in Settlements, Compensation(s),
         settlements' \in [Settlements -> Rows], settlements'[s].status \in {"CANCELLED", "FAILED"},
         \A u \in Settlements : u # s => settlements'[u] = settlements[u],
         settlements'[s].enteredFrom # "DRAWDOWN_CONFIRMED",
         s \notin openRows', openRows' \subseteq openRows, UNCHANGED <<drawdowns, reserving>>
  PROVE  StepOK
<1>1. /\ AmountsAreAuthorized' /\ ConsumedKept
      /\ \A u \in Settlements : ConsumedIsOld(u)
      /\ \A u \in Settlements : u # s => RepaymentsAreOld(u)
      /\ \/ RepaymentsAreOld(s)
         \/ /\ Reservation(s, "CONSUMED")
            /\ \A r \in RepaymentIds :
                 repayments'[r].settlement = s =>
                   \/ repayments'[r] = repayments[r]
                   \/ repayments'[r].amount = FundingAmount[s]
  BY CompensationRows DEF FundingInv, FundingTypeOK
<1>2. SettlementOK(s)
  BY DEF FundingInv
<1>3. Reservation(s, "CONSUMED")' <=> Reservation(s, "CONSUMED")
  BY <1>1 DEF ConsumedKept, ConsumedIsOld
<1>4. ASSUME NEW r \in RepaymentIds, repayments'[r].settlement = s
      PROVE  Reservation(s, "CONSUMED")' /\ repayments'[r].amount = FundingAmount[s]
  BY <1>1, <1>2, <1>3, <1>4 DEF SettlementOK, RepaymentsAreOld
<1>5. PhaseOf(settlements'[s]) \in Late
  BY DEF PhaseOf, Late
<1>6. SettlementOK(s)'
  BY <1>2, <1>3, <1>4, <1>5 DEF SettlementOK, PhaseOf
<1>7. \A u \in Settlements : u # s => SettlementOK(u)'
  BY <1>1, StillOK DEF FundingInv
<1> QED
  BY <1>1, <1>6, <1>7 DEF StepOK, FundingInv, FundingTypeOK, DrawdownStatuses

(***************************************************************************)
(* Compensation of a cancelled settlement, and of one the operator         *)
(* resolves: a repayment is requested only if the settlement ends given    *)
(* up.                                                                     *)
(***************************************************************************)
LEMMA GivingUpKeeps ==
  ASSUME FundingInv, NEW s \in Settlements,
         \/ compensateCancellation(s)
         \/ \E trigger \in ResolveTriggers : resolveExceptionAsOperator(s, trigger)
  PROVE  StepOK
<1>1. CASE compensateCancellation(s)
  <2>1. /\ Compensation(s) /\ settlements[s].status \in {"CANCELLED", "FAILED"}
        /\ UNCHANGED <<settlements, drawdowns, reserving, openRows>>
    BY <1>1 DEF compensateCancellation
  <2>2. s \notin openRows /\ settlements[s].enteredFrom # "DRAWDOWN_CONFIRMED"
    BY <2>1 DEF FundingInv, SettlementOK
  <2>3. settlements' \in [Settlements -> Rows]
    BY <2>1 DEF FundingInv, FundingTypeOK
  <2> QED
    BY <2>1, <2>2, <2>3, CompensationKeeps
<1>2. ASSUME resolveExceptionAsOperator(s, "resolve_resume") PROVE StepOK
  <2>1. UNCHANGED <<liquidityVars, drawdowns, reserving>>
    BY <1>2 DEF resolveExceptionAsOperator
  <2>2. \/ resolveException(s, "resolve_resume")
        \/ UNCHANGED <<settlements, openRows>>
    BY <1>2, <2>1 DEF resolveExceptionAsOperator, resolveException
  <2>3. CASE UNCHANGED <<settlements, openRows>>
    <3>1. /\ AmountsAreAuthorized' /\ ConsumedKept
          /\ \A u \in Settlements : ConsumedIsOld(u) /\ RepaymentsAreOld(u)
      BY <2>1, FacilityRows DEF FundingInv, FundingTypeOK
    <3>2. \A u \in Settlements : SettlementOK(u)'
      BY <2>1, <2>3, <3>1, StillOK DEF FundingInv
    <3> QED
      BY <2>1, <2>3, <3>1, <3>2 DEF StepOK, FundingInv, FundingTypeOK, DrawdownStatuses
  <2> QED
    BY <2>2, <2>3, ResolveExceptionKeeps DEF ResolveTriggers
<1>3. ASSUME NEW trigger \in {"resolve_fail", "resolve_cancel"},
             resolveExceptionAsOperator(s, trigger)
      PROVE  StepOK
  <2>1. /\ s \in openRows /\ Compensation(s) /\ UNCHANGED <<drawdowns, reserving>>
    BY <1>3 DEF resolveExceptionAsOperator
  <2>2. ~Refused(settlements[s], trigger, ResolutionAnswers)
    BY <2>1, ResolutionIsNotRefused DEF FundingInv, SettlementOK
  <2>3. applyTransition(s, trigger, ResolutionAnswers) /\ openRows' = openRows \ {s}
    BY <1>3, <2>2 DEF resolveExceptionAsOperator
  <2>4. Moved(s, trigger)
    BY <2>3, TransitionFacts DEF FundingInv, FundingTypeOK
  <2>5. /\ settlements' \in [Settlements -> Rows]
        /\ settlements'[s].status \in {"CANCELLED", "FAILED"}
        /\ \A u \in Settlements : u # s => settlements'[u] = settlements[u]
        /\ settlements'[s].enteredFrom # "DRAWDOWN_CONFIRMED"
    BY <2>4 DEF Moved, FundingInv, SettlementOK
  <2> QED
    BY <2>1, <2>3, <2>5, CompensationKeeps
<1> QED
  BY <1>1, <1>2, <1>3 DEF ResolveTriggers

-----------------------------------------------------------------------------
(***************************************************************************)
(* FundingInv holds at first.                                              *)
(***************************************************************************)
LEMMA InitEstablishesFunding == FundingInit => FundingInv
<1> SUFFICES ASSUME FundingInit PROVE FundingInv
  OBVIOUS
<1>1. LiquidityInit /\ LiquidityInv
  BY InitEstablishesInv DEF FundingInit
<1>2. /\ \A i \in ReservationIds : /\ reservations[i].settlement = NoSettlement
                                   /\ reservations[i].status = "NONE"
      /\ \A r \in RepaymentIds : repayments[r].settlement = NoSettlement
  BY <1>1 DEF LiquidityInit, UnusedReservation, UnusedRepayment
<1>3. FundingTypeOK
  BY <1>1 DEF FundingInit, LiquidityInv, FundingTypeOK, Rows, Statuses
<1>4. AmountsAreAuthorized
  BY <1>2, LiquidityAssumption DEF AmountsAreAuthorized
<1>5. ASSUME NEW s \in Settlements PROVE SettlementOK(s)
  <2>1. /\ settlements[s].status = "AUTHORIZED" /\ settlements[s].enteredFrom = "NONE"
        /\ drawdowns[s] = "NONE" /\ s \notin openRows
    BY DEF FundingInit
  <2> QED
    BY <1>2, <2>1, LiquidityAssumption DEF SettlementOK, Reservation
<1> QED
  BY <1>1, <1>3, <1>4, <1>5 DEF FundingInv

(***************************************************************************)
(* Every step keeps it.                                                    *)
(***************************************************************************)
LEMMA NextKeepsFunding == FundingInv /\ [FundingNext]_fundingVars => FundingInv'
<1> SUFFICES ASSUME FundingInv, [FundingNext]_fundingVars PROVE FundingInv'
  OBVIOUS
<1>1. LiquidityInv'
  BY FundingStepIsLiquidityStep, NextKeepsInv DEF FundingInv
<1>2. ASSUME NEW s \in Settlements, SettlementOperation(s) PROVE StepOK
  BY <1>2, MoveOnlyKeeps, CompleteReservationKeeps, ResolveDrawdownKeeps, OpenExceptionKeeps,
     ResolveExceptionKeeps, GivingUpKeeps DEF SettlementOperation
<1>3. CASE /\ FacilityOperation \/ UNCHANGED liquidityVars
           /\ UNCHANGED <<settlements, drawdowns, reserving, openRows>>
  <2>1. /\ AmountsAreAuthorized' /\ ConsumedKept
        /\ \A u \in Settlements : ConsumedIsOld(u) /\ RepaymentsAreOld(u)
    BY <1>3, FacilityRows DEF FundingInv, FundingTypeOK
  <2>2. \A u \in Settlements : SettlementOK(u)'
    BY <1>3, <2>1, StillOK DEF FundingInv
  <2>3. StepOK
    BY <1>3, <2>1, <2>2 DEF StepOK, FundingInv, FundingTypeOK, DrawdownStatuses
  <2> QED
    BY <1>1, <2>3 DEF StepOK, FundingInv, FundingTypeOK, LiquidityInv, DrawdownStatuses
<1> QED
  BY <1>1, <1>2, <1>3 DEF FundingNext, fundingVars, StepOK, FundingInv, FundingTypeOK,
     LiquidityInv, DrawdownStatuses

(***************************************************************************)
(* So it is an invariant.                                                  *)
(***************************************************************************)
LEMMA FundingInvariant == FundingSpec => []FundingInv
  BY InitEstablishesFunding, NextKeepsFunding, PTL DEF FundingSpec

(***************************************************************************)
(* The rows of the facility, the settlements and the drawdowns keep to     *)
(* their columns and CHECK constraints.                                    *)
(***************************************************************************)
THEOREM FundingTypeCorrect == FundingSpec => []FundingTypeOK
  BY FundingInvariant, PTL DEF FundingInv

(***************************************************************************)
(* T13 and V02 agree: a settlement in DRAWDOWN_CONFIRMED has its whole     *)
(* authorized amount consumed and its drawdown confirmed, and capacity is  *)
(* drawn only for a drawdown the provider confirmed (resolveDrawdown).     *)
(***************************************************************************)
THEOREM FundedExactlyWhenConfirmed == FundingSpec => [](FundedIsDrawn /\ DrawnIsConfirmed)
<1>1. FundingInv => FundedIsDrawn /\ DrawnIsConfirmed
  BY DEF FundingInv, SettlementOK, FundedIsDrawn, DrawnIsConfirmed
<1> QED
  BY <1>1, FundingInvariant, PTL

(***************************************************************************)
(* INV-22 for every interleaving of cancellations, operator resolutions    *)
(* and late answers: a repayment for a settlement is of what it consumed,  *)
(* and only once it was given up (compensateCancellation,                  *)
(* resolveExceptionAsOperator).                                            *)
(***************************************************************************)
THEOREM CompensationIsExact == FundingSpec => []CompensationMatchesFunding
<1>1. FundingInv => CompensationMatchesFunding
  BY DEF FundingInv, SettlementOK, CompensationMatchesFunding
<1> QED
  BY <1>1, FundingInvariant, PTL

(***************************************************************************)
(* FundingIsBacked: in every reachable state a funded settlement has drawn *)
(* its whole amount and every drawn amount was confirmed by the provider   *)
(* (resolveDrawdown, completeReservation).                                 *)
(***************************************************************************)
THEOREM FundingIsSound == FundingSpec => []FundingIsBacked
<1>1. FundingInv => FundingIsBacked
  BY DEF FundingInv, SettlementOK, FundingIsBacked, FundedIsDrawn, DrawnIsConfirmed
<1> QED
  BY <1>1, FundingInvariant, PTL
=============================================================================
