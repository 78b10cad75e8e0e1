------------------------------ MODULE Returns ------------------------------
(***************************************************************************)
(* Returns of a credited payout (N01-N07) against one SETTLED settlement,  *)
(* and the repayments they cause on the facility that funded it            *)
(* (packages/app/src/settlement-return.service.ts,                         *)
(* packages/domain/src/reconciliation/settlement-return.ts, migration      *)
(* 0009).  The facility is module Liquidity's: migration 0009 keys live    *)
(* repayments by (settlement, return), so the cause of a repayment is a    *)
(* return here, and NoReturn for a repayment an operator requests.         *)
(*                                                                         *)
(* Every call is one transaction, except the two that are not:             *)
(* checkReturnWithProvider asks the provider outside any transaction and   *)
(* its answer is used later, and sweepReturnChecks selects the overdue     *)
(* returns without a lock before it escalates them one by one.             *)
(***************************************************************************)
EXTENDS Totals

CONSTANTS
  NoReturn,       \* repayments.return_id IS NULL
  MaxReturns,     \* bound: distinct provider return references
  Credited,       \* values credited_minor may have; Unknown when none was stated
  Unknown,
  Drawn,          \* amount of the settlement's confirmed drawdown
  OtherDrawn,     \* drawn on the same facility by other settlements
  Window,         \* the rail's return observation window
  ReturnAmounts,  \* bound: amounts a return may have
  ManualAmounts,  \* bound: amounts of repayments an operator requests
  MaxRepayments,  \* bound: rows of repayments
  MaxAttempt      \* bound: submissions of one repayment

References == 1..MaxReturns   \* provider_return_reference, in order of arrival

ASSUME ReturnsAssumption ==
  /\ NoReturn \notin References
  /\ MaxReturns \in Nat
  /\ Credited \subseteq (Nat \ {0}) \cup {Unknown}
  /\ Unknown \notin Nat
  /\ Drawn \in Nat \ {0}
  /\ OtherDrawn \in Nat
  /\ Window \in Nat
  /\ ReturnAmounts \subseteq Nat \ {0}
  /\ ManualAmounts \subseteq Nat \ {0}
  /\ MaxRepayments \in Nat
  /\ MaxAttempt \in Nat \ {0}

VARIABLES
  attempt,       \* the payout attempt: credited_minor, returned_total_minor
  returns,       \* settlement_returns, by provider reference
  notices,       \* return_notice artifacts
  reported,      \* what the provider reports as returned, in total
  checks,        \* answers of the provider in a caller's hands
  swept,         \* returns the watcher has selected and not yet escalated
  facility, reservations, repayments, ledger   \* as in Liquidity

Facility == INSTANCE Liquidity WITH
  Settlements <- References, NoSettlement <- NoReturn,
  MaxLimit <- Drawn + OtherDrawn, MaxReservations <- 2

returnVars == <<attempt, returns, notices, reported, checks, swept>>
allVars    == <<returnVars, facility, reservations, repayments, ledger>>

-----------------------------------------------------------------------------
(* The table of N01-N07, the cap and the triage *)

ReturnTransitions ==
  {[trigger |-> "open",               from |-> "NONE",          to |-> "OBSERVED"],       \* N01
   [trigger |-> "upheld",             from |-> "OBSERVED",      to |-> "CONFIRMED"],      \* N02
   [trigger |-> "not_upheld",         from |-> "OBSERVED",      to |-> "REJECTED"],       \* N03
   [trigger |-> "escalate",           from |-> "OBSERVED",      to |-> "MANUAL_REVIEW"],  \* N04
   [trigger |-> "escalate",           from |-> "CONFIRMED",     to |-> "MANUAL_REVIEW"],  \* N04
   [trigger |-> "repaid",             from |-> "CONFIRMED",     to |-> "REPAID"],         \* N05
   [trigger |-> "resolve_upheld",     from |-> "MANUAL_REVIEW", to |-> "CONFIRMED"],      \* N06
   [trigger |-> "resolve_not_upheld", from |-> "MANUAL_REVIEW", to |-> "REJECTED"]}       \* N07

evaluateReturnTransition(from, trigger) ==
  {t.to : t \in {u \in ReturnTransitions : u.from = from /\ u.trigger = trigger}}

UnusedReturn == [status |-> "NONE", amount |-> 0, repayment |-> 0]

countsConfirmed(r) == returns[r].status = "CONFIRMED"   \* mutant: REPAID forgotten

countsTowardCap(r) == returns[r].status \in {"CONFIRMED", "REPAID"}

ConfirmedRow(r) == IF countsTowardCap(r) THEN returns[r].amount ELSE 0

ConfirmedSoFar == Total([r \in References |-> ConfirmedRow(r)], MaxReturns)

checkReturnCap(r) ==
  /\ attempt.credited # Unknown
  /\ ConfirmedSoFar + returns[r].amount <= attempt.credited

(***************************************************************************)
(* CHECK payout_returns_never_exceed_delivered.                            *)
(***************************************************************************)
AttemptChecks(row) ==
  row.returned = 0 \/ (row.credited # Unknown /\ row.returned <= row.credited)

triageReturnArrival(elapsed) == elapsed <= Window

verdictOnOpening(mapped, elapsed) == ~mapped \/ ~triageReturnArrival(elapsed)   \* escalate at once

(***************************************************************************)
(* The fraction of the delivery that came back is the fraction of the      *)
(* drawdown that is repaid, rounded down.                                  *)
(***************************************************************************)
proRataRepayment(amount) == (Drawn * amount) \div attempt.credited

-----------------------------------------------------------------------------
(* Opening and checking *)

onceOpened(to, mapped, elapsed) ==
  IF verdictOnOpening(mapped, elapsed) THEN evaluateReturnTransition(to, "escalate") ELSE {to}

(***************************************************************************)
(* N01, and N04 in the same transaction for an unmapped reason or a late   *)
(* arrival.  A second sighting of a known reference, by whichever channel, *)
(* is an observation row that nothing reads, and no step here.             *)
(***************************************************************************)
openReturn(r, amount, mapped, elapsed) ==
  /\ amount > 0
  /\ \A q \in 1..(r - 1) : returns[q].status # "NONE"
  /\ \E to \in evaluateReturnTransition(returns[r].status, "open") :
     \E then \in onceOpened(to, mapped, elapsed) :
       returns' = [returns EXCEPT ![r] =
         [status |-> then, amount |-> amount, repayment |-> 0]]
  /\ UNCHANGED <<attempt, notices, reported, checks, swept>>
  /\ UNCHANGED <<facility, reservations, repayments, ledger>>

(***************************************************************************)
(* The provider returns money; its status pull reports the total.          *)
(***************************************************************************)
providerReturns(total) ==
  /\ total > reported
  /\ reported' = total
  /\ UNCHANGED <<attempt, returns, notices, checks, swept>>
  /\ UNCHANGED <<facility, reservations, repayments, ledger>>

(***************************************************************************)
(* The answer upholds the return if the provider reports RETURNED, unless  *)
(* it states a total below this return's amount: an answer that states     *)
(* none upholds it.  A pull that fails does not.                           *)
(***************************************************************************)
checkReturnWithProvider(r, answer) ==
  /\ returns[r].status \in {"OBSERVED", "MANUAL_REVIEW"}   \* the caller's selection
  /\ checks[r] = "NONE"
  /\ checks' = [checks EXCEPT ![r] =
       IF reported > 0 /\ (answer = "unstated" \/ (answer = "total" /\ reported >= returns[r].amount))
         THEN "UPHELD" ELSE "NOT_UPHELD"]
  /\ UNCHANGED <<attempt, returns, notices, reported, swept>>
  /\ UNCHANGED <<facility, reservations, repayments, ledger>>

-----------------------------------------------------------------------------
(* Confirming, rejecting, escalating *)

Escalated(r) ==
  \E to \in evaluateReturnTransition(returns[r].status, "escalate") :
    returns' = [returns EXCEPT ![r].status = to]

(***************************************************************************)
(* One notice for each return, an artifact of its own beside the receipt,  *)
(* which it cites and does not touch; issuing it again changes nothing.    *)
(***************************************************************************)
returnNoticeDocument(r, status) ==
  [return |-> r, amount |-> returns[r].amount, status_at_issue |-> status]

issueReturnNotice(r, status) ==
  notices' = IF \E n \in notices : n.return = r THEN notices
             ELSE notices \cup {returnNoticeDocument(r, status)}

(***************************************************************************)
(* N02, or N06 out of MANUAL_REVIEW.  The total is recomputed under the    *)
(* attempt's lock; a breach of the cap escalates instead (refused where    *)
(* N04 has no row).  The repayment is requested after the return and the   *)
(* counter are written: if the request is refused the call answers         *)
(* ok: false, and those writes stay.                                       *)
(***************************************************************************)
ConfirmTrigger(r) == IF returns[r].status = "MANUAL_REVIEW" THEN "resolve_upheld" ELSE "upheld"

RefusedRequest(r) ==
  LET amount == proRataRepayment(returns[r].amount)
  IN  amount <= 0 \/ amount > Facility!eligibleOutstanding

confirmWithinCap(r, to) ==
  /\ attempt' = [attempt EXCEPT !.returned = ConfirmedSoFar + returns[r].amount]
  /\ AttemptChecks(attempt')
  /\ IF RefusedRequest(r)
       THEN /\ returns' = [returns EXCEPT ![r].status = to]
            /\ UNCHANGED notices
            /\ UNCHANGED <<facility, reservations, repayments, ledger>>
       ELSE /\ Facility!requestRepayment(r, proRataRepayment(returns[r].amount))
            /\ \E i \in Facility!RepaymentIds :
                 /\ Facility!IsNextRepayment(i)
                 /\ returns' = [returns EXCEPT ![r].status = to, ![r].repayment = i]
            /\ issueReturnNotice(r, to)

confirmReturn(r) ==
  /\ checks[r] = "UPHELD"
  /\ \E to \in evaluateReturnTransition(returns[r].status, ConfirmTrigger(r)) :
       IF checkReturnCap(r)
         THEN confirmWithinCap(r, to)
         ELSE /\ Escalated(r)
              /\ UNCHANGED <<attempt, notices>>
              /\ UNCHANGED <<facility, reservations, repayments, ledger>>
  /\ checks' = [checks EXCEPT ![r] = "NONE"]
  /\ UNCHANGED <<reported, swept>>

RejectTrigger(r) ==
  IF returns[r].status = "MANUAL_REVIEW" THEN "resolve_not_upheld" ELSE "not_upheld"

rejectReturn(r) ==
  /\ checks[r] = "NOT_UPHELD" \/ returns[r].status = "MANUAL_REVIEW"
  /\ \E to \in evaluateReturnTransition(returns[r].status, RejectTrigger(r)) :
       returns' = [returns EXCEPT ![r].status = to]
  /\ checks' = [checks EXCEPT ![r] = "NONE"]
  /\ UNCHANGED <<attempt, notices, reported, swept>>
  /\ UNCHANGED <<facility, reservations, repayments, ledger>>

(***************************************************************************)
(* N05: the repayment's status is read, never asserted.                    *)
(***************************************************************************)
markUnread(r) ==   \* mutant: the caller's word is taken for the repayment
  /\ returns[r].repayment # 0
  /\ \E to \in evaluateReturnTransition(returns[r].status, "repaid") :
       returns' = [returns EXCEPT ![r].status = to]
  /\ UNCHANGED <<attempt, notices, reported, checks, swept>>
  /\ UNCHANGED <<facility, reservations, repayments, ledger>>

markReturnRepaid(r) ==
  /\ returns[r].repayment # 0
  /\ repayments[returns[r].repayment].status = "CONFIRMED"
  /\ \E to \in evaluateReturnTransition(returns[r].status, "repaid") :
       returns' = [returns EXCEPT ![r].status = to]
  /\ UNCHANGED <<attempt, notices, reported, checks, swept>>
  /\ UNCHANGED <<facility, reservations, repayments, ledger>>

(***************************************************************************)
(* The watcher: OBSERVED past the check SLA, selected without a lock, then *)
(* escalated from whatever the row says by then.                           *)
(***************************************************************************)
selectConfirmed ==   \* mutant: the watcher looks for another status
  /\ swept = {}
  /\ swept' = {r \in References : returns[r].status = "CONFIRMED"}
  /\ UNCHANGED <<attempt, returns, notices, reported, checks>>
  /\ UNCHANGED <<facility, reservations, repayments, ledger>>

selectOverdue ==
  /\ swept = {}
  /\ swept' = {r \in References : returns[r].status = "OBSERVED"}
  /\ UNCHANGED <<attempt, returns, notices, reported, checks>>
  /\ UNCHANGED <<facility, reservations, repayments, ledger>>

escalateReturn(r) ==
  /\ r \in swept
  /\ swept' = swept \ {r}
  /\ Escalated(r) \/ (/\ evaluateReturnTransition(returns[r].status, "escalate") = {}
                      /\ UNCHANGED returns)
  /\ UNCHANGED <<attempt, notices, reported, checks>>
  /\ UNCHANGED <<facility, reservations, repayments, ledger>>

-----------------------------------------------------------------------------
(***************************************************************************)
(* Operators and the repayment provider work on the facility meanwhile.    *)
(***************************************************************************)
advanceRepayment(i) ==
  /\ \E t \in Facility!RepaymentTransitions : Facility!advanceRepayment(i, t.trigger)
  /\ UNCHANGED returnVars

requestManualRepayment(amount) ==
  /\ Facility!requestRepayment(NoReturn, amount)
  /\ UNCHANGED returnVars

(***************************************************************************)
(* The settlement is SETTLED: its drawdown, and those of others, were      *)
(* consumed from reservations of a facility drawn to its limit.            *)
(***************************************************************************)
ReturnsInit ==
  /\ attempt \in {[credited |-> c, returned |-> 0] : c \in Credited}
  /\ returns = [r \in References |-> UnusedReturn]
  /\ notices = {}
  /\ reported = 0
  /\ checks = [r \in References |-> "NONE"]
  /\ swept = {}
  /\ facility = [status |-> "ACTIVE", limit |-> Drawn + OtherDrawn,
                 drawn |-> Drawn + OtherDrawn, reserved |-> 0]
  /\ reservations = [i \in 1..2 |->
       [settlement |-> NoReturn, amount |-> IF i = 1 THEN Drawn ELSE OtherDrawn,
        status |-> "CONSUMED"]]
  /\ repayments = [i \in Facility!RepaymentIds |-> Facility!UnusedRepayment]
  /\ ledger = [m \in Facility!Movements |->
       IF m \in {"reservation_created", "reservation_consumed"} THEN Drawn + OtherDrawn ELSE 0]

ReturnsNext ==
  \/ \E r \in References, amount \in ReturnAmounts, mapped \in BOOLEAN,
       elapsed \in {Window, Window + 1} : openReturn(r, amount, mapped, elapsed)
  \/ \E total \in ReturnAmounts : providerReturns(total)
  \/ \E r \in References, answer \in {"total", "unstated", "failed"} : checkReturnWithProvider(r, answer)
  \/ \E r \in References : confirmReturn(r)
  \/ \E r \in References : rejectReturn(r)
  \/ \E r \in References : markReturnRepaid(r)
  \/ selectOverdue
  \/ \E r \in References : escalateReturn(r)
  \/ \E i \in Facility!RepaymentIds : advanceRepayment(i)
  \/ \E amount \in ManualAmounts : requestManualRepayment(amount)

(***************************************************************************)
(* The watcher runs periodically (docs/STATE_MACHINES.md section 9).       *)
(***************************************************************************)
ReturnsFairness ==
  /\ WF_allVars(selectOverdue)
  /\ WF_allVars(\E r \in References : escalateReturn(r))
  /\ \A r \in References : WF_allVars(markReturnRepaid(r))

ReturnsSpec == ReturnsInit /\ [][ReturnsNext]_allVars /\ ReturnsFairness

-----------------------------------------------------------------------------
(* Properties *)

(***************************************************************************)
(* Rows keep to their columns, the attempt satisfies its CHECK, and the    *)
(* facility its own type.                                                  *)
(***************************************************************************)
ReturnsTypeOK ==
  /\ attempt \in [credited : Nat \cup {Unknown}, returned : Nat]
  /\ AttemptChecks(attempt)
  /\ returns \in [References ->
       [status : {"NONE", "OBSERVED", "CONFIRMED", "REPAID", "REJECTED", "MANUAL_REVIEW"},
        amount : Nat, repayment : {0} \cup Facility!RepaymentIds]]
  /\ notices \subseteq [return : References, amount : Nat, status_at_issue : {"CONFIRMED"}]
  /\ reported \in Nat
  /\ checks \in [References -> {"NONE", "UPHELD", "NOT_UPHELD"}]
  /\ swept \subseteq References
  /\ Facility!LiquidityTypeOK

(***************************************************************************)
(* INV-49: however returns are reported, checked, escalated and resolved,  *)
(* the confirmed ones never exceed what was delivered, and the counter on  *)
(* the attempt covers them (confirmReturn under the attempt's lock).       *)
(***************************************************************************)
CameBack(r) == IF returns[r].status \in {"CONFIRMED", "REPAID"} THEN returns[r].amount ELSE 0

ConfirmedWithinDelivered ==
  LET total == Total([r \in References |-> CameBack(r)], MaxReturns)
  IN  /\ attempt.credited # Unknown => total <= attempt.credited
      /\ total <= attempt.returned

(***************************************************************************)
(* INV-41: a return is REPAID only by money that came back: the repayment  *)
(* it caused is CONFIRMED, is its own and no other's, for its share of the *)
(* drawdown (markReturnRepaid, confirmReturn).                             *)
(***************************************************************************)
RepaidIsRestored ==
  \A r \in References :
    returns[r].status = "REPAID" =>
      LET paid == repayments[returns[r].repayment]
      IN  /\ paid.status = "CONFIRMED"
          /\ paid.settlement = r
          /\ \E n \in notices : n.return = r /\ n.amount = returns[r].amount
          /\ paid.amount * attempt.credited <= Drawn * returns[r].amount

(***************************************************************************)
(* What the confirmed returns give back of the drawdown never exceeds the  *)
(* drawdown: the shares are rounded down under one cap                     *)
(* (proRataRepayment, checkReturnCap).                                     *)
(***************************************************************************)
ShareOf(i) ==
  LET r == repayments[i].settlement
  IN  IF r # NoReturn /\ repayments[i].status \notin {"NONE", "FAILED"} /\ countsTowardCap(r)
        THEN repayments[i].amount ELSE 0

RestorationWithinDrawdown ==
  Total([i \in Facility!RepaymentIds |-> ShareOf(i)], MaxRepayments) <= Drawn

(***************************************************************************)
(* No return is forgotten: one left OBSERVED is confirmed, rejected or put *)
(* before an operator (sweepReturnChecks), and a confirmed one whose       *)
(* repayment is confirmed becomes REPAID unless it is escalated first.     *)
(***************************************************************************)
NoReturnIsForgotten ==
  \A r \in References :
    /\ returns[r].status = "OBSERVED" ~> returns[r].status # "OBSERVED"
    /\ (/\ returns[r].status = "CONFIRMED"
        /\ \E i \in Facility!RepaymentIds :
             returns[r].repayment = i /\ repayments[i].status = "CONFIRMED")
       ~> returns[r].status # "CONFIRMED"

(***************************************************************************)
(* What returns give back to the facility is what came back, and never     *)
(* more than was drawn (confirmReturn, markReturnRepaid).                  *)
(***************************************************************************)
RestorationIsExact ==
  /\ ReturnsTypeOK
  /\ RepaidIsRestored
  /\ RestorationWithinDrawdown
=============================================================================
