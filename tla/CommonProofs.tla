---------------------------- MODULE CommonProofs ----------------------------
(***************************************************************************)
(* Facts several proofs rest on: induction and recursion over numbers,     *)
(* sums over the rows of a table, and the settlement transition table with *)
(* the row it writes.                                                      *)
(***************************************************************************)
EXTENDS Totals, SettlementMachine, WellFoundedInduction, TLAPS

-----------------------------------------------------------------------------
(* Whole numbers.  Induction is by least counterexample, which names a set *)
(* and no operator.                                                        *)

(***************************************************************************)
(* Every nonempty set of naturals has a least element.                     *)
(***************************************************************************)
LEMMA LeastNatural ==
  ASSUME NEW T \in SUBSET Nat, T # {}
  PROVE  \E x \in T : \A y \in T : ~(y < x)
<1> DEFINE R == OpToRel(<, Nat)
<1>1. IsWellFoundedOn(R, Nat)
  BY NatLessThanWellFounded
<1> HIDE DEF R
<1>2. \E x \in T : \A y \in T : ~(<<y, x>> \in R)
  BY <1>1, WFMin
<1>3. \A x, y \in Nat : y < x => <<y, x>> \in R
  BY DEF R, OpToRel
<1> QED
  BY <1>2, <1>3

(***************************************************************************)
(* Induction over 0..n for a set of numbers instead of a predicate.        *)
(***************************************************************************)
LEMMA IntervalInduction ==
  ASSUME NEW n \in Nat, NEW G, 0 \in G,
         \A k \in 1..n : k - 1 \in G => k \in G
  PROVE  \A k \in 0..n : k \in G
<1> DEFINE T == {k \in 0..n : k \notin G}
<1> SUFFICES ASSUME T # {} PROVE FALSE
  OBVIOUS
<1>1. PICK m \in T : \A y \in T : ~(y < m)
  <2>1. T \in SUBSET Nat
    OBVIOUS
  <2> QED
    BY <2>1, LeastNatural
<1>2. m \in 1..n
  OBVIOUS
<1>3. m - 1 \in 0..n /\ m - 1 < m
  BY <1>2
<1>4. m - 1 \in G
  BY <1>1, <1>3
<1> QED
  BY <1>2, <1>4

(***************************************************************************)
(* A quotient rounded down is no more than the whole, and a larger number  *)
(* stays larger when both are multiplied.                                  *)
(***************************************************************************)
LEMMA RoundedDown ==
  ASSUME NEW a \in Nat, NEW c \in Nat \ {0}
  PROVE  /\ (a \div c) \in Nat
         /\ (a \div c) * c <= a
OBVIOUS

LEMMA SameFactor ==
  ASSUME NEW a \in Nat, NEW b \in Nat, NEW c \in Nat, a <= b
  PROVE  c * a <= c * b
<1>1. PICK d \in Nat : b = a + d
  OBVIOUS
<1>2. c * (a + d) = c * a + c * d /\ c * d \in Nat /\ c * a \in Nat
  OBVIOUS
<1> QED
  BY <1>1, <1>2

(***************************************************************************)
(* A recursive definition that refers to the step before has a solution.   *)
(***************************************************************************)
Solvable(n, S, start, step) ==
  \E g \in [0..n -> S] : g[0] = start /\ \A k \in 1..n : g[k] = step[<<k, g[k - 1]>>]

LEMMA RecursionExists ==
  ASSUME NEW n \in Nat, NEW S, NEW start \in S, NEW step \in [(1..n) \X S -> S]
  PROVE  Solvable(n, S, start, step)
<1> DEFINE Upto(g, m) == /\ g \in [0..m -> S]
                         /\ g[0] = start
                         /\ \A k \in 1..m : g[k] = step[<<k, g[k - 1]>>]
           G == {m \in 0..n : \E g : Upto(g, m)}
<1>1. 0 \in G
  <2>1. Upto([k \in 0..0 |-> start], 0)
    OBVIOUS
  <2>2. 0 \in 0..n
    OBVIOUS
  <2> HIDE DEF Upto
  <2> QED
    BY <2>1, <2>2
<1>2. ASSUME NEW m \in 1..n, m - 1 \in G PROVE m \in G
  <2>1. PICK g : Upto(g, m - 1)
    <3> HIDE DEF Upto
    <3> QED
      BY <1>2
  <2> DEFINE h == [k \in 0..m |-> IF k = m THEN step[<<m, g[m - 1]>>] ELSE g[k]]
  <2>2. \A k \in 0..m : k # m => k \in 0..(m - 1)
    OBVIOUS
  <2>3. h \in [0..m -> S]
    <3>1. g[m - 1] \in S
      BY <2>1
    <3>2. step[<<m, g[m - 1]>>] \in S
      BY <3>1
    <3> QED
      BY <2>1, <2>2, <3>2
  <2>4. h[0] = start
    BY <2>1
  <2>5. ASSUME NEW k \in 1..m PROVE h[k] = step[<<k, h[k - 1]>>]
    <3>1. CASE k = m
      <4>1. h[k - 1] = g[m - 1] /\ h[k] = step[<<m, g[m - 1]>>]
        BY <3>1
      <4> QED
        BY <3>1, <4>1
    <3>2. CASE k # m
      <4>1. k \in 1..(m - 1) /\ k - 1 \in 0..m /\ k - 1 # m
        BY <3>2
      <4>2. h[k] = g[k] /\ h[k - 1] = g[k - 1]
        BY <3>2, <4>1
      <4> HIDE DEF h
      <4> QED
        BY <2>1, <4>1, <4>2
    <3> QED
      BY <3>1, <3>2
  <2>6. Upto(h, m)
    BY <2>3, <2>4, <2>5
  <2>7. m \in 0..n
    OBVIOUS
  <2> HIDE DEF Upto, h
  <2> QED
    BY <2>6, <2>7
<1>3. n \in G
  <2> HIDE DEF G
  <2>1. \A k \in 0..n : k \in G
    BY <1>1, <1>2, IntervalInduction
  <2> QED
    BY <2>1
<1>4. \E g : Upto(g, n)
  <2> HIDE DEF Upto
  <2> QED
    BY <1>3
<1> QED
  BY <1>4 DEF Solvable

-----------------------------------------------------------------------------
(***************************************************************************)
(* What the proofs need to know of Total: it is well defined, it is zero   *)
(* on a table of zeros, never negative on a table of naturals, and a       *)
(* change of one row changes it by what that row changed by.               *)
(***************************************************************************)

(***************************************************************************)
(* The recursive definition of RunningTotal has a solution.                *)
(***************************************************************************)
LEMMA RunningTotalExists ==
  ASSUME NEW n \in Nat, NEW f \in [1..n -> Int]
  PROVE  \E g : g = [k \in 0..n |-> IF k = 0 THEN 0 ELSE g[k - 1] + f[k]]
<1> DEFINE Upto(g, m) == /\ g \in [0..m -> Int]
                         /\ g[0] = 0
                         /\ \A k \in 1..m : g[k] = g[k - 1] + f[k]
           G == {m \in 0..n : \E g : Upto(g, m)}
<1>1. 0 \in G
  <2>1. Upto([k \in 0..0 |-> 0], 0)
    OBVIOUS
  <2>2. 0 \in 0..n
    OBVIOUS
  <2> HIDE DEF Upto
  <2> QED
    BY <2>1, <2>2
<1>2. ASSUME NEW m \in 1..n, m - 1 \in G PROVE m \in G
  <2>1. PICK g : Upto(g, m - 1)
    <3> HIDE DEF Upto
    <3> QED
      BY <1>2
  <2> DEFINE h == [k \in 0..m |-> IF k = m THEN g[m - 1] + f[m] ELSE g[k]]
  <2>2. \A k \in 0..m : k # m => k \in 0..(m - 1)
    OBVIOUS
  <2>3. h \in [0..m -> Int]
    BY <2>1, <2>2
  <2>4. h[0] = 0
    BY <2>1
  <2>5. ASSUME NEW k \in 1..m PROVE h[k] = h[k - 1] + f[k]
    <3>1. CASE k = m
      BY <3>1
    <3>2. CASE k # m
      <4>1. k \in 1..(m - 1) /\ k - 1 \in 0..m /\ k - 1 # m
        BY <3>2
      <4>2. h[k] = g[k] /\ h[k - 1] = g[k - 1]
        BY <3>2, <4>1
      <4> HIDE DEF h
      <4> QED
        BY <2>1, <4>1, <4>2
    <3> QED
      BY <3>1, <3>2
  <2>6. Upto(h, m)
    BY <2>3, <2>4, <2>5
  <2>7. m \in 0..n
    OBVIOUS
  <2> HIDE DEF Upto, h
  <2> QED
    BY <2>6, <2>7
<1>3. n \in G
  <2> HIDE DEF G
  <2>1. \A k \in 0..n : k \in G
    BY <1>1, <1>2, IntervalInduction
  <2> QED
    BY <2>1
<1>4. PICK g : Upto(g, n)
  <2> HIDE DEF Upto
  <2> QED
    BY <1>3
<1>5. g = [k \in 0..n |-> IF k = 0 THEN 0 ELSE g[k - 1] + f[k]]
  <2>1. \A k \in 0..n : g[k] = IF k = 0 THEN 0 ELSE g[k - 1] + f[k]
    BY <1>4
  <2> QED
    BY <1>4, <2>1
<1> QED
  BY <1>5

(***************************************************************************)
(* RunningTotal unfolds as it is written, and is an integer throughout.    *)
(***************************************************************************)
LEMMA RunningTotalDef ==
  ASSUME NEW n \in Nat, NEW f \in [1..n -> Int]
  PROVE  /\ RunningTotal(f, n)[0] = 0
         /\ \A k \in 1..n : RunningTotal(f, n)[k] = RunningTotal(f, n)[k - 1] + f[k]
         /\ \A k \in 0..n : RunningTotal(f, n)[k] \in Int
<1> DEFINE g == RunningTotal(f, n)
<1>1. g = [k \in 0..n |-> IF k = 0 THEN 0 ELSE g[k - 1] + f[k]]
  BY RunningTotalExists DEF RunningTotal
<1> HIDE DEF g
<1>2. g[0] = 0
  BY <1>1
<1>3. \A k \in 1..n : g[k] = g[k - 1] + f[k]
  BY <1>1
<1>4. \A k \in 0..n : g[k] \in Int
  <2> DEFINE G == {k \in 0..n : g[k] \in Int}
  <2>1. 0 \in G
    BY <1>2
  <2>2. \A k \in 1..n : k - 1 \in G => k \in G
    BY <1>3
  <2> HIDE DEF G
  <2>3. \A k \in 0..n : k \in G
    BY <2>1, <2>2, IntervalInduction
  <2> QED
    BY <2>3 DEF G
<1> QED
  BY <1>2, <1>3, <1>4 DEF g

(***************************************************************************)
(* A table of zeros adds up to zero.                                       *)
(***************************************************************************)
LEMMA TotalOfZeros ==
  ASSUME NEW n \in Nat, NEW f \in [1..n -> Int], \A k \in 1..n : f[k] = 0
  PROVE  Total(f, n) = 0
<1> DEFINE g == RunningTotal(f, n)
           G == {k \in 0..n : g[k] = 0}
<1>1. 0 \in G
  BY RunningTotalDef
<1>2. \A k \in 1..n : k - 1 \in G => k \in G
  BY RunningTotalDef
<1> HIDE DEF G
<1>3. \A k \in 0..n : k \in G
  BY <1>1, <1>2, IntervalInduction
<1> QED
  BY <1>3 DEF G, Total

(***************************************************************************)
(* A table of naturals adds up to a natural.                               *)
(***************************************************************************)
LEMMA TotalOfNaturals ==
  ASSUME NEW n \in Nat, NEW f \in [1..n -> Nat]
  PROVE  Total(f, n) \in Nat
<1> DEFINE g == RunningTotal(f, n)
           G == {k \in 0..n : g[k] \in Nat}
<1>0. f \in [1..n -> Int]
  OBVIOUS
<1>u. g[0] = 0 /\ \A k \in 1..n : g[k] = g[k - 1] + f[k]
  BY <1>0, RunningTotalDef
<1> HIDE DEF g
<1>1. 0 \in G
  BY <1>u
<1>2. ASSUME NEW k \in 1..n, k - 1 \in G PROVE k \in G
  BY <1>u, <1>2
<1> HIDE DEF G
<1>3. \A k \in 0..n : k \in G
  BY <1>1, <1>2, IntervalInduction
<1> QED
  BY <1>3 DEF G, g, Total

(***************************************************************************)
(* Two tables that differ in row i only: their sums differ by that row.    *)
(***************************************************************************)
LEMMA TotalUpdate ==
  ASSUME NEW n \in Nat, NEW f \in [1..n -> Int], NEW h \in [1..n -> Int],
         NEW i \in 1..n, \A j \in 1..n : j # i => h[j] = f[j]
  PROVE  /\ Total(h, n) = Total(f, n) + h[i] - f[i]
         /\ Total(f, n) \in Int
<1> DEFINE F == RunningTotal(f, n)
           H == RunningTotal(h, n)
           G == {k \in 0..n : H[k] = F[k] + (IF i <= k THEN h[i] - f[i] ELSE 0)}
<1>1. /\ F[0] = 0
      /\ \A k \in 1..n : F[k] = F[k - 1] + f[k]
      /\ \A k \in 0..n : F[k] \in Int
  BY RunningTotalDef
<1>2. /\ H[0] = 0
      /\ \A k \in 1..n : H[k] = H[k - 1] + h[k]
      /\ \A k \in 0..n : H[k] \in Int
  BY RunningTotalDef
<1> HIDE DEF F, H
<1>3. 0 \in G
  BY <1>1, <1>2
<1>4. ASSUME NEW k \in 1..n, k - 1 \in G PROVE k \in G
  <2>0. k - 1 \in 0..n /\ f[k] \in Int /\ h[k] \in Int /\ f[i] \in Int /\ h[i] \in Int
    OBVIOUS
  <2>1. CASE k < i
    BY <1>1, <1>2, <1>4, <2>0, <2>1
  <2>2. CASE k = i
    BY <1>1, <1>2, <1>4, <2>0, <2>2
  <2>3. CASE k > i
    <3>1. i <= k - 1 /\ i <= k /\ h[k] = f[k]
      BY <2>3
    <3>2. H[k - 1] = F[k - 1] + (h[i] - f[i])
      BY <1>4, <3>1
    <3>3. H[k] = F[k] + (h[i] - f[i])
      BY <1>1, <1>2, <2>0, <3>1, <3>2
    <3> QED
      BY <3>1, <3>3
  <2> QED
    BY <2>1, <2>2, <2>3
<1> HIDE DEF G
<1>5. \A k \in 0..n : k \in G
  BY <1>3, <1>4, IntervalInduction
<1>6. H[n] = F[n] + h[i] - f[i] /\ F[n] \in Int
  BY <1>1, <1>5 DEF G
<1> QED
  BY <1>6 DEF F, H, Total

(***************************************************************************)
(* Tables that agree on every row have the same sum.                       *)
(***************************************************************************)
LEMMA TotalCongruence ==
  ASSUME NEW n \in Nat, NEW f \in [1..n -> Int], NEW h \in [1..n -> Int],
         \A j \in 1..n : h[j] = f[j]
  PROVE  Total(h, n) = Total(f, n)
<1>1. h = f
  OBVIOUS
<1> QED
  BY <1>1

-----------------------------------------------------------------------------
(* The transition table and the row it writes *)

Dispatched == DispatchedStatuses \cup {"SETTLED"}

(***************************************************************************)
(* The triggers that open an exception.                                    *)
(***************************************************************************)
ExceptionTriggers ==
  {"reservation_failed", "drawdown_failed", "payout_rejected", "payout_timeout",
   "reconciled_mismatch", "reservation_expired", "drawdown_timeout", "reconciliation_stalled"}

(***************************************************************************)
(* What the proofs need to know of one row of the table: its destination   *)
(* is a status or one of the two markers; only resolutions leave EXCEPTION *)
(* and none enters it; apart from T15, every row stays on its side of the  *)
(* point of no return, and none leads back from a drawdown; confirmations  *)
(* have one trigger each and no exception is entered from them.            *)
(***************************************************************************)
RowFacts(t) ==
  /\ t.to \in Statuses \cup {"ENTERED_FROM", "SAME"}
  /\ t.to = "ENTERED_FROM" <=> t.trigger = "resolve_resume"
  /\ t.to = "SAME" <=> t.trigger = "request_cancellation"
  /\ "EXCEPTION" \in t.from <=> t.trigger \in {"resolve_resume", "resolve_fail", "resolve_cancel"}
  /\ t.trigger \in {"resolve_resume", "resolve_fail", "resolve_cancel"} =>
       t.from = {"EXCEPTION"} /\ t.to \in {"ENTERED_FROM", "FAILED", "CANCELLED"}
  /\ t.trigger = "request_cancellation" => t.from \cap Dispatched = {}
  /\ t.trigger = "dispatch_payout" =>
       t.from = {"DRAWDOWN_CONFIRMED"} /\ t.to = "PAYOUT_SUBMITTED"
  /\ t.to \notin {"EXCEPTION", "CANCELLED", "ENTERED_FROM", "SAME"}
       /\ t.trigger \notin {"dispatch_payout", "resolve_fail"} =>
       IF t.to \in Dispatched THEN t.from \subseteq Dispatched ELSE t.from \cap Dispatched = {}
  /\ t.to = "PAYOUT_CONFIRMED" => t.trigger = "payout_credited"
  /\ t.to = "EXCEPTION" => t.from \cap {"PAYOUT_CONFIRMED", "DRAWDOWN_CONFIRMED"} = {}
  /\ t.to = "DRAWDOWN_CONFIRMED" => t.trigger = "drawdown_confirmed"
  /\ t.trigger = "request_drawdown" =>
       t.from = {"LIQUIDITY_RESERVED"} /\ t.to = "DRAWDOWN_REQUESTED"
  /\ t.from \cap {"DRAWDOWN_REQUESTED", "DRAWDOWN_CONFIRMED"} # {}
       /\ t.trigger # "dispatch_payout" =>
       t.to \in {"DRAWDOWN_REQUESTED", "DRAWDOWN_CONFIRMED", "EXCEPTION", "SAME", "CANCELLED"}
  /\ t.from \cap TerminalStatuses = {}
  /\ t.trigger \in ExceptionTriggers => t.to = "EXCEPTION"

(***************************************************************************)
(* They hold of every row of the table.                                    *)
(***************************************************************************)
LEMMA TableFacts == \A t \in Transitions : RowFacts(t)
<1>1. \A t \in PreparationTransitions : RowFacts(t)
  BY DEF PreparationTransitions, Transition, RowFacts, Statuses, Dispatched, DispatchedStatuses,
      TerminalStatuses, ExceptionTriggers
<1>2. \A t \in FundingTransitions : RowFacts(t)
  BY DEF FundingTransitions, Transition, RowFacts, Statuses, Dispatched, DispatchedStatuses,
      TerminalStatuses, ExceptionTriggers
<1>3. \A t \in PayoutTransitions : RowFacts(t)
  BY DEF PayoutTransitions, Transition, RowFacts, Statuses, Dispatched, DispatchedStatuses,
      TerminalStatuses, ExceptionTriggers
<1>4. \A t \in ResolutionTransitions : RowFacts(t)
  BY DEF ResolutionTransitions, Transition, RowFacts, Statuses, Dispatched, DispatchedStatuses,
      TerminalStatuses, ExceptionTriggers
<1>5. \A t \in CancellationTransitions : RowFacts(t)
  BY DEF CancellationTransitions, Transition, RowFacts, Statuses, Dispatched, DispatchedStatuses,
      TerminalStatuses, ExceptionTriggers
<1>6. \A t \in SweeperTransitions : RowFacts(t)
  BY DEF SweeperTransitions, Transition, RowFacts, Statuses, Dispatched, DispatchedStatuses,
      TerminalStatuses, ExceptionTriggers
<1> QED
  BY <1>1, <1>2, <1>3, <1>4, <1>5, <1>6 DEF Transitions

(***************************************************************************)
(* A permitted transition comes from the table and leaves a status its row *)
(* names; the row it writes is well typed.                                 *)
(***************************************************************************)
LEMMA AppliedIsRow ==
  ASSUME NEW row \in Rows, NEW trigger, NEW answers, NEW t \in Permitted(row, trigger, answers)
  PROVE  /\ t \in Transitions /\ t.trigger = trigger /\ row.status \in t.from
         /\ RowFacts(t)
         /\ Applied(row, t) \in Rows
<1>1. /\ t \in Transitions /\ t.trigger = trigger /\ row.status \in t.from
      /\ t.guards \subseteq answers
      /\ t.to = "ENTERED_FROM" => row.enteredFrom # "NONE"
  BY DEF Permitted
<1>2. RowFacts(t)
  BY <1>1, TableFacts
<1>3. Destination(row, t) \in Statuses
  BY <1>1, <1>2 DEF Destination, RowFacts, Rows
<1>4. (row.cancelRequested \/ t.trigger = "request_cancellation") \in BOOLEAN
  OBVIOUS
<1>5. (row.pastPonr \/ t.trigger = "dispatch_payout") \in BOOLEAN
  OBVIOUS
<1>6. (IF t.to = "EXCEPTION" THEN row.status ELSE row.enteredFrom) \in Statuses \cup {"NONE"}
  BY DEF Rows
<1>7. Applied(row, t) \in Rows
  BY <1>3, <1>4, <1>5, <1>6 DEF Applied, Rows
<1> QED
  BY <1>1, <1>2, <1>7

(***************************************************************************)
(* The status a row is in or, in EXCEPTION, headed back to, and whether    *)
(* the PONR stamp agrees with it.                                          *)
(***************************************************************************)
PhaseOf(row) == IF row.status = "EXCEPTION" THEN row.enteredFrom ELSE row.status

StampAgrees(row) ==
  PhaseOf(row) \notin {"FAILED", "CANCELLED"} => (row.pastPonr <=> PhaseOf(row) \in Dispatched)

(***************************************************************************)
(* No transition the trigger lets through parts the stamp from the phase.  *)
(***************************************************************************)
LEMMA AppliedKeepsStamp ==
  ASSUME NEW row \in Rows, NEW trigger, NEW answers, NEW t \in Permitted(row, trigger, answers),
         StampAgrees(row), ProtectSettlementRow(row, Applied(row, t))
  PROVE  StampAgrees(Applied(row, t))
<1> SUFFICES ASSUME NEW new, new = Applied(row, t) PROVE StampAgrees(new)
  OBVIOUS
<1>1. /\ t.trigger = trigger /\ row.status \in t.from /\ RowFacts(t)
  BY AppliedIsRow
<1>2. row.status \notin TerminalStatuses
  BY DEF ProtectSettlementRow
<1>3. /\ new.status = Destination(row, t)
      /\ new.enteredFrom = IF t.to = "EXCEPTION" THEN row.status ELSE row.enteredFrom
      /\ new.pastPonr <=> row.pastPonr \/ t.trigger = "dispatch_payout"
  BY DEF Applied
<1>4. CASE t.trigger = "dispatch_payout"
  BY <1>1, <1>3, <1>4 DEF RowFacts, StampAgrees, PhaseOf, Destination, Dispatched, DispatchedStatuses,
      TerminalStatuses, ExceptionTriggers
<1>5. CASE t.trigger # "dispatch_payout" /\ t.to = "EXCEPTION"
  <2>1. new.status = "EXCEPTION" /\ new.enteredFrom = row.status
    BY <1>3, <1>5 DEF Destination
  <2>2. row.status # "EXCEPTION"
    BY <1>1, <1>5 DEF RowFacts
  <2> QED
    BY <1>3, <1>5, <2>1, <2>2 DEF StampAgrees, PhaseOf
<1>6. CASE t.to = "ENTERED_FROM"
  <2>1. /\ row.status = "EXCEPTION" /\ new.status = row.enteredFrom
        /\ new.enteredFrom = row.enteredFrom
    BY <1>1, <1>3, <1>6 DEF RowFacts, Destination
  <2>2. new.pastPonr <=> row.pastPonr
    BY <1>1, <1>3, <1>6 DEF RowFacts
  <2> QED
    BY <2>1, <2>2 DEF StampAgrees, PhaseOf
<1>7. CASE t.to = "SAME"
  <2>1. row.status # "EXCEPTION" /\ new.status = row.status
    BY <1>1, <1>3, <1>7 DEF RowFacts, Destination
  <2>2. new.pastPonr <=> row.pastPonr
    BY <1>1, <1>3, <1>7 DEF RowFacts
  <2> QED
    BY <2>1, <2>2 DEF StampAgrees, PhaseOf
<1>8. CASE t.to \in {"FAILED", "CANCELLED"}
  BY <1>3, <1>8 DEF StampAgrees, PhaseOf, Destination
<1>9. CASE /\ t.trigger # "dispatch_payout"
           /\ t.to \notin {"EXCEPTION", "ENTERED_FROM", "SAME", "FAILED", "CANCELLED"}
  <2>1. /\ new.status = t.to /\ new.status # "EXCEPTION" /\ (new.pastPonr <=> row.pastPonr)
    BY <1>3, <1>9 DEF Destination
  <2>2. row.status # "EXCEPTION" /\ t.trigger # "resolve_fail"
    BY <1>1, <1>9 DEF RowFacts
  <2>3. t.to \in Dispatched <=> row.status \in Dispatched
    BY <1>1, <1>9, <2>2 DEF RowFacts
  <2>4. row.status \notin {"FAILED", "CANCELLED"}
    BY <1>2 DEF TerminalStatuses
  <2> QED
    BY <2>1, <2>2, <2>3, <2>4 DEF StampAgrees, PhaseOf
<1> QED
  BY <1>4, <1>5, <1>6, <1>7, <1>8, <1>9

(***************************************************************************)
(* protect_settlement_row has nothing to object to: whatever the table     *)
(* permits, from a row whose stamp agrees with its phase and whose         *)
(* exception was not entered from a terminal status, is let through.       *)
(***************************************************************************)
LEMMA AppliedIsLetThrough ==
  ASSUME NEW row \in Rows, NEW trigger, NEW answers, NEW t \in Permitted(row, trigger, answers),
         StampAgrees(row), row.enteredFrom \notin TerminalStatuses
  PROVE  /\ ProtectSettlementRow(row, Applied(row, t))
         /\ Applied(row, t).enteredFrom \notin TerminalStatuses
<1> SUFFICES ASSUME NEW new, new = Applied(row, t)
             PROVE  ProtectSettlementRow(row, new) /\ new.enteredFrom \notin TerminalStatuses
  OBVIOUS
<1>1. row.status \in t.from /\ RowFacts(t)
  BY AppliedIsRow
<1>2. /\ new.status = Destination(row, t)
      /\ new.enteredFrom = IF t.to = "EXCEPTION" THEN row.status ELSE row.enteredFrom
      /\ row.pastPonr => new.pastPonr
  BY DEF Applied
<1>3. row.status \notin TerminalStatuses
  BY <1>1 DEF RowFacts
<1>4. new.enteredFrom \notin TerminalStatuses
  BY <1>2, <1>3
<1>5. CASE row.status = "EXCEPTION"
  <2>1. /\ t.to \in {"ENTERED_FROM", "FAILED", "CANCELLED"}
        /\ new.enteredFrom = row.enteredFrom
    BY <1>1, <1>2, <1>5 DEF RowFacts
  <2>2. CASE t.to = "ENTERED_FROM"
    <3>1. new.status = row.enteredFrom
      BY <1>2, <2>2 DEF Destination
    <3>2. row.pastPonr => row.enteredFrom \in DispatchedStatuses
      BY <1>5 DEF StampAgrees, PhaseOf, Dispatched, TerminalStatuses
    <3> QED
      BY <1>2, <1>4, <1>5, <2>1, <3>1, <3>2 DEF ProtectSettlementRow, TerminalStatuses
  <2>3. CASE t.to \in {"FAILED", "CANCELLED"}
    BY <1>2, <1>4, <1>5, <2>1, <2>3 DEF ProtectSettlementRow, Destination, TerminalStatuses
  <2> QED
    BY <2>1, <2>2, <2>3
<1>6. CASE row.status # "EXCEPTION"
  <2>1. new.status = "EXCEPTION" => t.to = "EXCEPTION"
    BY <1>1, <1>2, <1>6 DEF Destination, RowFacts
  <2> QED
    BY <1>2, <1>3, <1>4, <1>6, <2>1 DEF ProtectSettlementRow
<1> QED
  BY <1>5, <1>6
=============================================================================
