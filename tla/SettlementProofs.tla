-------------------------- MODULE SettlementProofs --------------------------
(***************************************************************************)
(* The settlement under every interleaving of its services, its            *)
(* cancellation checkpoint, its resolvers and its openers of exceptions.   *)
(* Then the beneficiary it pays: what its verifications rest on, for every *)
(* number of destinations, checks, policies and names of any length.       *)
(***************************************************************************)
EXTENDS Settlement, Beneficiaries, CommonProofs, FiniteSetTheorems

(***************************************************************************)
(* No exception is entered from a terminal status, so no resume leads to   *)
(* one.  The stamp alone would allow an exception entered from SETTLED.    *)
(***************************************************************************)
EnteredFromLive == settlement.enteredFrom \notin TerminalStatuses

SettlementInv ==
  /\ SettlementTypeOK
  /\ CancellationExcludesDispatch
  /\ StampMatchesPhase
  /\ EnteredFromLive
  /\ OpenRowMeansException

(***************************************************************************)
(* The triggers of the services neither dispatch, annotate, honour nor     *)
(* resolve.                                                                *)
(***************************************************************************)
LEMMA ServiceTriggerFacts ==
  \A trigger \in ServiceTriggers :
    trigger \notin {"dispatch_payout", "request_cancellation", "cancellation_honoured",
                    "resolve_resume", "resolve_fail", "resolve_cancel"}
<1>1. \A t \in FundingTransitions : t.trigger \notin
        {"request_cancellation", "cancellation_honoured",
         "resolve_resume", "resolve_fail", "resolve_cancel"}
  BY DEF FundingTransitions, Transition
<1>2. \A t \in PayoutTransitions : t.trigger \notin
        {"request_cancellation", "cancellation_honoured",
         "resolve_resume", "resolve_fail", "resolve_cancel"}
  BY DEF PayoutTransitions, Transition
<1>3. \A t \in SweeperTransitions : t.trigger \notin
        {"request_cancellation", "cancellation_honoured",
         "resolve_resume", "resolve_fail", "resolve_cancel"}
  BY DEF SweeperTransitions, Transition
<1> QED
  BY <1>1, <1>2, <1>3 DEF ServiceTriggers

(***************************************************************************)
(* Every answer a caller may give is to a guard of the table.              *)
(***************************************************************************)
LEMMA AnswersAreGuards ==
  ASSUME NEW trigger \in OpenTriggers \cup ResolveTriggers \cup {"cancellation_honoured"},
         NEW row \in Rows
  PROVE  AnswersFor(trigger, row) \subseteq Guards
<1>1. \E t \in CancellationTransitions :
        {"cancellation_pending", "at_checkpoint", "before_point_of_no_return"} \subseteq t.guards
  BY DEF CancellationTransitions, Transition
<1>2. \E t \in ResolutionTransitions :
        {"resolution_attributed", "no_value_delivered"} \subseteq t.guards
  BY DEF ResolutionTransitions, Transition
<1>3. \E t \in PayoutTransitions : "no_cancellation_pending" \in t.guards
  BY DEF PayoutTransitions, Transition
<1>4. {"cancellation_pending", "at_checkpoint", "before_point_of_no_return",
       "resolution_attributed", "no_value_delivered", "no_cancellation_pending"} \subseteq Guards
  BY <1>1, <1>2, <1>3 DEF Guards, Transitions
<1>5. EnvironmentGuards \subseteq Guards
  BY DEF EnvironmentGuards, Guards
<1>6. RowAnswers(row) \subseteq
        {"cancellation_pending", "no_cancellation_pending", "before_point_of_no_return"}
  BY DEF RowAnswers
<1> QED
  BY <1>4, <1>5, <1>6 DEF AnswersFor

-----------------------------------------------------------------------------
(***************************************************************************)
(* What one transition does to the part of the invariant that is about the *)
(* row.  T26 must come before the point of no return, and T15 without a    *)
(* pending cancellation; the callers see to both.                          *)
(***************************************************************************)
LEMMA TransitionKeepsRow ==
  ASSUME SettlementInv, NEW trigger, NEW answers, applyTransition(trigger, answers),
         trigger = "request_cancellation" => ~settlement.pastPonr,
         trigger = "dispatch_payout" => ~settlement.cancelRequested
  PROVE  /\ settlement' \in Rows
         /\ CancellationExcludesDispatch'
         /\ StampMatchesPhase'
         /\ EnteredFromLive'
         /\ settlement.status = "EXCEPTION" =>
              trigger \in {"resolve_resume", "resolve_fail", "resolve_cancel"}
         /\ trigger \in OpenTriggers => settlement'.status = "EXCEPTION"
<1>0. /\ settlement \in Rows /\ CancellationExcludesDispatch /\ EnteredFromLive
      /\ StampAgrees(settlement)
  BY DEF SettlementInv, SettlementTypeOK, StampMatchesPhase, Phase, StampAgrees, PhaseOf, Dispatched
<1>1. PICK t \in Permitted(settlement, trigger, answers) :
        /\ settlement' = Applied(settlement, t)
        /\ ProtectSettlementRow(settlement, settlement')
  BY DEF applyTransition
<1>2. /\ t.trigger = trigger /\ settlement.status \in t.from /\ RowFacts(t)
      /\ settlement' \in Rows
  BY <1>0, <1>1, AppliedIsRow
<1>3. StampAgrees(settlement')
  BY <1>0, <1>1, AppliedKeepsStamp
<1>4. StampMatchesPhase'
  BY <1>3 DEF StampMatchesPhase, Phase, StampAgrees, PhaseOf, Dispatched
<1>5. EnteredFromLive'
  BY <1>0, <1>1, AppliedIsLetThrough DEF EnteredFromLive
<1>6. /\ settlement'.pastPonr <=> settlement.pastPonr \/ trigger = "dispatch_payout"
      /\ settlement'.cancelRequested <=>
           settlement.cancelRequested \/ trigger = "request_cancellation"
      /\ settlement'.status = Destination(settlement, t)
  BY <1>1, <1>2 DEF Applied
<1>7. CancellationExcludesDispatch'
  <2>1. CASE trigger = "dispatch_payout"
    BY <1>6, <2>1 DEF CancellationExcludesDispatch
  <2>2. CASE trigger # "dispatch_payout"
    BY <1>0, <1>6, <2>2 DEF CancellationExcludesDispatch
  <2> QED
    BY <2>1, <2>2
<1>8. settlement.status = "EXCEPTION" =>
        trigger \in {"resolve_resume", "resolve_fail", "resolve_cancel"}
  BY <1>2 DEF RowFacts
<1>9. trigger \in OpenTriggers => settlement'.status = "EXCEPTION"
  BY <1>2, <1>6 DEF RowFacts, OpenTriggers, ExceptionTriggers, Destination
<1> QED
  BY <1>2, <1>4, <1>5, <1>7, <1>8, <1>9

CallsOK ==
  \A c \in calls : /\ c.trigger \in OpenTriggers \cup ResolveTriggers
                                        \cup {"cancellation_honoured"}
                   /\ c.seen \in Statuses \cup {"NONE"}
                   /\ c.answers \subseteq Guards

(***************************************************************************)
(* Callers that take a transition.  One that does not resolve finds no     *)
(* open exception row and writes one only when it enters EXCEPTION.        *)
(***************************************************************************)
LEMMA CallerKeepsInv ==
  ASSUME SettlementInv, NEW trigger, NEW answers, applyTransition(trigger, answers),
         trigger = "request_cancellation" => ~settlement.pastPonr,
         trigger = "dispatch_payout" => ~settlement.cancelRequested,
         calls' \subseteq calls,
         \/ openException' = "NONE"
         \/ /\ trigger \notin {"resolve_resume", "resolve_fail", "resolve_cancel"}
            /\ UNCHANGED openException
         \/ trigger \in OpenTriggers /\ openException' \in Statuses \cup {"NONE"}
  PROVE  SettlementInv'
<1>1. /\ settlement' \in Rows
      /\ CancellationExcludesDispatch'
      /\ StampMatchesPhase'
      /\ EnteredFromLive'
      /\ settlement.status = "EXCEPTION" =>
           trigger \in {"resolve_resume", "resolve_fail", "resolve_cancel"}
      /\ trigger \in OpenTriggers => settlement'.status = "EXCEPTION"
  BY TransitionKeepsRow
<1>2. OpenRowMeansException /\ openException \in Statuses \cup {"NONE"}
  BY DEF SettlementInv, SettlementTypeOK
<1>3. OpenRowMeansException'
  BY <1>1, <1>2 DEF OpenRowMeansException
<1>4. CallsOK
  BY DEF SettlementInv, SettlementTypeOK, CallsOK
<1>5. CallsOK'
  BY <1>4 DEF CallsOK
<1>6. SettlementTypeOK'
  BY <1>1, <1>2, <1>5 DEF SettlementTypeOK, CallsOK
<1> QED
  BY <1>1, <1>3, <1>6 DEF SettlementInv

(***************************************************************************)
(* A read, or a refused call, changes calls only.                          *)
(***************************************************************************)
LEMMA ReadKeepsInv ==
  ASSUME SettlementInv, UNCHANGED <<settlement, openException>>, CallsOK'
  PROVE  SettlementInv'
<1>1. SettlementTypeOK'
  BY DEF SettlementInv, SettlementTypeOK, CallsOK
<1> QED
  BY <1>1 DEF SettlementInv, CancellationExcludesDispatch, StampMatchesPhase, Phase,
              EnteredFromLive, OpenRowMeansException

(***************************************************************************)
(* An authorized settlement satisfies the invariant.                       *)
(***************************************************************************)
LEMMA SettlementInitEstablishesInv == SettlementInit => SettlementInv
<1> SUFFICES ASSUME SettlementInit PROVE SettlementInv
  OBVIOUS
<1>1. settlement \in Rows
  BY DEF SettlementInit, Rows, Statuses
<1>2. SettlementTypeOK
  BY <1>1 DEF SettlementInit, SettlementTypeOK
<1>3. StampMatchesPhase /\ EnteredFromLive
  BY DEF SettlementInit, StampMatchesPhase, Phase, DispatchedStatuses, EnteredFromLive,
         TerminalStatuses
<1>4. CancellationExcludesDispatch /\ OpenRowMeansException
  BY DEF SettlementInit, CancellationExcludesDispatch, OpenRowMeansException
<1> QED
  BY <1>2, <1>3, <1>4 DEF SettlementInv

(***************************************************************************)
(* Every step keeps the invariant, one case per operation.                 *)
(***************************************************************************)
LEMMA SettlementNextKeepsInv ==
  SettlementInv /\ [SettlementNext]_settlementVars => SettlementInv'
<1> SUFFICES ASSUME SettlementInv, [SettlementNext]_settlementVars PROVE SettlementInv'
  OBVIOUS
<1>0. /\ settlement \in Rows /\ CallsOK
      /\ ResolveTriggers = {"resolve_resume", "resolve_fail", "resolve_cancel"}
  BY DEF SettlementInv, SettlementTypeOK, CallsOK, ResolveTriggers
<1>1. ASSUME NEW trigger \in ServiceTriggers, serviceTransition(trigger) PROVE SettlementInv'
  BY <1>1, ServiceTriggerFacts, CallerKeepsInv DEF serviceTransition
<1>2. CASE dispatchPayout
  BY <1>2, CallerKeepsInv DEF dispatchPayout
<1>3. CASE requestCancellation
  BY <1>3, CallerKeepsInv DEF requestCancellation
<1>4. ASSUME NEW trigger \in ResolveTriggers, resolveExceptionAsOperator(trigger)
      PROVE  SettlementInv'
  BY <1>0, <1>4, CallerKeepsInv DEF resolveExceptionAsOperator
<1>5. ASSUME NEW triggers,
             NEW trigger \in OpenTriggers \cup ResolveTriggers \cup {"cancellation_honoured"},
             Read(triggers, trigger)
      PROVE  SettlementInv'
  <2>1. AnswersFor(trigger, settlement) \subseteq Guards
    BY <1>0, AnswersAreGuards
  <2>2. settlement.status \in Statuses
    BY <1>0 DEF Rows
  <2>3. CallsOK'
    BY <1>0, <1>5, <2>1, <2>2 DEF Read, CallsOK
  <2> QED
    BY <1>5, <2>3, ReadKeepsInv DEF Read
<1>6. CASE readForCancellation
  BY <1>5, <1>6 DEF readForCancellation
<1>7. ASSUME NEW c \in calls, honourCancellation(c) PROVE SettlementInv'
  BY <1>7, CallerKeepsInv DEF honourCancellation
<1>8. ASSUME NEW c \in calls, resolveException(c) PROVE SettlementInv'
  BY <1>0, <1>8, CallerKeepsInv DEF resolveException
<1>9. ASSUME NEW c \in calls, insertOpenException(c) PROVE SettlementInv'
  <2>1. /\ c.trigger \in OpenTriggers /\ applyTransition(c.trigger, c.answers)
        /\ openException' \in Statuses \cup {"NONE"} /\ calls' \subseteq calls
    BY <1>0, <1>9 DEF insertOpenException, CallsOK
  <2>2. c.trigger \notin {"request_cancellation", "dispatch_payout"}
    BY <2>1 DEF OpenTriggers
  <2> QED
    BY <2>1, <2>2, CallerKeepsInv
<1>10. ASSUME NEW c \in calls, refuse(c) PROVE SettlementInv'
  <2>1. CallsOK'
    BY <1>0, <1>10 DEF refuse, CallsOK
  <2> QED
    BY <1>10, <2>1, ReadKeepsInv DEF refuse
<1>11. CASE UNCHANGED settlementVars
  <2>1. CallsOK'
    BY <1>0, <1>11 DEF settlementVars, CallsOK
  <2> QED
    BY <1>11, <2>1, ReadKeepsInv DEF settlementVars
<1> QED
  BY <1>1, <1>2, <1>3, <1>4, <1>5, <1>6, <1>7, <1>8, <1>9, <1>10, <1>11 DEF SettlementNext

-----------------------------------------------------------------------------
(***************************************************************************)
(* The row, the exception row and the calls in progress keep their types.  *)
(***************************************************************************)
THEOREM SettlementTypeCorrect == SettlementSpec => []SettlementTypeOK
<1>1. SettlementInv => SettlementTypeOK
  BY DEF SettlementInv
<1> QED
  BY <1>1, SettlementInitEstablishesInv, SettlementNextKeepsInv, PTL DEF SettlementSpec

(***************************************************************************)
(* INV-36: dispatch and cancellation never both win, and the PONR stamp    *)
(* agrees with the phase through any chain of exceptions and resumes       *)
(* (dispatchPayout, requestCancellation, honourCancellation, T22).         *)
(***************************************************************************)
THEOREM PointOfNoReturnHolds ==
  SettlementSpec => [](CancellationExcludesDispatch /\ StampMatchesPhase)
<1>1. SettlementInv => CancellationExcludesDispatch /\ StampMatchesPhase
  BY DEF SettlementInv
<1> QED
  BY <1>1, SettlementInitEstablishesInv, SettlementNextKeepsInv, PTL DEF SettlementSpec

(***************************************************************************)
(* An open settlement_exceptions row belongs to a settlement in EXCEPTION  *)
(* (openException, resolveException, resolveExceptionAsOperator).          *)
(***************************************************************************)
THEOREM OpenRowsAreExceptions == SettlementSpec => []OpenRowMeansException
<1>1. SettlementInv => OpenRowMeansException
  BY DEF SettlementInv
<1> QED
  BY <1>1, SettlementInitEstablishesInv, SettlementNextKeepsInv, PTL DEF SettlementSpec

(***************************************************************************)
(* From every reachable row, whatever the table permits the trigger        *)
(* protect_settlement_row lets through: the application and the database   *)
(* agree (evaluateTransition, migration 0005).                             *)
(***************************************************************************)
THEOREM DatabaseAgrees == SettlementSpec => []DatabaseGuardNeverFires
<1>1. ASSUME SettlementInv PROVE DatabaseGuardNeverFires
  <2>1. /\ settlement \in Rows /\ StampAgrees(settlement)
        /\ settlement.enteredFrom \notin TerminalStatuses
    BY <1>1 DEF SettlementInv, SettlementTypeOK, StampMatchesPhase, Phase, StampAgrees, PhaseOf,
                Dispatched, EnteredFromLive
  <2> QED
    BY <2>1, AppliedIsLetThrough DEF DatabaseGuardNeverFires
<1> QED
  BY <1>1, SettlementInitEstablishesInv, SettlementNextKeepsInv, PTL DEF SettlementSpec

(***************************************************************************)
(* PointOfNoReturn: no settlement is past its point of no return with a    *)
(* cancellation pending, and its stamp agrees with its phase, despite      *)
(* stale reads (dispatchPayout, honourCancellation, resolveException).     *)
(***************************************************************************)
THEOREM PointOfNoReturnIsSound == SettlementSpec => []PointOfNoReturn
<1>1. SettlementInv => PointOfNoReturn
  BY DEF SettlementInv, PointOfNoReturn
<1> QED
  BY <1>1, SettlementInitEstablishesInv, SettlementNextKeepsInv, PTL DEF SettlementSpec

(***************************************************************************)
(* RowsAgree: an open exception row means EXCEPTION, and the trigger of    *)
(* migration 0005 never has to refuse what the transition table permits    *)
(* (openException, protect_settlement_row).                                *)
(***************************************************************************)
THEOREM RowsAreSound == SettlementSpec => []RowsAgree
<1>1. (OpenRowMeansException /\ DatabaseGuardNeverFires) <=> RowsAgree
  BY DEF RowsAgree
<1> QED
  BY <1>1, OpenRowsAreExceptions, DatabaseAgrees, PTL

-----------------------------------------------------------------------------
(* Names *)

(***************************************************************************)
(* A token takes nothing, or one position nobody has that agrees with it.  *)
(***************************************************************************)
Fits(t, p) == t = p \/ Agrees(t, p)

LEMMA TakingOne ==
  ASSUME NEW t, NEW longer, isName(longer), NEW before \in SUBSET DOMAIN longer
  PROVE  \/ taking(t, longer, before) = before
         \/ \E i \in DOMAIN longer \ before :
              Fits(t, longer[i]) /\ taking(t, longer, before) = before \cup {i}
<1> DEFINE free  == DOMAIN longer \ before
           exact == {i \in free : longer[i] = t}
           hits  == IF exact # {} THEN exact ELSE {i \in free : Agrees(t, longer[i])}
<1>1. taking(t, longer, before) = before \cup (IF hits = {} THEN {} ELSE {First(hits)})
  BY DEF taking
<1>2. hits \subseteq free /\ \A i \in hits : Fits(t, longer[i])
  BY DEF Fits
<1> HIDE DEF hits, exact
<1>3. CASE hits # {}
  <2>1. hits \in SUBSET Nat
    BY <1>2 DEF isName
  <2>2. \E i \in hits : \A j \in hits : ~(j < i)
    BY <1>3, <2>1, LeastNatural
  <2>3. \E i \in hits : \A j \in hits : i <= j
    BY <2>1, <2>2
  <2>4. First(hits) \in hits
    BY <2>3 DEF First
  <2> QED
    BY <1>1, <1>2, <1>3, <2>4
<1> QED
  BY <1>1, <1>3

(***************************************************************************)
(* The positions taken by the first tokens are what the recursive          *)
(* definition of taken says.                                               *)
(***************************************************************************)
LEMMA TakenDef ==
  ASSUME NEW shorter, NEW longer, isName(shorter), isName(longer)
  PROVE  /\ taken(shorter, longer)[0] = {}
         /\ \A k \in 1..Len(shorter) :
              taken(shorter, longer)[k] = taking(shorter[k], longer, taken(shorter, longer)[k - 1])
         /\ \A k \in 0..Len(shorter) : taken(shorter, longer)[k] \in SUBSET DOMAIN longer
<1>1. PICK n \in Nat : n = Len(shorter)
  BY DEF isName
<1>2. PICK S : S = SUBSET DOMAIN longer
  OBVIOUS
<1>3. PICK none \in S : none = {}
  BY <1>2
<1>4. PICK step : step = [at \in (1..n) \X S |-> taking(shorter[at[1]], longer, at[2])]
  OBVIOUS
<1>5. \A t : \A b \in S : taking(t, longer, b) \in S
  BY <1>2, TakingOne
<1>6. step \in [(1..n) \X S -> S] /\ \A k \in 1..n, b \in S : step[<<k, b>>] = taking(shorter[k], longer, b)
  BY <1>4, <1>5
<1>7. PICK h \in [0..n -> S] : h[0] = none /\ \A k \in 1..n : h[k] = step[<<k, h[k - 1]>>]
  <2>1. Solvable(n, S, none, step)
    BY <1>6, RecursionExists
  <2> QED
    BY <2>1 DEF Solvable
<1>8. \A k \in 0..n : h[k] = IF k = 0 THEN {} ELSE taking(shorter[k], longer, h[k - 1])
  <2> TAKE k \in 0..n
  <2>1. k # 0 => k \in 1..n /\ k - 1 \in 0..n
    OBVIOUS
  <2>2. k # 0 => h[k - 1] \in S
    BY <2>1
  <2>3. h[k] = IF k = 0 THEN none ELSE step[<<k, h[k - 1]>>]
    BY <1>7
  <2> QED
    BY <1>3, <1>6, <2>1, <2>2, <2>3
<1>9. h = [k \in 0..n |-> IF k = 0 THEN {} ELSE taking(shorter[k], longer, h[k - 1])]
  BY <1>8
<1> DEFINE g == taken(shorter, longer)
<1>10. g = [k \in 0..n |-> IF k = 0 THEN {} ELSE taking(shorter[k], longer, g[k - 1])]
  BY <1>1, <1>9 DEF taken
<1> HIDE DEF g
<1>11. \A k \in 0..n : g[k] = IF k = 0 THEN {} ELSE taking(shorter[k], longer, g[k - 1])
  BY <1>10, Zenon
<1>12. g[0] = none /\ \A k \in 1..n : g[k] = taking(shorter[k], longer, g[k - 1])
  <2>1. 0 \in 0..n /\ \A k \in 1..n : k \in 0..n /\ k # 0
    OBVIOUS
  <2> QED
    BY <1>3, <1>11, <2>1, Zenon
<1>13. \A k \in 0..n : g[k] \in S
  <2> DEFINE G == {k \in 0..n : g[k] \in S}
  <2>1. 0 \in G
    BY <1>12
  <2>2. ASSUME NEW k \in 1..n, k - 1 \in G PROVE k \in G
    <3>1. g[k - 1] \in S /\ g[k] = taking(shorter[k], longer, g[k - 1])
      BY <1>12, <2>2
    <3>2. g[k] \in S
      BY <1>5, <3>1
    <3> QED
      BY <3>2
  <2> HIDE DEF G
  <2>3. \A k \in 0..n : k \in G
    BY <2>1, <2>2, IntervalInduction
  <2> QED
    BY <2>3 DEF G
<1> QED
  BY <1>1, <1>2, <1>3, <1>12, <1>13 DEF g

(***************************************************************************)
(* Positions of two names paired off, each at most once, by tokens that    *)
(* fit; BestMatch is the size of a largest such pairing.                   *)
(***************************************************************************)
Matching(m, a, b) ==
  /\ \A p \in m : p \in (DOMAIN a) \X (DOMAIN b) /\ Fits(a[p[1]], b[p[2]])
  /\ \A p, q \in m : (p[1] = q[1] \/ p[2] = q[2]) => p = q

LEMMA BestMatchBounds ==
  ASSUME NEW a, NEW b, isName(a), isName(b)
  PROVE  /\ BestMatch(a, b) \in Nat
         /\ \A m : Matching(m, a, b) => Cardinality(m) <= BestMatch(a, b)
<1> DEFINE pairs == {p \in (DOMAIN a) \X (DOMAIN b) : a[p[1]] = b[p[2]] \/ Agrees(a[p[1]], b[p[2]])}
           sets  == {m \in SUBSET pairs : \A p, q \in m : (p[1] = q[1] \/ p[2] = q[2]) => p = q}
           sizes == {Cardinality(m) : m \in sets}
<1>1. IsFiniteSet(pairs)
  <2>1. IsFiniteSet(DOMAIN a) /\ IsFiniteSet(DOMAIN b)
    <3>1. Len(a) \in Int /\ Len(b) \in Int /\ DOMAIN a = 1..Len(a) /\ DOMAIN b = 1..Len(b)
      BY DEF isName
    <3> QED
      BY <3>1, FS_Interval
  <2>2. IsFiniteSet((DOMAIN a) \X (DOMAIN b))
    BY <2>1, FS_Product
  <2> QED
    BY <2>2, FS_Subset
<1>2. PICK N \in Nat : N = Cardinality(pairs)
  BY <1>1, FS_CardinalityType
<1>3. \A m \in sets : IsFiniteSet(m) /\ Cardinality(m) \in Nat /\ Cardinality(m) <= N
  <2> TAKE m \in sets
  <2>1. m \in SUBSET pairs
    OBVIOUS
  <2>2. IsFiniteSet(m) /\ Cardinality(m) <= Cardinality(pairs)
    BY <1>1, <2>1, FS_Subset
  <2> QED
    BY <1>2, <2>2, FS_CardinalityType
<1>4. {} \in sets
  OBVIOUS
<1>5. \A m : Matching(m, a, b) <=> m \in sets
  BY DEF Matching, Fits
<1>6. BestMatch(a, b) = CHOOSE n \in sizes : \A k \in sizes : k <= n
  BY DEF BestMatch
<1> HIDE DEF sets
<1>7. sizes \subseteq Nat /\ sizes # {} /\ \A k \in sizes : k <= N
  BY <1>3, <1>4
<1>8. \A m \in sets : Cardinality(m) \in sizes
  OBVIOUS
<1> HIDE DEF sizes
<1>9. \E n \in sizes : \A k \in sizes : k <= n
  <2> DEFINE T == {N - k : k \in sizes}
  <2>1. T \in SUBSET Nat /\ T # {}
    <3>1. \A k \in sizes : N - k \in Nat
      BY <1>7
    <3> QED
      BY <1>7, <3>1
  <2>2. PICK x \in T : \A y \in T : ~(y < x)
    <3> HIDE DEF T
    <3> QED
      BY <2>1, LeastNatural
  <2>3. PICK n \in sizes : x = N - n
    OBVIOUS
  <2>4. ASSUME NEW k \in sizes PROVE k <= n
    <3>1. N - k \in T
      OBVIOUS
    <3> HIDE DEF T
    <3>2. ~(N - k < N - n) /\ k \in Nat /\ n \in Nat
      BY <1>7, <2>2, <2>3, <3>1
    <3> QED
      BY <3>2
  <2> QED
    BY <2>4
<1>10. BestMatch(a, b) \in sizes /\ \A k \in sizes : k <= BestMatch(a, b)
  BY <1>6, <1>9
<1> QED
  BY <1>5, <1>7, <1>8, <1>10

(***************************************************************************)
(* What the comparison takes, one token after the other, is such a         *)
(* pairing, whichever of the two names is the shorter one.                 *)
(***************************************************************************)
LEMMA TakenIsMatching ==
  ASSUME NEW a, NEW b, isName(a), isName(b)
  PROVE  \E m : /\ Matching(m, a, b)
                /\ IsFiniteSet(m)
                /\ Cardinality(m) = Cardinality(taken(a, b)[Len(a)])
<1>1. PICK n \in Nat : n = Len(a)
  BY DEF isName
<1>2. PICK g : g = taken(a, b)
  OBVIOUS
<1>3. /\ g[0] = {}
      /\ \A k \in 1..n : g[k] = taking(a[k], b, g[k - 1])
      /\ \A k \in 0..n : g[k] \in SUBSET DOMAIN b
  BY <1>1, <1>2, TakenDef
<1> DEFINE Pairing(k, m) == /\ Matching(m, a, b)
                            /\ \A p \in m : p[1] \in 1..k /\ p[2] \in g[k]
                            /\ IsFiniteSet(m) /\ IsFiniteSet(g[k])
                            /\ Cardinality(m) = Cardinality(g[k])
           G == {k \in 0..n : \E m : Pairing(k, m)}
<1>4. 0 \in G
  <2>1. Pairing(0, {})
    BY <1>3, FS_EmptySet DEF Matching
  <2> HIDE DEF Pairing
  <2> QED
    BY <2>1
<1>5. ASSUME NEW k \in 1..n, k - 1 \in G PROVE k \in G
  <2>1. PICK m : Pairing(k - 1, m)
    <3> HIDE DEF Pairing
    <3> QED
      BY <1>5
  <2>2. g[k] = taking(a[k], b, g[k - 1]) /\ g[k - 1] \in SUBSET DOMAIN b /\ k \in DOMAIN a
    BY <1>1, <1>3 DEF isName
  <2>3. CASE g[k] = g[k - 1]
    <3>1. Pairing(k, m)
      BY <2>1, <2>3
    <3> HIDE DEF Pairing
    <3> QED
      BY <3>1
  <2>4. ASSUME NEW i \in DOMAIN b \ g[k - 1], Fits(a[k], b[i]), g[k] = g[k - 1] \cup {i}
        PROVE  k \in G
    <3>1. PICK pair : pair = <<k, i>>
      OBVIOUS
    <3>2. pair \notin m
      BY <2>1, <3>1
    <3>3. PICK next : next = m \cup {pair}
      OBVIOUS
    <3>4. Matching(next, a, b)
      <4>1. \A p \in next : p \in (DOMAIN a) \X (DOMAIN b) /\ Fits(a[p[1]], b[p[2]])
        BY <2>1, <2>2, <2>4, <3>1, <3>3 DEF Matching
      <4>2. \A p \in m : p[1] # k /\ p[2] # i
        BY <2>1, <2>4
      <4>3. \A p, q \in next : (p[1] = q[1] \/ p[2] = q[2]) => p = q
        BY <2>1, <3>1, <3>3, <4>2 DEF Matching
      <4> QED
        BY <4>1, <4>3 DEF Matching
    <3>5. \A p \in next : p[1] \in 1..k /\ p[2] \in g[k]
      BY <2>1, <2>4, <3>1, <3>3
    <3>6. IsFiniteSet(next) /\ Cardinality(next) = Cardinality(m) + 1
      <4>1. IsFiniteSet(m)
        BY <2>1
      <4> HIDE DEF Pairing
      <4> QED
        BY <3>2, <3>3, <4>1, FS_AddElement
    <3>7. IsFiniteSet(g[k]) /\ Cardinality(g[k]) = Cardinality(g[k - 1]) + 1
      <4>1. IsFiniteSet(g[k - 1])
        BY <2>1
      <4>2. PICK before : before = g[k - 1]
        OBVIOUS
      <4>3. IsFiniteSet(before \cup {i}) /\ Cardinality(before \cup {i}) = Cardinality(before) + 1
        <5>1. IsFiniteSet(before) /\ i \notin before
          BY <2>4, <4>1, <4>2
        <5> HIDE DEF Pairing
        <5> QED
          BY <5>1, FS_AddElement
      <4> QED
        BY <2>4, <4>2, <4>3
    <3>8. Pairing(k, next)
      BY <2>1, <3>4, <3>5, <3>6, <3>7
    <3> HIDE DEF Pairing
    <3> QED
      BY <3>8
  <2> HIDE DEF G
  <2>5. \/ taking(a[k], b, g[k - 1]) = g[k - 1]
        \/ \E i \in DOMAIN b \ g[k - 1] :
             Fits(a[k], b[i]) /\ taking(a[k], b, g[k - 1]) = g[k - 1] \cup {i}
    BY <2>2, TakingOne
  <2> QED
    BY <2>2, <2>3, <2>4, <2>5
<1> HIDE DEF Pairing
<1>6. n \in G
  <2> HIDE DEF G
  <2>1. \A k \in 0..n : k \in G
    BY <1>4, <1>5, IntervalInduction
  <2> QED
    BY <2>1
<1>7. \E m : Pairing(n, m)
  BY <1>6
<1> QED
  BY <1>1, <1>2, <1>7 DEF Pairing

(***************************************************************************)
(* A pairing read from the other name is one of the same size.             *)
(***************************************************************************)
LEMMA MatchingTurned ==
  ASSUME NEW a, NEW b, NEW m, Matching(m, a, b), IsFiniteSet(m)
  PROVE  \E t : Matching(t, b, a) /\ Cardinality(t) = Cardinality(m)
<1> DEFINE t == {<<p[2], p[1]>> : p \in m}
           f == [p \in m |-> <<p[2], p[1]>>]
<1>1. \A p \in m : p = <<p[1], p[2]>>
  BY DEF Matching
<1>2. f \in Bijection(m, t)
  <2>1. f \in [m -> t] /\ \A y \in t : \E p \in m : f[p] = y
    OBVIOUS
  <2>2. \A p, q \in m : f[p] = f[q] => p = q
    BY <1>1
  <2> QED
    BY <2>1, <2>2 DEF Bijection, Injection, Surjection, IsInjective
<1>3. Cardinality(t) = Cardinality(m)
  <2> HIDE DEF t, f
  <2>1. ExistsBijection(m, t)
    BY <1>2 DEF ExistsBijection
  <2> QED
    BY <2>1, FS_Bijection
<1>4. Matching(t, b, a)
  <2>1. \A p \in t : p \in (DOMAIN b) \X (DOMAIN a) /\ Fits(b[p[1]], a[p[2]])
    BY DEF Matching, Fits, Agrees
  <2>2. \A p, q \in t : (p[1] = q[1] \/ p[2] = q[2]) => p = q
    BY DEF Matching
  <2> QED
    BY <2>1, <2>2 DEF Matching
<1> QED
  BY <1>3, <1>4

(***************************************************************************)
(* The percentage compareNames answers is one a best matching supports.    *)
(***************************************************************************)
THEOREM ScoreIsSupported ==
  ASSUME NEW a, NEW b, isName(a), isName(b), NEW minimum \in Nat,
         compareNames(a, b) >= minimum
  PROVE  200 * BestMatch(a, b) + Shorter(a, b) >= 2 * minimum * Shorter(a, b)
<1>1. PICK best \in Nat : best = BestMatch(a, b)
  BY BestMatchBounds
<1>2. PICK len \in Nat : len = Shorter(a, b)
  BY DEF Shorter, isName
<1>3. PICK matched \in Nat :
        /\ matched <= best
        /\ len # 0 => compareNames(a, b) = (200 * matched + len) \div (2 * len)
  <2>1. CASE Len(a) <= Len(b)
    <3>1. PICK m : /\ Matching(m, a, b) /\ IsFiniteSet(m)
                   /\ Cardinality(m) = Cardinality(taken(a, b)[Len(a)])
      BY TakenIsMatching
    <3>2. Cardinality(m) \in Nat /\ Cardinality(m) <= best
      BY <1>1, <3>1, BestMatchBounds, FS_CardinalityType
    <3>3. len # 0 => compareNames(a, b) = (200 * Cardinality(m) + len) \div (2 * len)
      <4>1. len = Len(a)
        BY <1>2, <2>1 DEF Shorter
      <4>2. len # 0 => a # << >>
        BY <4>1
      <4> QED
        BY <2>1, <3>1, <4>1, <4>2 DEF compareNames
    <3> QED
      BY <3>2, <3>3
  <2>2. CASE ~(Len(a) <= Len(b))
    <3>1. PICK m : /\ Matching(m, b, a) /\ IsFiniteSet(m)
                   /\ Cardinality(m) = Cardinality(taken(b, a)[Len(b)])
      BY TakenIsMatching
    <3>2. PICK t : Matching(t, a, b) /\ Cardinality(t) = Cardinality(m)
      BY <3>1, MatchingTurned
    <3>3. Cardinality(m) \in Nat /\ Cardinality(m) <= best
      BY <1>1, <3>1, <3>2, BestMatchBounds, FS_CardinalityType
    <3>4. len # 0 => compareNames(a, b) = (200 * Cardinality(m) + len) \div (2 * len)
      <4>1. len = Len(b)
        BY <1>2, <2>2 DEF Shorter
      <4>2. len # 0 => b # << >>
        BY <4>1
      <4> QED
        BY <2>2, <3>1, <4>1, <4>2 DEF compareNames
    <3> QED
      BY <3>3, <3>4
  <2> QED
    BY <2>1, <2>2
<1>4. CASE len = 0
  BY <1>1, <1>2, <1>4
<1>5. CASE len # 0
  <2>1. (200 * matched + len) \div (2 * len) >= minimum
    BY <1>3, <1>5
  <2>2. PICK double \in Nat \ {0}, sum \in Nat : double = 2 * len /\ sum = 200 * matched + len
    BY <1>5
  <2>3. PICK q \in Nat : q = sum \div double /\ q * double <= sum
    BY RoundedDown
  <2>4. minimum * double <= q * double
    <3>1. minimum <= q
      BY <2>1, <2>2, <2>3
    <3>2. double * minimum <= double * q
      BY <3>1, SameFactor
    <3> QED
      BY <3>2
  <2>5. minimum * double = 2 * minimum * len
    BY <2>2
  <2>6. minimum * double \in Nat /\ q * double \in Nat
    OBVIOUS
  <2>7. minimum * double <= sum
    BY <2>3, <2>4, <2>6
  <2>8. sum <= 200 * best + len
    BY <1>3, <2>2
  <2>9. 2 * minimum * len <= 200 * best + len
    BY <2>2, <2>5, <2>6, <2>7, <2>8
  <2> QED
    BY <1>1, <1>2, <2>9
<1> QED
  BY <1>4, <1>5

-----------------------------------------------------------------------------
(* The summary status *)

(***************************************************************************)
(* A version is verified if one of its checks is: no rank is higher.       *)
(***************************************************************************)
HasVerified(at, cs) == \E c \in Checks : cs[c].at = at /\ cs[c].status = "verified"

LEMMA VerifiedMeans ==
  ASSUME NEW at, NEW cs
  PROVE  verificationOf(at, cs) = "verified" <=> HasVerified(at, cs)
<1> DEFINE about == {c \in Checks : cs[c].at = at}
           Top(c) == \A d \in about : rank(cs[c].status) >= rank(cs[d].status)
           best == CHOOSE c \in about : Top(c)
<1>1. CASE about = {}
  BY <1>1 DEF verificationOf, HasVerified
<1>2. CASE about # {}
  <2>1. \A status : /\ rank(status) \in {1, 2, 3}
                    /\ rank(status) = 3 <=> status = "verified"
    BY DEF rank
  <2>2. \E c \in about : Top(c)
    <3>1. CASE \E c \in about : rank(cs[c].status) = 3
      BY <2>1, <3>1
    <3>2. CASE (\E c \in about : rank(cs[c].status) = 2) /\ ~\E c \in about : rank(cs[c].status) = 3
      BY <2>1, <3>2
    <3>3. CASE \A c \in about : rank(cs[c].status) = 1
      BY <1>2, <3>3
    <3> QED
      BY <2>1, <3>1, <3>2, <3>3
  <2>3. best \in about /\ Top(best)
    BY <2>2
  <2>4. verificationOf(at, cs) = cs[best].status
    BY <1>2 DEF verificationOf
  <2>5. HasVerified(at, cs) <=> \E c \in about : cs[c].status = "verified"
    BY DEF HasVerified
  <2> HIDE DEF best
  <2>6. ASSUME NEW c \in about, cs[c].status = "verified" PROVE cs[best].status = "verified"
    <3>1. rank(cs[best].status) >= 3
      BY <2>1, <2>3, <2>6
    <3> QED
      BY <2>1, <3>1
  <2> QED
    BY <2>3, <2>4, <2>5, <2>6
<1> QED
  BY <1>1, <1>2

(***************************************************************************)
(* So the summary depends on the checks only by which versions have a      *)
(* verified one.                                                           *)
(***************************************************************************)
LEMMA SameSummary ==
  ASSUME NEW b, NEW vs, NEW cs, NEW ds, \A at : HasVerified(at, cs) <=> HasVerified(at, ds)
  PROVE  deriveBeneficiaryStatus(b, vs, cs) = deriveBeneficiaryStatus(b, vs, ds)
BY VerifiedMeans DEF deriveBeneficiaryStatus

Summaries == Status \ {"rejected"}

(***************************************************************************)
(* The summary is never REJECTED again, and says verified when it should.  *)
(***************************************************************************)
LEMMA DerivedSummary ==
  ASSUME NEW b, NEW vs, NEW cs, b.status # "rejected"
  PROVE  /\ deriveBeneficiaryStatus(b, vs, cs) \in Summaries
         /\ deriveBeneficiaryStatus(b, vs, cs) = "verified" <=>
              ~b.disabled /\ \E at \in CurrentVersions(vs) : HasVerified(at, cs)
BY VerifiedMeans DEF deriveBeneficiaryStatus, Summaries, Status

-----------------------------------------------------------------------------
(***************************************************************************)
(* The inductive invariant.  A check names a version that exists, and one  *)
(* that ended has the verdict its provider's decision gives it; a call     *)
(* that has read, and a transaction that has written, hold an answer and a *)
(* verdict that agree with that decision; and a transaction no other has   *)
(* overlapped writes the summary of the state it will leave.               *)
(***************************************************************************)
BenReads ==
  [op : {"open", "job", "callback"}, at : Positions, check : Checks,
   answer : Answers \cup {NONE}, event : (Checks \X {"result"}) \cup {NONE}]

BenWrites ==
  [kind : {"version", "outcome"}, dest : Destinations \cup {NONE}, details : Details \cup {NONE},
   default : BOOLEAN, check : Checks \cup {NONE}, status : {"verified", "failed", NONE},
   event : (Checks \X {"result"}) \cup {NONE}, summary : Summaries \cup {NONE}, raced : BOOLEAN]

CheckRows == [status : {"NONE", "verifying", "verified", "failed"}, at : Positions \cup {NONE}]

IsVersion(at) == at \in Positions /\ at[2] <= Len(versions[at[1]])

CheckHolds(c) ==
  /\ checks[c].status = "NONE" => checks[c] = NoCheck
  /\ checks[c].status # "NONE" => IsVersion(checks[c].at)
  /\ checks[c].status \in {"verified", "failed"} =>
       provider[c] # NONE /\ checks[c].status = resolved(provider[c], checks[c].at)

ReadHolds(r) ==
  /\ IsVersion(r.at)
  /\ r.op = "open" => checks[r.check].status = "NONE"
  /\ r.op # "open" => /\ checks[r.check].status # "NONE"
                      /\ r.at = checks[r.check].at
                      /\ provider[r.check] # NONE
                      /\ r.answer \in {NONE, provider[r.check]}
  /\ r.op = "callback" => r.answer # NONE

VersionsAfter(w) == IF w.kind = "version" THEN Appended(w.dest, w.details) ELSE versions
ChecksAfter(w)   == IF w.kind = "outcome" THEN Ended(w.check, w.status) ELSE checks

WriteHolds(w) ==
  /\ w.kind = "version" => /\ w.dest \in Destinations /\ w.details \in Details
                           /\ Len(versions[w.dest]) < MaxVersion
  /\ w.kind = "outcome" => /\ w.check \in Checks
                           /\ checks[w.check].status # "NONE"
                           /\ provider[w.check] # NONE
                           /\ w.status = resolved(provider[w.check], checks[w.check].at)
                           /\ ~w.default
  /\ ~w.raced => w.summary = refreshed(VersionsAfter(w), ChecksAfter(w))

OpensDiffer ==
  \A r, q \in reads : r.op = "open" /\ q.op = "open" /\ r.check = q.check => r = q

EditsExclude == \A w, o \in writes : w.dest = o.dest /\ w.dest # NONE => w = o

OneInFlight ==
  \A c, e \in Checks :
    (/\ checks[c].status = "verifying" /\ checks[e].status = "verifying"
     /\ checks[c].at = checks[e].at) => c = e

BenTypes ==
  /\ beneficiary \in [status : Summaries, disabled : BOOLEAN, default : Destinations \cup {NONE}]
  /\ versions \in [Destinations -> Seq(Details)]
  /\ \A d \in Destinations : Len(versions[d]) <= MaxVersion
  /\ beneficiary.default # NONE => Len(versions[beneficiary.default]) # 0
  /\ checks \in [Checks -> CheckRows]
  /\ provider \in [Checks -> Answers \cup {NONE}]
  /\ queue \subseteq Checks /\ crashes \in 0..MaxCrashes
  /\ policy \in Policies
  /\ reads \subseteq BenReads /\ writes \subseteq BenWrites

BenInv ==
  /\ BenTypes
  /\ OneInFlight /\ OpensDiffer /\ EditsExclude
  /\ \A c \in Checks : CheckHolds(c)
  /\ \A r \in reads : ReadHolds(r)
  /\ \A w \in writes : WriteHolds(w)

(***************************************************************************)
(* A verdict is one of two, and depends on the policy and the version.     *)
(***************************************************************************)
LEMMA VerdictIsOneOfTwo ==
  ASSUME NEW answer, NEW at
  PROVE  resolved(answer, at) \in {"verified", "failed"}
BY DEF resolved

(***************************************************************************)
(* A step that writes neither the beneficiary, nor a version, nor a check, *)
(* and lets no provider change its mind: only what it adds needs a look.   *)
(***************************************************************************)
OtherStep ==
  /\ UNCHANGED <<beneficiary, versions, checks, policy>>
  /\ provider' \in [Checks -> Answers \cup {NONE}]
  /\ \A c \in Checks : provider[c] # NONE => provider'[c] = provider[c]
  /\ queue' \subseteq Checks /\ crashes' \in 0..MaxCrashes
  /\ reads' \subseteq BenReads /\ writes' \subseteq BenWrites
  /\ \A r \in reads' : r \in reads \/ ReadHolds(r)'
  /\ \A w \in writes' : w \in writes \/ WriteHolds(w)'
  /\ OpensDiffer' /\ EditsExclude'

(***************************************************************************)
(* Such a step keeps the invariant.                                        *)
(***************************************************************************)
LEMMA OtherStepKeeps ==
  ASSUME BenInv, OtherStep
  PROVE  BenInv'
<1>1. UNCHANGED <<beneficiary, versions, checks, policy>>
  BY DEF OtherStep
<1>2. BenTypes'
  BY DEF BenInv, BenTypes, OtherStep
<1>3. OneInFlight'
  BY <1>1 DEF BenInv, OneInFlight
<1>4. \A answer, at : resolved(answer, at)' = resolved(answer, at)
  BY <1>1 DEF resolved, DetailsAt
<1>5. \A at : IsVersion(at)' <=> IsVersion(at)
  BY <1>1 DEF IsVersion
<1>6. \A c \in Checks : CheckHolds(c)'
  <2> TAKE c \in Checks
  <2>1. CheckHolds(c)
    BY DEF BenInv
  <2>2. provider[c] # NONE => provider'[c] = provider[c]
    BY DEF OtherStep
  <2>3. checks' = checks
    BY <1>1
  <2> QED
    BY <1>4, <1>5, <2>1, <2>2, <2>3 DEF CheckHolds
<1>7. ASSUME NEW r \in reads' PROVE ReadHolds(r)'
  <2>1. CASE r \in reads
    <3>1. ReadHolds(r) /\ r.check \in Checks
      BY <2>1 DEF BenInv, BenTypes, BenReads
    <3>2. provider[r.check] # NONE => provider'[r.check] = provider[r.check]
      BY <3>1 DEF OtherStep
    <3> QED
      BY <1>1, <1>5, <3>1, <3>2 DEF ReadHolds
  <2> QED
    BY <1>7, <2>1 DEF OtherStep
<1>8. ASSUME NEW w \in writes' PROVE WriteHolds(w)'
  <2>1. CASE w \in writes
    <3>1. WriteHolds(w)
      BY <2>1 DEF BenInv
    <3>2. refreshed(VersionsAfter(w), ChecksAfter(w))' = refreshed(VersionsAfter(w), ChecksAfter(w))
      BY <1>1 DEF refreshed, VersionsAfter, ChecksAfter, Appended, Ended
    <3>3. w.kind = "outcome" => provider'[w.check] = provider[w.check]
      BY <3>1 DEF WriteHolds, OtherStep
    <3>4. w.kind = "outcome" =>
            resolved(provider[w.check], checks[w.check].at)' = resolved(provider[w.check], checks[w.check].at)
      BY <1>1, <1>4, <3>3
    <3> QED
      BY <1>1, <3>1, <3>2, <3>3, <3>4 DEF WriteHolds
  <2> QED
    BY <1>8, <2>1 DEF OtherStep
<1> QED
  BY <1>2, <1>3, <1>6, <1>7, <1>8 DEF BenInv, OtherStep

-----------------------------------------------------------------------------
(* Calls that read, and transactions that write and have not committed *)

(***************************************************************************)
(* The summary a transaction is about to write, once it has read.          *)
(***************************************************************************)
LEMMA RefreshedSummary ==
  ASSUME BenInv, NEW vs, NEW cs
  PROVE  refreshed(vs, cs) \in Summaries \cup {NONE}
<1>1. beneficiary.status # "rejected"
  BY DEF BenInv, BenTypes, Summaries
<1> QED
  BY <1>1, DerivedSummary DEF refreshed

VersionRow(d, details, default, summary) ==
  [NoWrite EXCEPT !.kind = "version", !.dest = d, !.details = details, !.default = default,
                  !.summary = summary]

OutcomeRow(c, status, event, summary) ==
  [NoWrite EXCEPT !.kind = "outcome", !.check = c, !.status = status, !.event = event,
                  !.summary = summary]

(***************************************************************************)
(* The two kinds of rows a transaction is remembered by, field by field.   *)
(***************************************************************************)
LEMMA VersionWrite ==
  ASSUME NEW d, NEW details, NEW default, NEW summary
  PROVE  VersionRow(d, details, default, summary) =
         [kind |-> "version", dest |-> d, details |-> details, default |-> default, check |-> NONE,
          status |-> NONE, event |-> NONE, summary |-> summary, raced |-> FALSE]
<1>1. PICK r1 : r1 = [NoWrite EXCEPT !.kind = "version"]
  OBVIOUS
<1>2. PICK r2 : r2 = [r1 EXCEPT !.dest = d]
  OBVIOUS
<1>3. PICK r3 : r3 = [r2 EXCEPT !.details = details]
  OBVIOUS
<1>4. PICK r4 : r4 = [r3 EXCEPT !.default = default]
  OBVIOUS
<1>5. PICK r5 : r5 = [r4 EXCEPT !.summary = summary]
  OBVIOUS
<1>6. r1 = [kind |-> "version", dest |-> NONE, details |-> NONE, default |-> FALSE, check |-> NONE,
            status |-> NONE, event |-> NONE, summary |-> NONE, raced |-> FALSE]
  BY <1>1 DEF NoWrite
<1>7. r2 = [kind |-> "version", dest |-> d, details |-> NONE, default |-> FALSE, check |-> NONE,
            status |-> NONE, event |-> NONE, summary |-> NONE, raced |-> FALSE]
  BY <1>2, <1>6
<1>8. r3 = [kind |-> "version", dest |-> d, details |-> details, default |-> FALSE, check |-> NONE,
            status |-> NONE, event |-> NONE, summary |-> NONE, raced |-> FALSE]
  BY <1>3, <1>7
<1>9. r4 = [kind |-> "version", dest |-> d, details |-> details, default |-> default, check |-> NONE,
            status |-> NONE, event |-> NONE, summary |-> NONE, raced |-> FALSE]
  BY <1>4, <1>8
<1>10. r5 = [kind |-> "version", dest |-> d, details |-> details, default |-> default, check |-> NONE,
            status |-> NONE, event |-> NONE, summary |-> summary, raced |-> FALSE]
  BY <1>5, <1>9
<1>11. VersionRow(d, details, default, summary) = r5
  BY <1>1, <1>2, <1>3, <1>4, <1>5, Zenon DEF VersionRow
<1> QED
  BY <1>10, <1>11

(***************************************************************************)
(* The same of an outcome.                                                 *)
(***************************************************************************)
LEMMA OutcomeWrite ==
  ASSUME NEW c, NEW status, NEW event, NEW summary
  PROVE  OutcomeRow(c, status, event, summary) =
         [kind |-> "outcome", dest |-> NONE, details |-> NONE, default |-> FALSE, check |-> c,
          status |-> status, event |-> event, summary |-> summary, raced |-> FALSE]
<1>1. PICK r1 : r1 = [NoWrite EXCEPT !.kind = "outcome"]
  OBVIOUS
<1>2. PICK r2 : r2 = [r1 EXCEPT !.check = c]
  OBVIOUS
<1>3. PICK r3 : r3 = [r2 EXCEPT !.status = status]
  OBVIOUS
<1>4. PICK r4 : r4 = [r3 EXCEPT !.event = event]
  OBVIOUS
<1>5. PICK r5 : r5 = [r4 EXCEPT !.summary = summary]
  OBVIOUS
<1>6. r1 = [kind |-> "outcome", dest |-> NONE, details |-> NONE, default |-> FALSE, check |-> NONE,
            status |-> NONE, event |-> NONE, summary |-> NONE, raced |-> FALSE]
  BY <1>1 DEF NoWrite
<1>7. r2 = [kind |-> "outcome", dest |-> NONE, details |-> NONE, default |-> FALSE, check |-> c,
            status |-> NONE, event |-> NONE, summary |-> NONE, raced |-> FALSE]
  BY <1>2, <1>6
<1>8. r3 = [kind |-> "outcome", dest |-> NONE, details |-> NONE, default |-> FALSE, check |-> c,
            status |-> status, event |-> NONE, summary |-> NONE, raced |-> FALSE]
  BY <1>3, <1>7
<1>9. r4 = [kind |-> "outcome", dest |-> NONE, details |-> NONE, default |-> FALSE, check |-> c,
            status |-> status, event |-> event, summary |-> NONE, raced |-> FALSE]
  BY <1>4, <1>8
<1>10. r5 = [kind |-> "outcome", dest |-> NONE, details |-> NONE, default |-> FALSE, check |-> c,
            status |-> status, event |-> event, summary |-> summary, raced |-> FALSE]
  BY <1>5, <1>9
<1>11. OutcomeRow(c, status, event, summary) = r5
  BY <1>1, <1>2, <1>3, <1>4, <1>5, Zenon DEF OutcomeRow
<1> QED
  BY <1>10, <1>11

(***************************************************************************)
(* addPayoutDestination and editPayoutDestination: one edit of a           *)
(* destination at a time.                                                  *)
(***************************************************************************)
LEMMA AppendKeeps ==
  ASSUME BenInv, NEW d \in Destinations, NEW details \in Details, NEW default \in BOOLEAN,
         Len(versions[d]) < MaxVersion, ~Appending(d), appendVersion(d, details, default),
         UNCHANGED <<beneficiary, versions, checks, queue, provider, events, policy, reads, crashes>>
  PROVE  BenInv'
<1>1. PICK summary \in Summaries \cup {NONE} : summary = refreshed(Appended(d, details), checks)
  <2>1. PICK vs : vs = Appended(d, details)
    OBVIOUS
  <2> QED
    BY <2>1, RefreshedSummary
<1>2. PICK new : new = [kind |-> "version", dest |-> d, details |-> details, default |-> default,
                        check |-> NONE, status |-> NONE, event |-> NONE, summary |-> summary,
                        raced |-> FALSE]
  OBVIOUS
<1>3. writes' = writes \cup {new}
  <2>1. new = VersionRow(d, details, default, summary)
    BY <1>2, VersionWrite
  <2> QED
    BY <1>1, <2>1, Zenon DEF appendVersion, VersionRow
<1>4. /\ new \in BenWrites /\ new.kind = "version" /\ new.dest = d /\ new.details = details
      /\ new.summary = summary /\ ~new.raced
  BY <1>2 DEF BenWrites
<1>5. WriteHolds(new)'
  <2>1. refreshed(VersionsAfter(new), ChecksAfter(new))' = refreshed(Appended(d, details), checks)
    BY <1>4 DEF refreshed, VersionsAfter, ChecksAfter, Appended
  <2> QED
    BY <1>1, <1>4, <2>1 DEF WriteHolds
<1>6. EditsExclude'
  BY <1>3, <1>4 DEF BenInv, EditsExclude, Appending
<1>7. OtherStep
  BY <1>3, <1>4, <1>5, <1>6 DEF OtherStep, BenInv, BenTypes, OpensDiffer
<1> QED
  BY <1>7, OtherStepKeeps

(***************************************************************************)
(* A destination gets its first version.                                   *)
(***************************************************************************)
LEMMA AddKeeps ==
  ASSUME BenInv, NEW d \in Destinations, NEW details \in Details, NEW makeDefault \in BOOLEAN,
         addPayoutDestination(d, details, makeDefault)
  PROVE  BenInv'
<1>1. PICK default \in BOOLEAN : default = (makeDefault \/ beneficiary.default = NONE)
  OBVIOUS
<1>2. Len(versions[d]) < MaxVersion
  <2>1. Len(versions[d]) = 0
    BY DEF addPayoutDestination
  <2> QED
    BY <2>1, BeneficiariesAssumption
<1> QED
  BY <1>1, <1>2, AppendKeeps DEF addPayoutDestination

(***************************************************************************)
(* A destination gets its next version.                                    *)
(***************************************************************************)
LEMMA EditKeeps ==
  ASSUME BenInv, NEW d \in Destinations, NEW details \in Details, editPayoutDestination(d, details)
  PROVE  BenInv'
BY AppendKeeps DEF editPayoutDestination

(***************************************************************************)
(* An outcome that agrees with the provider's decision, by a job or by a   *)
(* callback.                                                               *)
(***************************************************************************)
LEMMA OutcomeKeeps ==
  ASSUME BenInv, NEW r \in reads, r.op \in {"job", "callback"}, r.answer # NONE,
         NEW event \in (Checks \X {"result"}) \cup {NONE},
         applyOutcome(r.check, resolved(r.answer, r.at), event),
         reads' = reads \ {r}, queue' \subseteq Checks,
         UNCHANGED <<beneficiary, versions, checks, provider, policy, crashes>>
  PROVE  BenInv'
<1>1. /\ r.check \in Checks /\ checks[r.check].status # "NONE" /\ provider[r.check] # NONE
      /\ r.answer = provider[r.check] /\ r.at = checks[r.check].at
  BY DEF BenInv, BenTypes, BenReads, ReadHolds
<1>2. PICK c \in Checks : c = r.check
  BY <1>1
<1>3. PICK status \in {"verified", "failed"} : status = resolved(provider[c], checks[c].at)
  BY VerdictIsOneOfTwo
<1>4. PICK summary \in Summaries \cup {NONE} : summary = refreshed(versions, Ended(c, status))
  <2>1. PICK cs : cs = Ended(c, status)
    OBVIOUS
  <2> QED
    BY <2>1, RefreshedSummary
<1>5. PICK new : new = [kind |-> "outcome", dest |-> NONE, details |-> NONE, default |-> FALSE,
                        check |-> c, status |-> status, event |-> event, summary |-> summary,
                        raced |-> FALSE]
  OBVIOUS
<1>6. resolved(r.answer, r.at) = status
  BY <1>1, <1>2, <1>3
<1>7. writes' = writes \cup {new}
  <2>1. new = OutcomeRow(c, status, event, summary)
    BY <1>5, OutcomeWrite
  <2> QED
    BY <1>2, <1>4, <1>6, <2>1, Zenon DEF applyOutcome, OutcomeRow
<1>8. /\ new \in BenWrites /\ new.kind = "outcome" /\ new.dest = NONE /\ new.check = c
      /\ new.status = status /\ new.summary = summary /\ ~new.raced /\ ~new.default
  BY <1>5 DEF BenWrites
<1>9. WriteHolds(new)'
  <2>1. refreshed(VersionsAfter(new), ChecksAfter(new))' = refreshed(versions, Ended(c, status))
    BY <1>8 DEF refreshed, VersionsAfter, ChecksAfter, Ended
  <2>2. resolved(provider[c], checks[c].at)' = status
    BY <1>3 DEF resolved, DetailsAt
  <2> QED
    BY <1>1, <1>2, <1>4, <1>8, <2>1, <2>2 DEF WriteHolds
<1>10. EditsExclude'
  BY <1>7, <1>8 DEF BenInv, EditsExclude
<1>11. OpensDiffer'
  BY DEF BenInv, OpensDiffer
<1>12. OtherStep
  BY <1>7, <1>8, <1>9, <1>10, <1>11 DEF OtherStep, BenInv, BenTypes
<1> QED
  BY <1>12, OtherStepKeeps

(***************************************************************************)
(* The job records that the provider took the request, or applies its      *)
(* answer.                                                                 *)
(***************************************************************************)
LEMMA RunJobKeeps ==
  ASSUME BenInv, NEW r \in reads, runBeneficiaryVerifyJob(r)
  PROVE  BenInv'
<1>1. CASE r.answer = NONE
  <2>1. OtherStep
    BY <1>1 DEF runBeneficiaryVerifyJob, recordTaken, OtherStep, BenInv, BenTypes, OpensDiffer,
        EditsExclude
  <2> QED
    BY <2>1, OtherStepKeeps
<1>2. CASE r.answer # NONE
  <2>1. /\ applyOutcome(r.check, resolved(r.answer, r.at), NONE) /\ UNCHANGED checks
        /\ r.op = "job" /\ reads' = reads \ {r} /\ queue' \subseteq Checks
        /\ UNCHANGED <<beneficiary, versions, provider, policy, crashes>>
    BY <1>2 DEF runBeneficiaryVerifyJob, BenInv, BenTypes
  <2> QED
    BY <1>2, <2>1, OutcomeKeeps
<1> QED
  BY <1>1, <1>2

(***************************************************************************)
(* A callback applies the answer it carries.                               *)
(***************************************************************************)
LEMMA CallbackKeeps ==
  ASSUME BenInv, NEW r \in reads, applyCallback(r)
  PROVE  BenInv'
<1>1. /\ r.op = "callback" /\ reads' = reads \ {r} /\ queue' \subseteq Checks
      /\ applyOutcome(r.check, resolved(r.answer, r.at), r.event)
      /\ UNCHANGED <<beneficiary, versions, checks, provider, policy, crashes>>
  BY DEF applyCallback, BenInv, BenTypes
<1>2. r.answer # NONE /\ r.event \in (Checks \X {"result"}) \cup {NONE}
  BY <1>1 DEF BenInv, BenTypes, BenReads, ReadHolds
<1> QED
  BY <1>1, <1>2, OutcomeKeeps

(***************************************************************************)
(* What a call holds once it has read.                                     *)
(***************************************************************************)
OpenRead(at, c)             == [NoRead EXCEPT !.op = "open", !.at = at, !.check = c]
JobRead(at, c, answer)      == [NoRead EXCEPT !.op = "job", !.at = at, !.check = c, !.answer = answer]
CallbackRead(at, c, answer, event) ==
  [NoRead EXCEPT !.op = "callback", !.at = at, !.check = c, !.answer = answer, !.event = event]

LEMMA NewRead ==
  ASSUME NEW at, NEW check, NEW answer, NEW event
  PROVE  /\ OpenRead(at, check) =
              [op |-> "open", at |-> at, check |-> check, answer |-> NONE, event |-> NONE]
         /\ JobRead(at, check, answer) =
              [op |-> "job", at |-> at, check |-> check, answer |-> answer, event |-> NONE]
         /\ CallbackRead(at, check, answer, event) =
              [op |-> "callback", at |-> at, check |-> check, answer |-> answer, event |-> event]
<1> SUFFICES ASSUME NEW op
             PROVE  /\ [NoRead EXCEPT !.op = op, !.at = at, !.check = check] =
                         [op |-> op, at |-> at, check |-> check, answer |-> NONE, event |-> NONE]
                    /\ [NoRead EXCEPT !.op = op, !.at = at, !.check = check, !.answer = answer] =
                         [op |-> op, at |-> at, check |-> check, answer |-> answer, event |-> NONE]
                    /\ [NoRead EXCEPT !.op = op, !.at = at, !.check = check, !.answer = answer,
                                      !.event = event] =
                         [op |-> op, at |-> at, check |-> check, answer |-> answer, event |-> event]
  BY Zenon DEF OpenRead, JobRead, CallbackRead
<1>1. PICK r1 : r1 = [NoRead EXCEPT !.op = op]
  OBVIOUS
<1>2. PICK r2 : r2 = [r1 EXCEPT !.at = at]
  OBVIOUS
<1>3. PICK r3 : r3 = [r2 EXCEPT !.check = check]
  OBVIOUS
<1>4. PICK r4 : r4 = [r3 EXCEPT !.answer = answer]
  OBVIOUS
<1>5. PICK r5 : r5 = [r4 EXCEPT !.event = event]
  OBVIOUS
<1>6. r1 = [op |-> op, at |-> NONE, check |-> NONE, answer |-> NONE, event |-> NONE]
  BY <1>1 DEF NoRead
<1>7. r2 = [op |-> op, at |-> at, check |-> NONE, answer |-> NONE, event |-> NONE]
  BY <1>2, <1>6
<1>8. r3 = [op |-> op, at |-> at, check |-> check, answer |-> NONE, event |-> NONE]
  BY <1>3, <1>7
<1>9. r4 = [op |-> op, at |-> at, check |-> check, answer |-> answer, event |-> NONE]
  BY <1>4, <1>8
<1>10. r5 = [op |-> op, at |-> at, check |-> check, answer |-> answer, event |-> event]
  BY <1>5, <1>9
<1>11. [NoRead EXCEPT !.op = op, !.at = at, !.check = check] = r3
  BY <1>1, <1>2, <1>3, Zenon
<1>12. [NoRead EXCEPT !.op = op, !.at = at, !.check = check, !.answer = answer] = r4
  BY <1>1, <1>2, <1>3, <1>4, Zenon
<1>13. [NoRead EXCEPT !.op = op, !.at = at, !.check = check, !.answer = answer, !.event = event] = r5
  BY <1>1, <1>2, <1>3, <1>4, <1>5, Zenon
<1> QED
  BY <1>8, <1>9, <1>10, <1>11, <1>12, <1>13

(***************************************************************************)
(* A call that only reads, of a kind that shares no fresh check.           *)
(***************************************************************************)
LEMMA ReadKeeps ==
  ASSUME BenInv, NEW new \in BenReads, reads' = reads \cup {new}, ReadHolds(new)',
         new.op = "open" => \A r \in reads : r.check # new.check,
         UNCHANGED <<beneficiary, versions, checks, policy, writes, crashes>>,
         provider' \in [Checks -> Answers \cup {NONE}],
         \A c \in Checks : provider[c] # NONE => provider'[c] = provider[c],
         queue' \subseteq Checks
  PROVE  BenInv'
<1>1. OpensDiffer'
  BY DEF BenInv, OpensDiffer
<1>2. OtherStep
  BY <1>1 DEF OtherStep, BenInv, BenTypes, EditsExclude
<1> QED
  BY <1>2, OtherStepKeeps

(***************************************************************************)
(* openVerification has read that nothing is in flight, and picked a       *)
(* check.                                                                  *)
(***************************************************************************)
LEMMA ReadForOpenKeeps ==
  ASSUME BenInv, readForOpen
  PROVE  BenInv'
<1>1. PICK c \in FreshChecks : c = (CHOOSE x \in FreshChecks : TRUE)
  BY DEF readForOpen
<1>2. PICK at : at = <<beneficiary.default, Len(versions[beneficiary.default])>>
  OBVIOUS
<1>3. PICK new : new = [op |-> "open", at |-> at, check |-> c, answer |-> NONE, event |-> NONE]
  OBVIOUS
<1>4. reads' = reads \cup {new}
  <2>1. new = OpenRead(at, c)
    BY <1>3, NewRead
  <2> QED
    BY <1>1, <1>2, <2>1, Zenon DEF readForOpen, OpenRead
<1>5. /\ UNCHANGED <<beneficiary, versions, checks, queue, provider, policy, writes, crashes>>
      /\ beneficiary.default # NONE
  BY DEF readForOpen
<1>6. c \in Checks /\ checks[c].status = "NONE" /\ \A r \in reads : r.check # c
  BY DEF FreshChecks, NoCheck
<1>7. IsVersion(at)
  <2>1. PICK d \in Destinations : d = beneficiary.default
    BY <1>5 DEF BenInv, BenTypes
  <2>2. /\ versions[d] \in Seq(Details) /\ Len(versions[d]) <= MaxVersion /\ Len(versions[d]) # 0
    BY <1>5, <2>1 DEF BenInv, BenTypes
  <2>3. Len(versions[d]) \in 1..MaxVersion
    BY <2>2, BeneficiariesAssumption
  <2> QED
    BY <1>2, <2>1, <2>3 DEF IsVersion, Positions
<1>8. new \in BenReads /\ new.op = "open" /\ new.check = c /\ new.at = at
  BY <1>3, <1>6, <1>7 DEF BenReads, IsVersion
<1>9. ReadHolds(new)'
  BY <1>5, <1>6, <1>7, <1>8 DEF ReadHolds, IsVersion
<1>10. provider' \in [Checks -> Answers \cup {NONE}] /\ queue' \subseteq Checks
  BY <1>5 DEF BenInv, BenTypes
<1> QED
  BY <1>4, <1>5, <1>6, <1>8, <1>9, <1>10, ReadKeeps

(***************************************************************************)
(* The job asks the provider, which answers one request one way.           *)
(***************************************************************************)
LEMMA LoadJobKeeps ==
  ASSUME BenInv, NEW c \in Checks, loadJob(c)
  PROVE  BenInv'
<1>1. UNCHANGED <<beneficiary, versions, checks, policy, writes, crashes>>
  BY DEF loadJob
<1>2. CASE checks[c].status = "verifying"
  <2>1. PICK decided \in Answers :
          /\ verify(c, decided)
          /\ reads' = reads \cup {[NoRead EXCEPT !.op = "job", !.at = checks[c].at, !.check = c,
                                   !.answer = IF decided.deferred THEN NONE ELSE decided]}
          /\ UNCHANGED queue
    BY <1>2 DEF loadJob
  <2>2. PICK answer \in {decided, NONE} : answer = IF decided.deferred THEN NONE ELSE decided
    OBVIOUS
  <2>3. PICK at : at = checks[c].at
    OBVIOUS
  <2>4. PICK new : new = [op |-> "job", at |-> at, check |-> c, answer |-> answer, event |-> NONE]
    OBVIOUS
  <2>5. reads' = reads \cup {new}
    <3>1. new = JobRead(at, c, answer)
      BY <2>4, NewRead
    <3> QED
      BY <2>1, <2>2, <2>3, <3>1, Zenon DEF JobRead
  <2>6. /\ provider' \in [Checks -> Answers \cup {NONE}] /\ provider'[c] = decided
        /\ \A e \in Checks : provider[e] # NONE => provider'[e] = provider[e]
        /\ decided # NONE
    BY <2>1, BeneficiariesAssumption DEF verify, BenInv, BenTypes
  <2>7. IsVersion(at)
    BY <1>2, <2>3 DEF BenInv, CheckHolds
  <2>8. /\ new \in BenReads /\ new.op = "job" /\ new.at = at /\ new.check = c /\ new.answer = answer
    BY <2>4, <2>7 DEF BenReads, IsVersion
  <2>9. ReadHolds(new)'
    BY <1>1, <1>2, <2>2, <2>3, <2>6, <2>7, <2>8 DEF ReadHolds, IsVersion
  <2>10. queue' \subseteq Checks
    BY <2>1 DEF BenInv, BenTypes
  <2> QED
    BY <1>1, <2>5, <2>6, <2>8, <2>9, <2>10, ReadKeeps
<1>3. CASE checks[c].status # "verifying"
  <2>1. OtherStep
    BY <1>1, <1>3 DEF loadJob, OtherStep, BenInv, BenTypes, OpensDiffer, EditsExclude
  <2> QED
    BY <2>1, OtherStepKeeps
<1> QED
  BY <1>2, <1>3

(***************************************************************************)
(* A callback is believed only if it is authentic, and then it says what   *)
(* the provider decided.                                                   *)
(***************************************************************************)
LEMMA IngestKeeps ==
  ASSUME BenInv, NEW c \in Checks, NEW payload, NEW answer, NEW valid \in BOOLEAN,
         ingestVerificationCallback(c, payload, answer, valid),
         valid => provider[c] # NONE /\ answer = provider[c],
         valid => payload # "unsigned"
  PROVE  BenInv'
<1>1. UNCHANGED <<beneficiary, versions, checks, queue, provider, policy, writes, crashes>>
  BY DEF ingestVerificationCallback
<1>2. provider' \in [Checks -> Answers \cup {NONE}] /\ queue' \subseteq Checks
  BY <1>1 DEF BenInv, BenTypes
<1>3. CASE /\ accepted(valid)
           /\ payload \in {"result", "unsigned"}
           /\ checks[c].status = "verifying"
  <2>1. PICK at : at = checks[c].at
    OBVIOUS
  <2>2. payload = "result" /\ answer = provider[c] /\ provider[c] # NONE /\ answer \in Answers
    BY <1>3 DEF accepted, BenInv, BenTypes
  <2>3. PICK id \in Checks \X {"result"} : id = EventId(c, payload)
    BY <2>2 DEF EventId
  <2>4. PICK new : new = [op |-> "callback", at |-> at, check |-> c, answer |-> answer, event |-> id]
    OBVIOUS
  <2>5. reads' = reads \cup {new}
    <3>1. reads' = reads \cup {[NoRead EXCEPT !.op = "callback", !.at = checks[c].at, !.check = c,
                                !.answer = answer, !.event = EventId(c, payload)]}
      BY <1>3 DEF ingestVerificationCallback
    <3>2. new = CallbackRead(at, c, answer, id)
      BY <2>4, NewRead
    <3> QED
      BY <2>1, <2>3, <3>1, <3>2, Zenon DEF CallbackRead
  <2>6. IsVersion(at)
    BY <1>3, <2>1 DEF BenInv, CheckHolds
  <2>7. /\ new \in BenReads /\ new.op = "callback" /\ new.at = at /\ new.check = c
        /\ new.answer = answer
    BY <2>2, <2>4, <2>6 DEF BenReads, IsVersion
  <2>8. ReadHolds(new)'
    <3>1. answer # NONE
      BY <2>2
    <3> QED
      BY <1>1, <1>3, <2>1, <2>2, <2>6, <2>7, <3>1 DEF ReadHolds, IsVersion
  <2> QED
    BY <1>1, <1>2, <2>5, <2>7, <2>8, ReadKeeps
<1>4. CASE ~(/\ accepted(valid)
             /\ payload \in {"result", "unsigned"}
             /\ checks[c].status = "verifying")
  <2>1. UNCHANGED reads
    BY <1>4 DEF ingestVerificationCallback
  <2>2. OtherStep
    BY <1>1, <2>1 DEF OtherStep, BenInv, BenTypes, OpensDiffer, EditsExclude
  <2> QED
    BY <2>2, OtherStepKeeps
<1> QED
  BY <1>3, <1>4

(***************************************************************************)
(* The result of a request arrives.                                        *)
(***************************************************************************)
LEMMA DeliverResultKeeps ==
  ASSUME BenInv, NEW c \in Checks, deliverResult(c)
  PROVE  BenInv'
<1>1. PICK valid \in BOOLEAN : ingestVerificationCallback(c, "result", provider[c], valid)
  BY DEF deliverResult
<1>2. PICK answer : answer = provider[c]
  OBVIOUS
<1>3. provider[c] # NONE
  BY DEF deliverResult
<1> QED
  BY <1>1, <1>2, <1>3, IngestKeeps

(***************************************************************************)
(* Something else arrives: unsigned, unreadable, of another version or not *)
(* final.                                                                  *)
(***************************************************************************)
LEMMA DeliverOtherKeeps ==
  ASSUME BenInv, NEW c \in Checks, deliverOther(c)
  PROVE  BenInv'
<1>1. CASE \E answer \in Answers : ingestVerificationCallback(c, "unsigned", answer, FALSE)
  BY <1>1, IngestKeeps
<1>2. CASE \E payload \in {"progress", "misrouted", "unreadable"} :
             provider[c] # NONE /\ ingestVerificationCallback(c, payload, provider[c], TRUE)
  <2>1. PICK payload \in {"progress", "misrouted", "unreadable"} :
          provider[c] # NONE /\ ingestVerificationCallback(c, payload, provider[c], TRUE)
    BY <1>2
  <2>2. PICK answer : answer = provider[c]
    OBVIOUS
  <2>3. payload # "unsigned"
    OBVIOUS
  <2> QED
    BY <2>1, <2>2, <2>3, IngestKeeps
<1> QED
  BY <1>1, <1>2 DEF deliverOther

(***************************************************************************)
(* A process that dies takes its call or its transaction with it.          *)
(***************************************************************************)
LEMMA CrashKeeps ==
  ASSUME BenInv, NEW call, crash(call)
  PROVE  BenInv'
<1>1. crashes' \in 0..MaxCrashes
  BY BeneficiariesAssumption DEF crash, BenInv, BenTypes
<1>2. queue' \subseteq Checks
  BY DEF crash, BenInv, BenTypes
<1>3. reads' \subseteq reads /\ writes' \subseteq writes
  BY DEF crash
<1>4. OpensDiffer' /\ EditsExclude'
  BY <1>3 DEF BenInv, OpensDiffer, EditsExclude
<1>5. OtherStep
  BY <1>1, <1>2, <1>3, <1>4 DEF OtherStep, crash, BenInv, BenTypes
<1> QED
  BY <1>5, OtherStepKeeps

(***************************************************************************)
(* A job that was done and not acknowledged is delivered again.            *)
(***************************************************************************)
LEMMA RedeliverKeeps ==
  ASSUME BenInv, NEW c \in Checks, redeliverJob(c)
  PROVE  BenInv'
<1>1. crashes' \in 0..MaxCrashes
  BY BeneficiariesAssumption DEF redeliverJob, BenInv, BenTypes
<1>2. OtherStep
  BY <1>1 DEF OtherStep, redeliverJob, BenInv, BenTypes, OpensDiffer, EditsExclude
<1> QED
  BY <1>2, OtherStepKeeps

-----------------------------------------------------------------------------
(* Steps that change what was committed *)

(***************************************************************************)
(* Opening a check takes one nobody else has: it is no reader's, no        *)
(* transaction's, and it adds no verified version.                         *)
(***************************************************************************)
OpenedCheck(at) == [NoCheck EXCEPT !.status = "verifying", !.at = at]

(***************************************************************************)
(* The row of an opened check, field by field.                             *)
(***************************************************************************)
LEMMA Opened ==
  ASSUME NEW at
  PROVE  OpenedCheck(at) = [status |-> "verifying", at |-> at]
<1>1. PICK r1 : r1 = [NoCheck EXCEPT !.status = "verifying"]
  OBVIOUS
<1>2. PICK r2 : r2 = [r1 EXCEPT !.at = at]
  OBVIOUS
<1>3. r1 = [status |-> "verifying", at |-> NONE]
  BY <1>1 DEF NoCheck
<1>4. r2 = [status |-> "verifying", at |-> at]
  BY <1>2, <1>3
<1>5. OpenedCheck(at) = r2
  BY <1>1, <1>2, Zenon DEF OpenedCheck
<1> QED
  BY <1>4, <1>5

(***************************************************************************)
(* openVerification: refused by the unique index, or opened.               *)
(***************************************************************************)
LEMMA OpenKeeps ==
  ASSUME BenInv, NEW r \in reads, openVerification(r)
  PROVE  BenInv'
<1>1. /\ r.op = "open" /\ reads' = reads \ {r}
      /\ UNCHANGED <<beneficiary, versions, provider, events, policy, writes, crashes>>
  BY DEF openVerification
<1>2. r.check \in Checks /\ checks[r.check].status = "NONE" /\ IsVersion(r.at)
  BY <1>1 DEF BenInv, BenTypes, BenReads, ReadHolds
<1>3. CASE UNCHANGED <<checks, queue>>
  <2>1. OpensDiffer' /\ EditsExclude'
    BY <1>1 DEF BenInv, OpensDiffer, EditsExclude
  <2>2. OtherStep
    BY <1>1, <1>3, <2>1 DEF OtherStep, BenInv, BenTypes
  <2> QED
    BY <2>2, OtherStepKeeps
<1>4. CASE /\ ~InFlight(r.at)
           /\ checks' = [checks EXCEPT ![r.check] = [NoCheck EXCEPT !.status = "verifying", !.at = r.at]]
           /\ queue' = enqueueBeneficiaryVerify(r.check)
  <2>1. PICK e \in Checks : e = r.check
    BY <1>2
  <2>2. PICK at : at = r.at
    OBVIOUS
  <2>3. PICK new : new = [status |-> "verifying", at |-> at]
    OBVIOUS
  <2>4. checks' = [checks EXCEPT ![e] = new]
    <3>1. new = OpenedCheck(at)
      BY <2>3, Opened
    <3> QED
      BY <1>4, <2>1, <2>2, <3>1, Zenon DEF OpenedCheck
  <2>5. checks \in [Checks -> CheckRows] /\ checks[e].status = "NONE" /\ IsVersion(at)
    BY <1>2, <2>1, <2>2 DEF BenInv, BenTypes
  <2>6. \A c \in Checks : checks'[c] = IF c = e THEN new ELSE checks[c]
    BY <2>4, <2>5
  <2>7. new \in CheckRows /\ new.status = "verifying" /\ new.at = at
    BY <2>3, <2>5 DEF CheckRows, IsVersion
  <2>8. BenTypes'
    <3>1. checks' \in [Checks -> CheckRows]
      BY <2>4, <2>5, <2>7
    <3>2. queue' \subseteq Checks
      BY <1>4, <2>1 DEF enqueueBeneficiaryVerify, BenInv, BenTypes
    <3> QED
      BY <1>1, <3>1, <3>2 DEF BenInv, BenTypes
  <2>9. OneInFlight'
    BY <1>4, <2>2, <2>6, <2>7 DEF BenInv, OneInFlight, InFlight
  <2>10. \A answer, x : resolved(answer, x)' = resolved(answer, x)
    BY <1>1 DEF resolved, DetailsAt
  <2>11. \A x : IsVersion(x)' <=> IsVersion(x)
    BY <1>1 DEF IsVersion
  <2>12. ASSUME NEW c \in Checks PROVE CheckHolds(c)'
    <3>1. CheckHolds(c)
      BY DEF BenInv
    <3>2. provider' = provider /\ checks'[c] = IF c = e THEN new ELSE checks[c]
      BY <1>1, <2>6
    <3> QED
      BY <2>5, <2>7, <2>10, <2>11, <3>1, <3>2 DEF CheckHolds
  <2>13. ASSUME NEW q \in reads' PROVE ReadHolds(q)'
    <3>1. q \in reads /\ q # r /\ ReadHolds(q) /\ q.check \in Checks
      BY <1>1 DEF BenInv, BenTypes, BenReads
    <3>2. q.check # e
      BY <1>1, <2>1, <2>5, <3>1 DEF BenInv, OpensDiffer, ReadHolds
    <3>3. checks'[q.check] = checks[q.check]
      BY <2>6, <3>1, <3>2
    <3> QED
      BY <1>1, <2>11, <3>1, <3>3 DEF ReadHolds
  <2>14. ASSUME NEW w \in writes' PROVE WriteHolds(w)'
    <3>1. w \in writes /\ WriteHolds(w) /\ w \in BenWrites
      BY <1>1 DEF BenInv, BenTypes
    <3>2. w.kind = "outcome" => w.check \in Checks /\ w.check # e
      BY <2>5, <3>1 DEF WriteHolds
    <3>3. w.kind = "outcome" => checks'[w.check] = checks[w.check]
      BY <2>6, <3>2
    <3>4. w.kind = "outcome" =>
            resolved(provider[w.check], checks[w.check].at)' = resolved(provider[w.check], checks[w.check].at)
      BY <1>1, <2>10, <3>3
    <3>5. refreshed(VersionsAfter(w), ChecksAfter(w))' = refreshed(VersionsAfter(w), ChecksAfter(w))
      <4>1. PICK cs : cs = ChecksAfter(w)
        OBVIOUS
      <4>2. PICK ds : ds = ChecksAfter(w)'
        OBVIOUS
      <4>3. PICK vs : vs = VersionsAfter(w)
        OBVIOUS
      <4>4. VersionsAfter(w)' = vs
        BY <1>1, <4>3 DEF VersionsAfter, Appended
      <4>5. \A c \in Checks : c # e => ds[c] = cs[c]
        BY <2>4, <2>5, <2>6, <3>2, <4>1, <4>2 DEF ChecksAfter, Ended
      <4>6. cs[e].status # "verified" /\ ds[e].status # "verified"
        <5>1. cs[e] = checks[e]
          BY <2>5, <3>2, <4>1 DEF ChecksAfter, Ended
        <5>2. ds[e] = checks'[e]
          BY <2>4, <2>5, <3>2, <4>2 DEF ChecksAfter, Ended
        <5> QED
          BY <2>5, <2>6, <2>7, <5>1, <5>2
      <4>7. \A x : HasVerified(x, ds) <=> HasVerified(x, cs)
        BY <4>5, <4>6 DEF HasVerified
      <4>8. deriveBeneficiaryStatus(beneficiary, vs, ds) = deriveBeneficiaryStatus(beneficiary, vs, cs)
        BY <4>7, SameSummary
      <4> QED
        BY <1>1, <4>1, <4>2, <4>3, <4>4, <4>8 DEF refreshed
    <3> QED
      BY <1>1, <3>1, <3>3, <3>4, <3>5 DEF WriteHolds
  <2>15. OpensDiffer' /\ EditsExclude'
    BY <1>1 DEF BenInv, OpensDiffer, EditsExclude
  <2> QED
    BY <2>8, <2>9, <2>12, <2>13, <2>14, <2>15 DEF BenInv
<1> QED
  BY <1>3, <1>4 DEF openVerification

(***************************************************************************)
(* A commit marks the transactions it overtook, and changes nothing else   *)
(* of them.                                                                *)
(***************************************************************************)
Raced(w) == [w EXCEPT !.raced = TRUE]

(***************************************************************************)
(* It stays the row it was.                                                *)
(***************************************************************************)
LEMMA RacedRow ==
  ASSUME NEW w \in BenWrites
  PROVE  /\ Raced(w) \in BenWrites /\ Raced(w).raced
         /\ Raced(w).kind = w.kind /\ Raced(w).dest = w.dest /\ Raced(w).details = w.details
         /\ Raced(w).default = w.default /\ Raced(w).check = w.check /\ Raced(w).status = w.status
BY DEF Raced, BenWrites

(***************************************************************************)
(* disableBeneficiary overtakes every transaction in progress.             *)
(***************************************************************************)
LEMMA DisableKeeps ==
  ASSUME BenInv, disableBeneficiary
  PROVE  BenInv'
<1>1. /\ UNCHANGED <<versions, checks, queue, provider, policy, reads, crashes>>
      /\ writes' = {Raced(w) : w \in writes}
  BY DEF disableBeneficiary, Raced
<1>2. beneficiary' \in [status : Summaries, disabled : BOOLEAN, default : Destinations \cup {NONE}]
      /\ beneficiary'.default = beneficiary.default
  <2>1. PICK b1 : b1 = [beneficiary EXCEPT !.disabled = TRUE]
    OBVIOUS
  <2>2. PICK b2 : b2 = [b1 EXCEPT !.status = "disabled"]
    OBVIOUS
  <2>3. beneficiary' = b2
    BY <2>1, <2>2, Zenon DEF disableBeneficiary
  <2>4. "disabled" \in Summaries
    BY DEF Summaries, Status
  <2>5. /\ b1 \in [status : Summaries, disabled : BOOLEAN, default : Destinations \cup {NONE}]
        /\ b1.default = beneficiary.default
    BY <2>1 DEF BenInv, BenTypes
  <2> QED
    BY <2>2, <2>3, <2>4, <2>5
<1>3. \A w \in writes : w \in BenWrites
  BY DEF BenInv, BenTypes
<1>4. BenTypes'
  <2>1. writes' \subseteq BenWrites
    BY <1>1, <1>3, RacedRow
  <2> QED
    BY <1>1, <1>2, <2>1 DEF BenInv, BenTypes
<1>5. OneInFlight' /\ OpensDiffer'
  BY <1>1 DEF BenInv, OneInFlight, OpensDiffer
<1>6. EditsExclude'
  BY <1>1, <1>3, RacedRow DEF BenInv, EditsExclude
<1>7. \A answer, x : resolved(answer, x)' = resolved(answer, x)
  BY <1>1 DEF resolved, DetailsAt
<1>8. \A c \in Checks : CheckHolds(c)'
  BY <1>1, <1>7 DEF BenInv, CheckHolds, IsVersion
<1>9. \A r \in reads' : ReadHolds(r)'
  BY <1>1 DEF BenInv, ReadHolds, IsVersion
<1>10. ASSUME NEW o \in writes' PROVE WriteHolds(o)'
  <2>1. PICK w \in writes : o = Raced(w)
    BY <1>1
  <2>2. /\ o.raced /\ o.kind = w.kind /\ o.dest = w.dest /\ o.details = w.details
        /\ o.default = w.default /\ o.check = w.check /\ o.status = w.status
    BY <1>3, <2>1, RacedRow
  <2>3. WriteHolds(w)
    BY DEF BenInv
  <2> QED
    BY <1>1, <1>7, <2>2, <2>3 DEF WriteHolds
<1> QED
  BY <1>4, <1>5, <1>6, <1>8, <1>9, <1>10 DEF BenInv

(***************************************************************************)
(* What every commit does, whichever of the two kinds it is.               *)
(***************************************************************************)
LEMMA CommitMeans ==
  ASSUME BenInv, NEW w \in writes, commit(w)
  PROVE  /\ UNCHANGED <<queue, provider, policy, reads, crashes>>
         /\ writes' = {Raced(o) : o \in writes \ {w}}
         /\ writes' \subseteq BenWrites
         /\ EditsExclude'
         /\ \/ w.kind = "version" /\ commitVersion(w)
            \/ w.kind = "outcome" /\ commitOutcome(w)
         /\ beneficiary' \in [status : Summaries, disabled : BOOLEAN, default : Destinations \cup {NONE}]
         /\ beneficiary'.default = IF w.default THEN w.dest ELSE beneficiary.default
         /\ beneficiary'.disabled = beneficiary.disabled
         /\ beneficiary'.status = IF w.summary = NONE THEN beneficiary.status ELSE w.summary
<1>1. /\ UNCHANGED <<queue, provider, policy, reads, crashes>>
      /\ writes' = {Raced(o) : o \in writes \ {w}}
      /\ \/ w.kind = "version" /\ commitVersion(w)
         \/ w.kind = "outcome" /\ commitOutcome(w)
  BY DEF commit, Raced
<1>2. \A o \in writes : o \in BenWrites
  BY DEF BenInv, BenTypes
<1>3. writes' \subseteq BenWrites
  BY <1>1, <1>2, RacedRow
<1>4. EditsExclude'
  BY <1>1, <1>2, RacedRow DEF BenInv, EditsExclude
<1>5. PICK status : status = IF w.summary = NONE THEN beneficiary.status ELSE w.summary
  OBVIOUS
<1>6. PICK default : default = IF w.default THEN w.dest ELSE beneficiary.default
  OBVIOUS
<1>7. status \in Summaries /\ default \in Destinations \cup {NONE}
  BY <1>2, <1>5, <1>6 DEF BenWrites, BenInv, BenTypes
<1>8. PICK b1 : b1 = [beneficiary EXCEPT !.status = status]
  OBVIOUS
<1>9. PICK b2 : b2 = [b1 EXCEPT !.default = default]
  OBVIOUS
<1>10. /\ b1 \in [status : Summaries, disabled : BOOLEAN, default : Destinations \cup {NONE}]
       /\ b1.status = status /\ b1.disabled = beneficiary.disabled /\ b1.default = beneficiary.default
  BY <1>7, <1>8 DEF BenInv, BenTypes
<1>11. beneficiary' = b2
  <2>1. beneficiary' = [beneficiary EXCEPT
          !.status  = IF w.summary = NONE THEN @ ELSE w.summary,
          !.default = IF w.default THEN w.dest ELSE @]
    BY DEF commit
  <2>2. b1 = [beneficiary EXCEPT !.status = IF w.summary = NONE THEN @ ELSE w.summary]
    BY <1>5, <1>8
  <2>3. b2 = [b1 EXCEPT !.default = IF w.default THEN w.dest ELSE @]
    BY <1>6, <1>9, <1>10
  <2> QED
    BY <2>1, <2>2, <2>3, Zenon
<1>12. /\ b2 \in [status : Summaries, disabled : BOOLEAN, default : Destinations \cup {NONE}]
       /\ b2.status = status /\ b2.disabled = beneficiary.disabled /\ b2.default = default
  BY <1>7, <1>9, <1>10
<1> QED
  BY <1>1, <1>3, <1>4, <1>5, <1>6, <1>11, <1>12

(***************************************************************************)
(* A version is appended: those there were stay what they were.            *)
(***************************************************************************)
LEMMA CommitVersionKeeps ==
  ASSUME BenInv, NEW w \in writes, commit(w), w.kind = "version", commitVersion(w)
  PROVE  BenInv'
<1>1. /\ UNCHANGED <<checks, queue, provider, policy, reads, crashes>>
      /\ writes' = {Raced(o) : o \in writes \ {w}}
      /\ versions' = [versions EXCEPT ![w.dest] = Append(@, w.details)]
  BY CommitMeans DEF commitVersion, Appended
<1>2. WriteHolds(w) /\ w.dest \in Destinations /\ w.details \in Details /\ Len(versions[w.dest]) < MaxVersion
  BY DEF BenInv, WriteHolds
<1>3. versions \in [Destinations -> Seq(Details)] /\ \A d \in Destinations : Len(versions[d]) <= MaxVersion
  BY DEF BenInv, BenTypes
<1>4. versions' \in [Destinations -> Seq(Details)]
  BY <1>1, <1>2, <1>3
<1>5. ASSUME NEW d \in Destinations
      PROVE  /\ d # w.dest => versions'[d] = versions[d]
             /\ d = w.dest => Len(versions'[d]) = Len(versions[d]) + 1
             /\ Len(versions[d]) \in Nat
             /\ \A n \in 1..Len(versions[d]) : versions'[d][n] = versions[d][n]
  BY <1>1, <1>2, <1>3
<1>6. \A x : IsVersion(x) => IsVersion(x)' /\ DetailsAt(x)' = DetailsAt(x)
  <2> SUFFICES ASSUME NEW x, IsVersion(x) PROVE IsVersion(x)' /\ DetailsAt(x)' = DetailsAt(x)
    OBVIOUS
  <2>1. PICK d \in Destinations, n \in 1..MaxVersion : x = <<d, n>> /\ n <= Len(versions[d])
    BY DEF IsVersion, Positions
  <2>2. Len(versions'[d]) >= Len(versions[d]) /\ Len(versions'[d]) \in Nat /\ Len(versions[d]) \in Nat
    BY <1>5
  <2>3. n \in 1..Len(versions[d]) /\ n <= Len(versions'[d])
    BY <2>1, <2>2, BeneficiariesAssumption
  <2> QED
    BY <1>5, <2>1, <2>3 DEF IsVersion, DetailsAt, Positions
<1>7. \A answer, x : IsVersion(x) => resolved(answer, x)' = resolved(answer, x)
  BY <1>1, <1>6 DEF resolved
<1>8. BenTypes'
  <2>1. \A d \in Destinations : Len(versions'[d]) <= MaxVersion
    BY <1>2, <1>3, <1>5, BeneficiariesAssumption
  <2>2. beneficiary'.default # NONE => Len(versions'[beneficiary'.default]) # 0
    <3>1. CASE w.default
      <4>1. beneficiary'.default = w.dest
        BY <3>1, CommitMeans
      <4> QED
        BY <1>2, <1>5, <4>1
    <3>2. CASE ~w.default
      <4>1. PICK d : d = beneficiary.default
        OBVIOUS
      <4>2. beneficiary'.default = d /\ d \in Destinations \cup {NONE} /\ (d # NONE => Len(versions[d]) # 0)
        BY <3>2, <4>1, CommitMeans DEF BenInv, BenTypes
      <4>3. d \in Destinations => Len(versions'[d]) = Len(versions[d]) \/ Len(versions'[d]) = Len(versions[d]) + 1
        BY <1>5
      <4>4. d \in Destinations => Len(versions[d]) \in Nat
        BY <1>5
      <4> QED
        BY <4>2, <4>3, <4>4
    <3> QED
      BY <3>1, <3>2
  <2> QED
    BY <1>1, <1>4, <2>1, <2>2, CommitMeans DEF BenInv, BenTypes
<1>9. OneInFlight' /\ OpensDiffer' /\ EditsExclude'
  BY <1>1, CommitMeans DEF BenInv, OneInFlight, OpensDiffer
<1>10. \A c \in Checks : CheckHolds(c)'
  BY <1>1, <1>6, <1>7 DEF BenInv, CheckHolds
<1>11. \A r \in reads' : ReadHolds(r)'
  BY <1>1, <1>6 DEF BenInv, ReadHolds
<1>12. ASSUME NEW o \in writes' PROVE WriteHolds(o)'
  <2>1. PICK v \in writes : o = Raced(v) /\ v # w
    BY <1>1
  <2>2. v \in BenWrites /\ WriteHolds(v)
    BY DEF BenInv, BenTypes
  <2>3. /\ o.raced /\ o.kind = v.kind /\ o.dest = v.dest /\ o.details = v.details
        /\ o.default = v.default /\ o.check = v.check /\ o.status = v.status
    BY <2>1, <2>2, RacedRow
  <2>4. CASE v.kind = "version"
    <3>1. v.dest \in Destinations /\ v.dest # NONE
      BY <2>2, <2>4, BeneficiariesAssumption DEF WriteHolds
    <3>2. v.dest # w.dest
      BY <2>1, <3>1 DEF BenInv, EditsExclude
    <3>3. versions'[v.dest] = versions[v.dest]
      BY <1>5, <3>1, <3>2
    <3> QED
      BY <2>2, <2>3, <2>4, <3>1, <3>3 DEF WriteHolds
  <2>5. CASE v.kind # "version"
    <3>1. v.kind = "outcome"
      BY <2>2, <2>5 DEF BenWrites
    <3>2. v.check \in Checks /\ checks[v.check].status # "NONE"
      BY <2>2, <3>1 DEF WriteHolds
    <3>3. IsVersion(checks[v.check].at)
      BY <3>2 DEF BenInv, CheckHolds
    <3>4. resolved(provider[v.check], checks[v.check].at)' = resolved(provider[v.check], checks[v.check].at)
      BY <1>1, <1>7, <3>3
    <3> QED
      BY <1>1, <2>2, <2>3, <3>1, <3>2, <3>4 DEF WriteHolds
  <2> QED
    BY <2>4, <2>5
<1> QED
  BY <1>8, <1>9, <1>10, <1>11, <1>12 DEF BenInv

(***************************************************************************)
(* A check ends with the verdict its provider's decision gives it.         *)
(***************************************************************************)
LEMMA CommitOutcomeKeeps ==
  ASSUME BenInv, NEW w \in writes, commit(w), w.kind = "outcome", commitOutcome(w)
  PROVE  BenInv'
<1>1. PICK e \in Checks : e = w.check
  BY DEF BenInv, WriteHolds
<1>2. PICK status \in {"verified", "failed"} : status = w.status
  <2>1. w.status = resolved(provider[e], checks[e].at)
    BY <1>1 DEF BenInv, WriteHolds
  <2> QED
    BY <2>1 DEF resolved
<1>3. /\ UNCHANGED <<versions, queue, provider, policy, reads, crashes>>
      /\ writes' = {Raced(o) : o \in writes \ {w}}
      /\ checks' = [checks EXCEPT ![e].status = status]
  BY <1>1, <1>2, CommitMeans DEF commitOutcome, Ended
<1>4. /\ checks[e].status # "NONE" /\ provider[e] # NONE /\ ~w.default
      /\ status = resolved(provider[e], checks[e].at)
      /\ checks \in [Checks -> CheckRows]
  BY <1>1, <1>2 DEF BenInv, WriteHolds, BenTypes
<1>5. checks' \in [Checks -> CheckRows]
  BY <1>3, <1>4 DEF CheckRows
<1>6. \A c \in Checks : checks'[c].at = checks[c].at /\ checks'[c].status = IF c = e THEN status ELSE checks[c].status
  BY <1>3, <1>4 DEF CheckRows
<1>7. \A c \in Checks : c # e => checks'[c] = checks[c]
  BY <1>3, <1>4
<1>8. BenTypes'
  BY <1>3, <1>4, <1>5, CommitMeans DEF BenInv, BenTypes
<1>9. OneInFlight' /\ OpensDiffer' /\ EditsExclude'
  <2>1. \A c \in Checks : checks'[c].status = "verifying" => checks[c].status = "verifying"
    BY <1>2, <1>6
  <2>2. OneInFlight
    BY DEF BenInv
  <2>3. OneInFlight'
    BY <1>6, <2>1, <2>2 DEF OneInFlight
  <2> QED
    BY <1>3, <2>3, CommitMeans DEF BenInv, OpensDiffer
<1>10. \A answer, x : resolved(answer, x)' = resolved(answer, x)
  BY <1>3 DEF resolved, DetailsAt
<1>11. \A x : IsVersion(x)' <=> IsVersion(x)
  BY <1>3 DEF IsVersion
<1>12. ASSUME NEW c \in Checks PROVE CheckHolds(c)'
  <2>1. CheckHolds(c) /\ provider' = provider
    BY <1>3 DEF BenInv
  <2>2. CASE c = e
    <3>1. checks'[c].status = status /\ checks'[c].at = checks[c].at
      BY <1>6, <2>2
    <3>2. resolved(provider[c], checks[c].at)' = resolved(provider[e], checks[e].at)
      BY <1>10, <2>1, <2>2, <3>1
    <3> QED
      BY <1>4, <1>11, <2>1, <2>2, <3>1, <3>2 DEF CheckHolds
  <2>3. CASE c # e
    <3>1. checks'[c] = checks[c]
      BY <1>7, <2>3
    <3> QED
      BY <1>10, <1>11, <2>1, <3>1 DEF CheckHolds
  <2> QED
    BY <2>2, <2>3
<1>13. ASSUME NEW r \in reads' PROVE ReadHolds(r)'
  <2>1. r \in reads /\ ReadHolds(r) /\ r.check \in Checks
    BY <1>3 DEF BenInv, BenTypes, BenReads
  <2>2. /\ checks'[r.check].at = checks[r.check].at
        /\ checks'[r.check].status = "NONE" <=> checks[r.check].status = "NONE"
    BY <1>4, <1>6, <2>1
  <2> QED
    BY <1>3, <1>11, <2>1, <2>2 DEF ReadHolds
<1>14. ASSUME NEW o \in writes' PROVE WriteHolds(o)'
  <2>1. PICK v \in writes : o = Raced(v)
    BY <1>3
  <2>2. v \in BenWrites /\ WriteHolds(v)
    BY DEF BenInv, BenTypes
  <2>3. /\ o.raced /\ o.kind = v.kind /\ o.dest = v.dest /\ o.details = v.details
        /\ o.default = v.default /\ o.check = v.check /\ o.status = v.status
    BY <2>1, <2>2, RacedRow
  <2>4. CASE v.kind = "outcome"
    <3>1. v.check \in Checks /\ checks[v.check].status # "NONE"
      BY <2>2, <2>4 DEF WriteHolds
    <3>2. checks'[v.check].at = checks[v.check].at /\ checks'[v.check].status # "NONE"
      BY <1>6, <3>1
    <3>3. resolved(provider[v.check], checks[v.check].at)' = resolved(provider[v.check], checks[v.check].at)
      BY <1>3, <1>10, <3>2
    <3> QED
      BY <1>3, <2>2, <2>3, <2>4, <3>1, <3>2, <3>3 DEF WriteHolds
  <2>5. CASE v.kind # "outcome"
    BY <1>3, <2>2, <2>3, <2>5 DEF WriteHolds
  <2> QED
    BY <2>4, <2>5
<1> QED
  BY <1>8, <1>9, <1>12, <1>13, <1>14 DEF BenInv

-----------------------------------------------------------------------------
(***************************************************************************)
(* Of a new beneficiary the invariant holds.                               *)
(***************************************************************************)
LEMMA BenInitHolds ==
  ASSUME BeneficiariesInit
  PROVE  BenInv
<1>1. beneficiary \in [status : Summaries, disabled : BOOLEAN, default : Destinations \cup {NONE}]
      /\ beneficiary.default = NONE
  BY DEF BeneficiariesInit, Summaries, Status
<1>2. versions \in [Destinations -> Seq(Details)] /\ \A d \in Destinations : Len(versions[d]) = 0
  BY DEF BeneficiariesInit
<1>3. checks \in [Checks -> CheckRows] /\ \A c \in Checks : checks[c] = NoCheck /\ checks[c].status = "NONE"
  BY DEF BeneficiariesInit, CheckRows, NoCheck
<1>4. BenTypes
  <2>1. /\ queue = {} /\ reads = {} /\ writes = {} /\ crashes = 0 /\ policy \in Policies
        /\ provider = [c \in Checks |-> NONE]
    BY DEF BeneficiariesInit
  <2>2. crashes \in 0..MaxCrashes /\ \A d \in Destinations : Len(versions[d]) <= MaxVersion
    BY <1>2, <2>1, BeneficiariesAssumption
  <2> QED
    BY <1>1, <1>2, <1>3, <2>1, <2>2 DEF BenTypes
<1>5. OneInFlight /\ OpensDiffer /\ EditsExclude
  BY <1>3 DEF BeneficiariesInit, OneInFlight, OpensDiffer, EditsExclude
<1>6. \A c \in Checks : CheckHolds(c)
  BY <1>3 DEF CheckHolds
<1> QED
  BY <1>4, <1>5, <1>6 DEF BeneficiariesInit, BenInv

(***************************************************************************)
(* Every step keeps it.                                                    *)
(***************************************************************************)
LEMMA BenNextKeeps ==
  ASSUME BenInv, BeneficiariesNext
  PROVE  BenInv'
<1>1. CASE \E d \in Destinations, details \in Details :
             \/ \E makeDefault \in BOOLEAN : addPayoutDestination(d, details, makeDefault)
             \/ editPayoutDestination(d, details)
  BY <1>1, AddKeeps, EditKeeps
<1>2. CASE disableBeneficiary \/ readForOpen
  BY <1>2, DisableKeeps, ReadForOpenKeeps
<1>3. CASE \E c \in Checks : \/ loadJob(c) \/ redeliverJob(c) \/ deliverResult(c) \/ deliverOther(c)
  BY <1>3, LoadJobKeeps, RedeliverKeeps, DeliverResultKeeps, DeliverOtherKeeps
<1>4. CASE \E r \in reads :
             openVerification(r) \/ runBeneficiaryVerifyJob(r) \/ applyCallback(r) \/ crash(r)
  BY <1>4, OpenKeeps, RunJobKeeps, CallbackKeeps, CrashKeeps
<1>5. CASE \E w \in writes : commit(w) \/ crash(w)
  <2>1. PICK w \in writes : commit(w) \/ crash(w)
    BY <1>5
  <2>2. CASE crash(w)
    BY <2>2, CrashKeeps
  <2>3. CASE commit(w)
    BY <2>3, CommitMeans, CommitVersionKeeps, CommitOutcomeKeeps
  <2> QED
    BY <2>1, <2>2, <2>3
<1> QED
  BY <1>1, <1>2, <1>3, <1>4, <1>5, Zenon DEF BeneficiariesNext

(***************************************************************************)
(* So does a step that does nothing.                                       *)
(***************************************************************************)
LEMMA BenStaysPut ==
  ASSUME BenInv, UNCHANGED benVars
  PROVE  BenInv'
<1>1. OpensDiffer' /\ EditsExclude'
  BY DEF benVars, BenInv, OpensDiffer, EditsExclude
<1>2. OtherStep
  BY <1>1 DEF OtherStep, benVars, BenInv, BenTypes
<1> QED
  BY <1>2, OtherStepKeeps

(***************************************************************************)
(* Checks, destinations, the calls between their read and their write and  *)
(* the transactions between their write and their commit agree in every    *)
(* reachable state (beneficiary.service.ts and verification.service.ts).   *)
(***************************************************************************)
THEOREM BenInvariant == BeneficiariesSpec => []BenInv
<1>1. BeneficiariesInit => BenInv
  BY BenInitHolds
<1>2. BenInv /\ [BeneficiariesNext]_benVars => BenInv'
  BY BenNextKeeps, BenStaysPut
<1> QED
  BY <1>1, <1>2, PTL DEF BeneficiariesSpec

(***************************************************************************)
(* A name decided to match is supported by what the provider reported.     *)
(***************************************************************************)
LEMMA SatisfiedIsSupported ==
  ASSUME NEW evidence, NEW name, policy \in Policies, isName(name), isName(evidence.registryName),
         evidence.score \in Int, decideNameMatch(policy, evidence, name) = "satisfied"
  PROVE  NameSupported(evidence, name)
<1>1. inspectPolicy(policy) /\ (policy.kind = "numeric_score" => policy.scaleMax \in Nat)
  BY BeneficiariesAssumption
<1>2. \A met : Verdict(met) = "satisfied" => met
  BY DEF Verdict
<1>3. CASE policy.kind = "registry_name"
  <2>1. policy.minimum \in Nat
    BY <1>1, <1>3 DEF inspectPolicy
  <2>2. /\ evidence.registryName # << >>
        /\ compareNames(name, evidence.registryName) >= policy.minimum
    BY <1>3, Zenon DEF decideNameMatch, Verdict
  <2>3. PICK b : b = evidence.registryName
    OBVIOUS
  <2>4. PICK minimum \in Nat : minimum = policy.minimum
    BY <2>1
  <2>5. 200 * BestMatch(name, b) + Shorter(name, b) >= 2 * minimum * Shorter(name, b)
    BY <2>2, <2>3, <2>4, ScoreIsSupported
  <2> QED
    BY <1>3, <2>2, <2>3, <2>4, <2>5 DEF NameSupported
<1>4. CASE policy.kind = "provider_assertion"
  BY <1>4 DEF decideNameMatch, Verdict, NameSupported
<1>5. CASE policy.kind = "numeric_score"
  <2>1. policy.scaleMax \in Nat /\ policy.minimum \in 0..policy.scaleMax
    BY <1>1, <1>5 DEF inspectPolicy
  <2> QED
    BY <1>5, <2>1 DEF decideNameMatch, Verdict, NameSupported
<1>6. CASE policy.kind \notin {"registry_name", "provider_assertion", "numeric_score"}
  BY <1>6 DEF NameSupported
<1> QED
  BY <1>3, <1>4, <1>5, <1>6

(***************************************************************************)
(* The invariant implies that a verified check has its evidence.           *)
(***************************************************************************)
LEMMA EvidenceHolds ==
  ASSUME BenInv
  PROVE  VerifiedOnEvidence
<1>1. BeneficiariesTypeOK
  <2>1. \A d \in Destinations : Len(versions[d]) <= MaxVersion /\ \A n \in DOMAIN versions[d] : versions[d][n] \in Details
    BY DEF BenInv, BenTypes
  <2>2. beneficiary \in [status : Status, disabled : BOOLEAN, default : Destinations \cup {NONE}]
    BY DEF BenInv, BenTypes, Summaries
  <2> QED
    BY <2>1, <2>2 DEF BenInv, BenTypes, BeneficiariesTypeOK, OneInFlight, CheckRows
<1>2. ASSUME NEW c \in Checks, checks[c].status = "verified"
      PROVE  /\ provider[c] # NONE
             /\ provider[c].result = "account_confirmed"
             /\ NameSupported(provider[c].evidence, DetailsAt(checks[c].at).name)
  <2>1. CheckHolds(c)
    BY DEF BenInv
  <2>2. /\ provider[c] # NONE /\ IsVersion(checks[c].at)
        /\ resolved(provider[c], checks[c].at) = "verified"
    BY <1>2, <2>1 DEF CheckHolds
  <2>3. /\ provider[c].result = "account_confirmed"
        /\ decideNameMatch(policy, provider[c].evidence, DetailsAt(checks[c].at).name) = "satisfied"
    BY <2>2 DEF resolved
  <2>4. provider[c] \in Answers /\ policy \in Policies
    BY <2>2 DEF BenInv, BenTypes
  <2>5. isName(provider[c].evidence.registryName) /\ provider[c].evidence.score \in Int
    BY <2>4, BeneficiariesAssumption
  <2>6. DetailsAt(checks[c].at) \in Details
    <3>1. PICK d \in Destinations, n \in 1..MaxVersion : checks[c].at = <<d, n>> /\ n <= Len(versions[d])
      BY <2>2 DEF IsVersion, Positions
    <3>2. versions[d] \in Seq(Details)
      BY DEF BenInv, BenTypes
    <3>3. n \in 1..Len(versions[d])
      BY <3>1, <3>2
    <3> QED
      BY <3>1, <3>2, <3>3 DEF DetailsAt
  <2>7. isName(DetailsAt(checks[c].at).name)
    BY <2>6, BeneficiariesAssumption
  <2>8. PICK evidence : evidence = provider[c].evidence
    OBVIOUS
  <2>9. PICK name : name = DetailsAt(checks[c].at).name
    OBVIOUS
  <2>10. NameSupported(evidence, name)
    BY <2>3, <2>4, <2>5, <2>7, <2>8, <2>9, SatisfiedIsSupported
  <2> QED
    BY <2>2, <2>3, <2>8, <2>9, <2>10
<1> QED
  BY <1>1, <1>2 DEF VerifiedOnEvidence

(***************************************************************************)
(* INV-45: a version counts as verified only on the provider's own         *)
(* confirmation of that version and a name it reported that supports the   *)
(* holder's, under the registered policy and for names of any length       *)
(* (applyOutcome, decideNameMatch): VerifiedOnEvidence.                    *)
(***************************************************************************)
THEOREM VerificationsHaveEvidence == BeneficiariesSpec => []VerifiedOnEvidence
BY BenInvariant, EvidenceHolds, PTL

(***************************************************************************)
(* Checks change when one is opened, which had no verdict, and when an     *)
(* outcome is committed, which is the one verdict the decision allows.     *)
(***************************************************************************)
LEMMA VerdictStays ==
  ASSUME BenInv, [BeneficiariesNext]_benVars, NEW c \in Checks,
         checks[c].status \in {"verified", "failed"}
  PROVE  checks'[c].status = checks[c].status
<1>1. checks \in [Checks -> CheckRows] /\ CheckHolds(c)
  BY DEF BenInv, BenTypes
<1>2. CASE UNCHANGED checks
  BY <1>2
<1>3. CASE \E r \in reads : openVerification(r)
  <2>1. PICK r \in reads : openVerification(r)
    BY <1>3
  <2>2. r.check # c
    BY <2>1 DEF openVerification, BenInv, ReadHolds
  <2>3. checks' = checks \/ \E x : checks' = [checks EXCEPT ![r.check] = x]
    BY <2>1 DEF openVerification
  <2> QED
    BY <1>1, <2>2, <2>3
<1>4. CASE \E w \in writes : commit(w)
  <2>1. PICK w \in writes : commit(w)
    BY <1>4
  <2>2. \/ UNCHANGED checks
        \/ w.kind = "outcome" /\ checks' = [checks EXCEPT ![w.check].status = w.status]
    BY <2>1, CommitMeans DEF commitVersion, commitOutcome, Ended
  <2>3. w.kind = "outcome" => w.check \in Checks /\ w.status = resolved(provider[w.check], checks[w.check].at)
    BY DEF BenInv, WriteHolds
  <2>4. checks[c].status = resolved(provider[c], checks[c].at)
    BY <1>1 DEF CheckHolds
  <2> QED
    BY <1>1, <2>2, <2>3, <2>4 DEF CheckRows
<1>5. ~UNCHANGED checks => (\E r \in reads : openVerification(r)) \/ \E w \in writes : commit(w)
  <2>1. CASE UNCHANGED benVars
    BY <2>1 DEF benVars
  <2>2. CASE \E d \in Destinations, details \in Details :
             \/ \E makeDefault \in BOOLEAN : addPayoutDestination(d, details, makeDefault)
             \/ editPayoutDestination(d, details)
    BY <2>2 DEF addPayoutDestination, editPayoutDestination
  <2>3. CASE disableBeneficiary \/ readForOpen
    BY <2>3 DEF disableBeneficiary, readForOpen
  <2>4. CASE \E e \in Checks : \/ loadJob(e) \/ redeliverJob(e) \/ deliverResult(e) \/ deliverOther(e)
    <3>1. PICK e \in Checks : \/ loadJob(e) \/ redeliverJob(e) \/ deliverResult(e) \/ deliverOther(e)
      BY <2>4
    <3>2. CASE loadJob(e) \/ redeliverJob(e)
      BY <3>2 DEF loadJob, redeliverJob
    <3>3. CASE deliverResult(e) \/ deliverOther(e)
      BY <3>3 DEF deliverResult, deliverOther, ingestVerificationCallback
    <3> QED
      BY <3>1, <3>2, <3>3
  <2>5. CASE \E r \in reads :
             openVerification(r) \/ runBeneficiaryVerifyJob(r) \/ applyCallback(r) \/ crash(r)
    <3>1. PICK r \in reads :
             openVerification(r) \/ runBeneficiaryVerifyJob(r) \/ applyCallback(r) \/ crash(r)
      BY <2>5
    <3>2. CASE openVerification(r)
      BY <3>2
    <3>3. CASE runBeneficiaryVerifyJob(r)
      BY <3>3 DEF runBeneficiaryVerifyJob, recordTaken
    <3>4. CASE applyCallback(r) \/ crash(r)
      BY <3>4 DEF applyCallback, crash
    <3> QED
      BY <3>1, <3>2, <3>3, <3>4
  <2>6. CASE \E w \in writes : commit(w) \/ crash(w)
    BY <2>6 DEF crash
  <2> QED
    BY <2>1, <2>2, <2>3, <2>4, <2>5, <2>6, Zenon DEF BeneficiariesNext
<1> QED
  BY <1>2, <1>3, <1>4, <1>5

(***************************************************************************)
(* No late, repeated or redelivered answer turns a verdict (applyOutcome   *)
(* writes without looking at the status): VerdictIsFinal.                  *)
(***************************************************************************)
THEOREM VerdictsAreFinal == BeneficiariesSpec => VerdictIsFinal
<1>1. BenInv /\ [BeneficiariesNext]_benVars =>
        [\A c \in Checks : checks[c].status \in {"verified", "failed"} =>
           checks'[c].status = checks[c].status]_benVars
  BY VerdictStays
<1> QED
  BY <1>1, BenInvariant, PTL DEF BeneficiariesSpec, VerdictIsFinal

(***************************************************************************)
(* A commit nobody overtook writes the summary of the state it leaves.     *)
(***************************************************************************)
LEMMA CommitHeals ==
  ASSUME BenInv, NEW w \in writes, commit(w), ~w.raced
  PROVE  beneficiary'.status = "verified" <=>
           /\ ~beneficiary.disabled
           /\ \E c \in Checks, d \in Destinations :
                checks'[c].status = "verified" /\ checks'[c].at = <<d, Len(versions'[d])>>
<1>1. BenInv'
  BY CommitMeans, CommitVersionKeeps, CommitOutcomeKeeps
<1>2. PICK vs : vs = versions'
  OBVIOUS
<1>3. PICK cs : cs = checks'
  OBVIOUS
<1>4. vs = VersionsAfter(w) /\ cs = ChecksAfter(w)
  BY <1>2, <1>3, CommitMeans DEF commitVersion, commitOutcome, VersionsAfter, ChecksAfter
<1>5. w.summary = refreshed(vs, cs)
  BY <1>4 DEF BenInv, WriteHolds
<1>6. PICK status : status = deriveBeneficiaryStatus(beneficiary, vs, cs)
  OBVIOUS
<1>7. beneficiary.status # "rejected" /\ beneficiary.status \in Summaries
  BY DEF BenInv, BenTypes, Summaries
<1>8. /\ status \in Summaries
      /\ status = "verified" <=> ~beneficiary.disabled /\ \E at \in CurrentVersions(vs) : HasVerified(at, cs)
  BY <1>6, <1>7, DerivedSummary
<1>9. beneficiary'.status = status
  <2>1. status # NONE
    BY <1>8, BeneficiariesAssumption DEF Summaries, Status
  <2>2. w.summary = IF status = beneficiary.status THEN NONE ELSE status
    BY <1>5, <1>6 DEF refreshed
  <2>3. beneficiary'.status = IF w.summary = NONE THEN beneficiary.status ELSE w.summary
    BY CommitMeans
  <2> QED
    BY <2>1, <2>2, <2>3
<1>10. ASSUME NEW at \in CurrentVersions(vs), HasVerified(at, cs)
       PROVE  \E c \in Checks, d \in Destinations :
                cs[c].status = "verified" /\ cs[c].at = <<d, Len(vs[d])>>
  BY <1>10 DEF CurrentVersions, HasVerified
<1>11. ASSUME NEW c \in Checks, NEW d \in Destinations,
              cs[c].status = "verified", cs[c].at = <<d, Len(vs[d])>>
       PROVE  \E at \in CurrentVersions(vs) : HasVerified(at, cs)
  <2>1. CheckHolds(c)'
    BY <1>1 DEF BenInv
  <2>2. IsVersion(checks[c].at)'
    BY <1>3, <1>11, <2>1 DEF CheckHolds
  <2>3. cs[c].at \in Positions
    BY <1>3, <2>2 DEF IsVersion
  <2>4. Len(vs[d]) \in 1..MaxVersion
    BY <1>11, <2>3 DEF Positions
  <2>5. vs[d] # << >>
    BY <2>4
  <2>6. <<d, Len(vs[d])>> \in CurrentVersions(vs)
    BY <2>5 DEF CurrentVersions
  <2> QED
    BY <1>11, <2>6 DEF HasVerified
<1> QED
  BY <1>2, <1>3, <1>8, <1>9, <1>10, <1>11

(***************************************************************************)
(* A transaction no other one overlapped leaves the true summary status,   *)
(* whatever races had left before (refreshBeneficiaryStatus):              *)
(* RefreshHeals.                                                           *)
(***************************************************************************)
THEOREM RefreshesHeal == BeneficiariesSpec => RefreshHeals
<1>1. BenInv /\ [BeneficiariesNext]_benVars =>
        [\A w \in writes : (commit(w) /\ ~w.raced) =>
           (beneficiary'.status = "verified" <=>
              /\ ~beneficiary.disabled
              /\ \E c \in Checks, d \in Destinations :
                   checks'[c].status = "verified" /\ checks'[c].at = <<d, Len(versions'[d])>>)]_benVars
  BY CommitHeals
<1> QED
  BY <1>1, BenInvariant, PTL DEF BeneficiariesSpec, RefreshHeals
=============================================================================
