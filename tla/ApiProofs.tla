----------------------------- MODULE ApiProofs -----------------------------
(***************************************************************************)
(* Theorems of Api: for any requests, keys and limit, the pipeline keeps   *)
(* the promise of an idempotency key (it implements Idempotency), and the  *)
(* rate limit of a window holds.                                           *)
(***************************************************************************)
EXTENDS Api, TLAPS

(***************************************************************************)
(* A committed claim is that of a request that was performed, and every    *)
(* performed request still has its claim: the two are written and swept    *)
(* together.                                                               *)
(***************************************************************************)
ClaimsArePerformed ==
  /\ \A k \in Keys : claims[k] # NONE => claims[k] \in effects /\ KeyOf[claims[k]] = k
  /\ \A e \in effects : claims[KeyOf[e]] = e

(***************************************************************************)
(* Nobody is answered before it is done.                                   *)
(***************************************************************************)
OpenIsUnanswered == \A r \in Requests : phase[r] # "done" => answers[r] = NONE

ApiInv == ApiTypeOK /\ ClaimsArePerformed /\ OpenIsUnanswered

(***************************************************************************)
(* While no two requests counted themselves first, the row counts exactly  *)
(* the requests admitted in its window.                                    *)
(***************************************************************************)
CountIsAdmitted ==
  ~racedFirst => /\ admitted = rate.count
                 /\ rate.count <= Limit
                 /\ ~rate.found => rate.count = 0

-----------------------------------------------------------------------------
(***************************************************************************)
(* The facts about the constants that every step uses.                     *)
(***************************************************************************)
LEMMA ConstantFacts ==
  /\ KeyOf \in [Requests -> Keys]
  /\ Limit \in Nat /\ Limit >= 1
  /\ NONE \notin Requests /\ REFUSED \notin Requests /\ REFUSED # NONE
  BY ApiAssumption

LEMMA InitEstablishesApiInv == ApiInit => ApiInv /\ CountIsAdmitted
<1> SUFFICES ASSUME ApiInit PROVE ApiInv /\ CountIsAdmitted
  OBVIOUS
<1>1. ApiTypeOK
  <2>1. \A r \in Requests, k \in Keys : ~(holder[k] = r) /\ phase[r] # "working"
    BY ConstantFacts DEF ApiInit
  <2>2. rate \in [found : BOOLEAN, over : BOOLEAN, count : Nat] /\ admitted \in Nat
    BY DEF ApiInit, NoRow
  <2> QED
    BY <2>1, <2>2 DEF ApiInit, ApiTypeOK, Phases
<1>2. ClaimsArePerformed /\ OpenIsUnanswered
  BY DEF ApiInit, ClaimsArePerformed, OpenIsUnanswered
<1>3. CountIsAdmitted
  BY ConstantFacts DEF ApiInit, NoRow, CountIsAdmitted
<1> QED
  BY <1>1, <1>2, <1>3 DEF ApiInv

(***************************************************************************)
(* The steps before and after the transaction, which write no claim: each  *)
(* moves one request on from a phase that is not "working" to another, and *)
(* answers it only if it ends there.                                       *)
(***************************************************************************)
MovesOn(r, p) ==
  /\ phase[r] \notin {"working", "done"} /\ p \in Phases \ {"working"}
  /\ phase' = [phase EXCEPT ![r] = p]
  /\ \/ answers' = answers
     \/ p = "done" /\ \E a \in Requests \cup {REFUSED} : answers' = [answers EXCEPT ![r] = a]
  /\ UNCHANGED txVars

LEMMA MovingOnKeepsInv ==
  ASSUME ApiInv, NEW r \in Requests, NEW p, MovesOn(r, p),
         old' \subseteq Keys,
         revoked' \in BOOLEAN, racedFirst' \in BOOLEAN,
         rate' \in [found : BOOLEAN, over : BOOLEAN, count : Nat], admitted' \in Nat
  PROVE  ApiInv'
<1>1. ApiTypeOK'
  <2>1. phase' \in [Requests -> Phases] /\ answers' \in [Requests -> Requests \cup {NONE, REFUSED}]
    BY DEF ApiInv, ApiTypeOK, MovesOn
  <2>2. \A q \in Requests : phase'[q] = "working" <=> phase[q] = "working"
    BY DEF ApiInv, ApiTypeOK, MovesOn
  <2> QED
    BY <2>1, <2>2 DEF ApiInv, ApiTypeOK, MovesOn, txVars
<1>2. ClaimsArePerformed'
  BY DEF ApiInv, ClaimsArePerformed, MovesOn, txVars
<1>3. OpenIsUnanswered'
  BY DEF ApiInv, ApiTypeOK, OpenIsUnanswered, MovesOn
<1> QED
  BY <1>1, <1>2, <1>3 DEF ApiInv

-----------------------------------------------------------------------------
(***************************************************************************)
(* Each step keeps the invariant and is a step of Idempotency, or changes  *)
(* nothing that Idempotency sees.                                          *)
(***************************************************************************)
Simulates == ApiInv' /\ [Promise!Next]_<<effects, answers, old>>

(***************************************************************************)
(* A move that answers nothing stutters; one that refuses is Refuse.       *)
(***************************************************************************)
LEMMA MovingOnSimulates ==
  ASSUME ApiInv, NEW r \in Requests, NEW p \in Phases \ {"working"},
         phase[r] \notin {"working", "done"},
         phase' = [phase EXCEPT ![r] = p],
         \/ answers' = answers
         \/ p = "done" /\ answers' = [answers EXCEPT ![r] = REFUSED],
         UNCHANGED txVars, old' = old,
         revoked' \in BOOLEAN, racedFirst' \in BOOLEAN,
         rate' \in [found : BOOLEAN, over : BOOLEAN, count : Nat], admitted' \in Nat
  PROVE  Simulates
<1>1. MovesOn(r, p)
  BY DEF MovesOn
<1>2. old' \subseteq Keys
  BY DEF ApiInv, ApiTypeOK
<1>3. ApiInv'
  BY <1>1, <1>2, MovingOnKeepsInv
<1>4. answers[r] = NONE
  BY DEF ApiInv, OpenIsUnanswered
<1>5. [Promise!Next]_<<effects, answers, old>>
  <2>1. CASE answers' = answers
    BY <2>1 DEF txVars
  <2>2. CASE answers' = [answers EXCEPT ![r] = REFUSED]
    BY <2>2, <1>4 DEF txVars, Promise!Next, Promise!Refuse, Promise!Unanswered
  <2> QED
    BY <2>1, <2>2
<1> QED
  BY <1>3, <1>5 DEF Simulates

LEMMA TypesOfTheWindow ==
  ASSUME ApiInv
  PROVE  /\ revoked \in BOOLEAN /\ racedFirst \in BOOLEAN /\ admitted \in Nat
         /\ rate \in [found : BOOLEAN, over : BOOLEAN, count : Nat]
  BY DEF ApiInv, ApiTypeOK

LEMMA ResolvingSimulates ==
  ASSUME ApiInv, NEW r \in Requests, resolveApiKey(r) PROVE Simulates
<1>1. CASE ~revoked /\ goTo(r, "limiting") /\ UNCHANGED answers
  BY <1>1, TypesOfTheWindow, MovingOnSimulates DEF resolveApiKey, goTo, Phases, rateVars
<1>2. CASE revoked /\ answer(r, REFUSED)
  BY <1>2, TypesOfTheWindow, MovingOnSimulates DEF resolveApiKey, answer, goTo, Phases, rateVars
<1> QED
  BY <1>1, <1>2 DEF resolveApiKey

LEMMA CountingSimulates ==
  ASSUME ApiInv, NEW r \in Requests, consume(r) \/ countFirst(r) PROVE Simulates
<1>1. used(rate) + 1 \in Nat /\ admitted + 1 \in Nat
  BY TypesOfTheWindow DEF used
<1>2. CASE consume(r)
  <2>1. CASE rate.found /\ evaluateRateLimit(rate)
    <3>0. /\ rate' = [found |-> TRUE, over |-> FALSE, count |-> used(rate) + 1]
          /\ admitted' = 1 \/ admitted' = admitted + 1
      BY <1>2, <2>1 DEF consume
    <3>1. rate' \in [found : BOOLEAN, over : BOOLEAN, count : Nat] /\ admitted' \in Nat
      BY <1>1, <3>0
    <3> QED
      BY <1>2, <2>1, <3>1, TypesOfTheWindow, MovingOnSimulates DEF consume, goTo, Phases
  <2>2. CASE rate.found /\ ~evaluateRateLimit(rate)
    BY <1>2, <2>2, TypesOfTheWindow, MovingOnSimulates DEF consume, answer, goTo, Phases
  <2>3. CASE ~rate.found
    BY <1>2, <2>3, TypesOfTheWindow, MovingOnSimulates DEF consume, goTo, Phases
  <2> QED
    BY <2>1, <2>2, <2>3
<1>3. CASE countFirst(r)
  <2>1. rate' \in [found : BOOLEAN, over : BOOLEAN, count : Nat]
    BY <1>3 DEF countFirst
  <2>2. admitted' \in Nat /\ racedFirst' \in BOOLEAN
    BY <1>1, <1>3, TypesOfTheWindow DEF countFirst
  <2> QED
    BY <1>3, <2>1, <2>2, TypesOfTheWindow, MovingOnSimulates DEF countFirst, goTo, Phases
<1> QED
  BY <1>2, <1>3

LEMMA ConfirmingSimulates ==
  ASSUME ApiInv, NEW r \in Requests, confirmKeyInScope(r) PROVE Simulates
<1>1. CASE ~revoked /\ goTo(r, "claiming") /\ UNCHANGED answers
  BY <1>1, TypesOfTheWindow, MovingOnSimulates DEF confirmKeyInScope, goTo, Phases, rateVars
<1>2. CASE revoked /\ answer(r, REFUSED)
  BY <1>2, TypesOfTheWindow, MovingOnSimulates DEF confirmKeyInScope, answer, goTo, Phases, rateVars
<1> QED
  BY <1>1, <1>2 DEF confirmKeyInScope

(***************************************************************************)
(* Taking the slot of a key nobody holds or has claimed is not visible to  *)
(* Idempotency, and makes r its only holder.                               *)
(***************************************************************************)
LEMMA ClaimingSimulates ==
  ASSUME ApiInv, NEW r \in Requests, insertClaim(r) PROVE Simulates
<1> DEFINE k == KeyOf[r]
<1>0. k \in Keys /\ phase[r] = "claiming"
  BY ConstantFacts DEF insertClaim
<1>1. CASE slotFree(k) /\ holder' = [holder EXCEPT ![k] = r] /\ goTo(r, "working") /\ UNCHANGED answers
  <2>1. ApiTypeOK'
    <3>1. phase' \in [Requests -> Phases] /\ holder' \in [Keys -> Requests \cup {NONE}]
      BY <1>0, <1>1 DEF ApiInv, ApiTypeOK, goTo, Phases
    <3>2. \A q \in Requests, j \in Keys : holder'[j] = q <=> phase'[q] = "working" /\ KeyOf[q] = j
      BY <1>0, <1>1, ConstantFacts DEF ApiInv, ApiTypeOK, goTo, slotFree
    <3>3. \A j \in Keys : holder'[j] # NONE => claims'[j] = NONE
      BY <1>0, <1>1 DEF ApiInv, ApiTypeOK, slotFree, insertClaim
    <3> QED
      BY <1>1, <3>1, <3>2, <3>3 DEF ApiInv, ApiTypeOK, insertClaim, rateVars
  <2>2. ClaimsArePerformed'
    BY <1>1 DEF ApiInv, ClaimsArePerformed, insertClaim
  <2>3. OpenIsUnanswered'
    BY <1>0, <1>1 DEF ApiInv, ApiTypeOK, OpenIsUnanswered, goTo
  <2>4. UNCHANGED <<effects, answers, old>>
    BY <1>1 DEF insertClaim
  <2> QED
    BY <2>1, <2>2, <2>3, <2>4 DEF Simulates, ApiInv
<1>2. CASE claims[k] # NONE /\ goTo(r, "looking") /\ UNCHANGED <<holder, answers>>
  BY <1>2, TypesOfTheWindow, MovingOnSimulates DEF insertClaim, goTo, Phases, rateVars, txVars
<1>3. CASE holder[k] # NONE /\ answer(r, REFUSED) /\ UNCHANGED holder
  BY <1>3, TypesOfTheWindow, MovingOnSimulates DEF insertClaim, answer, goTo, Phases, rateVars, txVars
<1> QED
  BY <1>1, <1>2, <1>3 DEF insertClaim

(***************************************************************************)
(* The steps that end a transaction: r, which held its key's slot, is done *)
(* and holds nothing any more.                                             *)
(***************************************************************************)
LEMMA OnlyHolder ==
  ASSUME ApiInv, NEW r \in Requests, phase[r] = "working"
  PROVE  /\ holder[KeyOf[r]] = r /\ claims[KeyOf[r]] = NONE /\ answers[r] = NONE
         /\ \A k \in Keys : holder[k] = r <=> k = KeyOf[r]
         /\ \A e \in effects : KeyOf[e] # KeyOf[r]
<1>1. KeyOf[r] \in Keys /\ r # NONE
  BY ConstantFacts
<1>2. \A k \in Keys : holder[k] = r <=> k = KeyOf[r]
  BY DEF ApiInv, ApiTypeOK
<1>3. holder[KeyOf[r]] = r /\ claims[KeyOf[r]] = NONE /\ answers[r] = NONE
  BY <1>1, <1>2 DEF ApiInv, ApiTypeOK, OpenIsUnanswered
<1>4. \A e \in effects : KeyOf[e] # KeyOf[r]
  BY <1>3, ConstantFacts DEF ApiInv, ApiTypeOK, ClaimsArePerformed
<1> QED
  BY <1>2, <1>3, <1>4

LEMMA CommittingSimulates ==
  ASSUME ApiInv, NEW r \in Requests, commit(r) PROVE Simulates
<1> DEFINE k == KeyOf[r]
<1>0. k \in Keys /\ phase[r] = "working" /\ r # NONE
  BY ConstantFacts DEF commit
<1>1. /\ claims' = [claims EXCEPT ![k] = r] /\ holder' = [holder EXCEPT ![k] = NONE]
      /\ effects' = effects \cup {r}
      /\ phase' = [phase EXCEPT ![r] = "done"] /\ answers' = [answers EXCEPT ![r] = r]
      /\ UNCHANGED <<old, revoked, rate, admitted, racedFirst>>
  BY DEF commit, answer, goTo, rateVars
<1>2. ApiTypeOK'
  <2>1. /\ phase' \in [Requests -> Phases] /\ holder' \in [Keys -> Requests \cup {NONE}]
        /\ claims' \in [Keys -> Requests \cup {NONE}] /\ effects' \subseteq Requests
        /\ answers' \in [Requests -> Requests \cup {NONE, REFUSED}]
    BY <1>1 DEF ApiInv, ApiTypeOK, Phases
  <2>2. \A q \in Requests, j \in Keys : holder'[j] = q <=> phase'[q] = "working" /\ KeyOf[q] = j
    BY <1>0, <1>1, OnlyHolder, ConstantFacts DEF ApiInv, ApiTypeOK
  <2>3. \A j \in Keys : holder'[j] # NONE => claims'[j] = NONE
    BY <1>0, <1>1 DEF ApiInv, ApiTypeOK
  <2> QED
    BY <1>1, <2>1, <2>2, <2>3, TypesOfTheWindow DEF ApiInv, ApiTypeOK
<1>3. ClaimsArePerformed'
  <2>1. \A j \in Keys : claims'[j] # NONE => claims'[j] \in effects' /\ KeyOf[claims'[j]] = j
    BY <1>0, <1>1 DEF ApiInv, ApiTypeOK, ClaimsArePerformed
  <2>2. \A e \in effects' : claims'[KeyOf[e]] = e
    BY <1>0, <1>1, OnlyHolder, ConstantFacts DEF ApiInv, ApiTypeOK, ClaimsArePerformed
  <2> QED
    BY <2>1, <2>2 DEF ClaimsArePerformed
<1>4. OpenIsUnanswered'
  BY <1>1 DEF ApiInv, ApiTypeOK, OpenIsUnanswered
<1>5. Promise!Next
  BY <1>0, <1>1, OnlyHolder DEF Promise!Next, Promise!Perform, Promise!Unanswered
<1> QED
  BY <1>2, <1>3, <1>4, <1>5 DEF Simulates, ApiInv

(***************************************************************************)
(* A refusal or a death rolls the transaction back, if there is one.       *)
(***************************************************************************)
LEMMA RollingBackKeepsInv ==
  ASSUME ApiInv, NEW r \in Requests,
         rollback(r), phase' = [phase EXCEPT ![r] = "done"],
         answers' = answers \/ answers' = [answers EXCEPT ![r] = REFUSED],
         UNCHANGED <<claims, effects, old, revoked, rateVars>>
  PROVE  ApiInv'
<1>1. ApiTypeOK'
  <2>1. /\ phase' \in [Requests -> Phases] /\ holder' \in [Keys -> Requests \cup {NONE}]
        /\ answers' \in [Requests -> Requests \cup {NONE, REFUSED}]
    BY DEF ApiInv, ApiTypeOK, Phases, rollback
  <2>2. \A q \in Requests, j \in Keys : holder'[j] = q <=> phase'[q] = "working" /\ KeyOf[q] = j
    BY ConstantFacts DEF ApiInv, ApiTypeOK, rollback
  <2>3. \A j \in Keys : holder'[j] # NONE => claims'[j] = NONE
    BY DEF ApiInv, ApiTypeOK, rollback
  <2> QED
    BY <2>1, <2>2, <2>3 DEF ApiInv, ApiTypeOK, rateVars
<1>2. ClaimsArePerformed'
  BY DEF ApiInv, ClaimsArePerformed
<1>3. OpenIsUnanswered'
  BY DEF ApiInv, ApiTypeOK, OpenIsUnanswered
<1> QED
  BY <1>1, <1>2, <1>3 DEF ApiInv

LEMMA RefusingSimulates ==
  ASSUME ApiInv, NEW r \in Requests, refuse(r) PROVE Simulates
<1>1. ApiInv'
  BY RollingBackKeepsInv DEF refuse, answer, goTo
<1>2. Promise!Next
  BY OnlyHolder DEF refuse, answer, Promise!Next, Promise!Refuse, Promise!Unanswered
<1> QED
  BY <1>1, <1>2 DEF Simulates

LEMMA CrashingSimulates ==
  ASSUME ApiInv, NEW r \in Requests, crash(r) PROVE Simulates
<1>1. ApiInv'
  BY RollingBackKeepsInv DEF crash, goTo
<1>2. UNCHANGED <<effects, answers, old>>
  BY DEF crash
<1> QED
  BY <1>1, <1>2 DEF Simulates

LEMMA LookingUpSimulates ==
  ASSUME ApiInv, NEW r \in Requests, lookup(r) PROVE Simulates
<1> DEFINE k == KeyOf[r]
<1>0. k \in Keys /\ phase[r] = "looking" /\ UNCHANGED <<txVars, old, revoked, rateVars>>
  BY ConstantFacts DEF lookup
<1>1. CASE replayable(r) /\ answer(r, claims[k])
  <2>1. /\ claims[k] \in effects /\ KeyOf[claims[k]] = k /\ claims[k] \in Requests
        /\ BodyOf[claims[k]] = BodyOf[r]
    BY <1>0, <1>1 DEF replayable, ApiInv, ApiTypeOK, ClaimsArePerformed
  <2>2. MovesOn(r, "done")
    BY <1>0, <1>1, <2>1 DEF MovesOn, answer, goTo, Phases
  <2>3. ApiInv'
    <3>1. /\ old' \subseteq Keys /\ revoked' \in BOOLEAN /\ racedFirst' \in BOOLEAN
          /\ rate' \in [found : BOOLEAN, over : BOOLEAN, count : Nat] /\ admitted' \in Nat
      BY <1>0 DEF ApiInv, ApiTypeOK, rateVars
    <3> QED
      BY <2>2, <3>1, MovingOnKeepsInv
  <2>4. answers[r] = NONE
    BY <1>0 DEF ApiInv, OpenIsUnanswered
  <2>5. Promise!Replay(r)
    BY <1>0, <1>1, <2>1, <2>4 DEF Promise!Replay, Promise!Unanswered, answer, txVars
  <2> QED
    BY <2>3, <2>5 DEF Simulates, Promise!Next
<1>2. CASE ~replayable(r) /\ answer(r, REFUSED)
  BY <1>0, <1>2, TypesOfTheWindow, MovingOnSimulates DEF answer, goTo, Phases, rateVars
<1> QED
  BY <1>1, <1>2 DEF lookup

(***************************************************************************)
(* Retention: the sweep forgets claims and operations together.            *)
(***************************************************************************)
LEMMA ExpiringSimulates ==
  ASSUME ApiInv, NEW k \in Keys, expire(k) PROVE Simulates
<1>1. ApiInv'
  BY DEF expire, ApiInv, ApiTypeOK, ClaimsArePerformed, OpenIsUnanswered, txVars, rateVars
<1>2. Promise!Next
  BY DEF expire, txVars, Promise!Next, Promise!Expire
<1> QED
  BY <1>1, <1>2 DEF Simulates

LEMMA SweepingSimulates ==
  ASSUME ApiInv, sweepExpiredIdempotencyClaims PROVE Simulates
<1> USE DEF sweepExpiredIdempotencyClaims
<1>1. ApiTypeOK'
  <2>1. claims' \in [Keys -> Requests \cup {NONE}] /\ effects' \subseteq Requests
    BY DEF ApiInv, ApiTypeOK
  <2>2. \A j \in Keys : holder'[j] # NONE => claims'[j] = NONE
    BY DEF ApiInv, ApiTypeOK
  <2> QED
    BY <2>1, <2>2 DEF ApiInv, ApiTypeOK, rateVars
<1>2. ClaimsArePerformed'
  <2>1. \A j \in Keys : claims'[j] # NONE => claims'[j] \in effects' /\ KeyOf[claims'[j]] = j
    BY DEF ApiInv, ApiTypeOK, ClaimsArePerformed
  <2>2. \A e \in effects' : claims'[KeyOf[e]] = e
    BY ConstantFacts DEF ApiInv, ApiTypeOK, ClaimsArePerformed
  <2> QED
    BY <2>1, <2>2 DEF ClaimsArePerformed
<1>3. OpenIsUnanswered'
  BY DEF ApiInv, OpenIsUnanswered
<1>4. Promise!Next
  BY DEF Promise!Next, Promise!Forget
<1> QED
  BY <1>1, <1>2, <1>3, <1>4 DEF Simulates, ApiInv

(***************************************************************************)
(* Revocation and the passing of a window are not visible either.          *)
(***************************************************************************)
LEMMA OutsideSimulates ==
  ASSUME ApiInv, revokeApiKey \/ windowPasses PROVE Simulates
<1>1. /\ UNCHANGED <<phase, txVars, answers, old>>
      /\ revoked' \in BOOLEAN /\ racedFirst' \in BOOLEAN /\ admitted' \in Nat
      /\ rate' \in [found : BOOLEAN, over : BOOLEAN, count : Nat]
  BY TypesOfTheWindow DEF revokeApiKey, windowPasses, rateVars
<1>2. ApiInv'
  BY <1>1 DEF ApiInv, ApiTypeOK, ClaimsArePerformed, OpenIsUnanswered, txVars
<1> QED
  BY <1>1, <1>2 DEF Simulates, txVars

LEMMA EveryStepSimulates ==
  ApiInv /\ [ApiNext]_apiVars => Simulates
<1> SUFFICES ASSUME ApiInv, [ApiNext]_apiVars PROVE Simulates
  OBVIOUS
<1>1. ASSUME NEW r \in Requests, resolveApiKey(r) PROVE Simulates
  BY <1>1, ResolvingSimulates
<1>2. ASSUME NEW r \in Requests, Handling(r) PROVE Simulates
  BY <1>2, CountingSimulates, ConfirmingSimulates, ClaimingSimulates, CommittingSimulates,
     RefusingSimulates, LookingUpSimulates DEF Handling
<1>3. ASSUME NEW r \in Requests, crash(r) PROVE Simulates
  BY <1>3, CrashingSimulates
<1>4. ASSUME NEW k \in Keys, expire(k) PROVE Simulates
  BY <1>4, ExpiringSimulates
<1>5. CASE sweepExpiredIdempotencyClaims
  BY <1>5, SweepingSimulates
<1>6. CASE revokeApiKey \/ windowPasses
  BY <1>6, OutsideSimulates
<1>7. CASE UNCHANGED apiVars
  BY <1>7 DEF Simulates, ApiInv, ApiTypeOK, ClaimsArePerformed, OpenIsUnanswered, apiVars, txVars, rateVars
<1> QED
  BY <1>1, <1>2, <1>3, <1>4, <1>5, <1>6, <1>7 DEF ApiNext

-----------------------------------------------------------------------------
(***************************************************************************)
(* Only counting and the passing of a window touch the count.              *)
(***************************************************************************)
LEMMA CountingKeepsCount ==
  ASSUME ApiInv, CountIsAdmitted, NEW r \in Requests, consume(r) \/ countFirst(r)
  PROVE  CountIsAdmitted'
<1>0. /\ Limit \in Nat /\ Limit >= 1
      /\ rate.count \in Nat /\ admitted \in Nat /\ rate.found \in BOOLEAN /\ rate.over \in BOOLEAN
  BY ConstantFacts, TypesOfTheWindow
<1>1. CASE consume(r) /\ rate.found /\ evaluateRateLimit(rate)
  <2>1. /\ rate' = [found |-> TRUE, over |-> FALSE, count |-> used(rate) + 1]
        /\ admitted' = (IF rate.over THEN 1 ELSE admitted + 1)
        /\ racedFirst' = racedFirst
    BY <1>1 DEF consume
  <2>2. rate'.count = used(rate) + 1 /\ rate'.found
    BY <2>1
  <2> QED
    BY <1>0, <1>1, <2>1, <2>2 DEF CountIsAdmitted, used, evaluateRateLimit
<1>2. CASE consume(r) /\ ~(rate.found /\ evaluateRateLimit(rate))
  BY <1>2 DEF consume, CountIsAdmitted
<1>3. CASE countFirst(r)
  <2>1. rate'.count = 1 /\ rate'.found /\ admitted' = admitted + 1
    BY <1>3 DEF countFirst
  <2>2. ~racedFirst' => ~racedFirst /\ ~rate.found
    BY <1>3 DEF countFirst
  <2>3. ~racedFirst' => admitted = 0
    BY <2>2 DEF CountIsAdmitted
  <2> QED
    BY <1>0, <2>1, <2>3 DEF CountIsAdmitted
<1> QED
  BY <1>1, <1>2, <1>3

LEMMA EveryStepKeepsCount ==
  ApiInv /\ CountIsAdmitted /\ [ApiNext]_apiVars => CountIsAdmitted'
<1> SUFFICES ASSUME ApiInv, CountIsAdmitted, [ApiNext]_apiVars PROVE CountIsAdmitted'
  OBVIOUS
<1>1. ASSUME NEW r \in Requests, consume(r) \/ countFirst(r) PROVE CountIsAdmitted'
  BY <1>1, CountingKeepsCount
<1>2. CASE windowPasses
  <2>1. rate'.found = rate.found /\ rate'.count = rate.count
    BY <1>2, TypesOfTheWindow DEF windowPasses
  <2> QED
    BY <1>2, <2>1 DEF windowPasses, CountIsAdmitted
<1>3. CASE UNCHANGED rateVars
  BY <1>3 DEF CountIsAdmitted, rateVars
<1>4. ASSUME NEW r \in Requests,
             \/ resolveApiKey(r) \/ confirmKeyInScope(r) \/ insertClaim(r)
             \/ commit(r) \/ refuse(r) \/ lookup(r) \/ crash(r)
      PROVE  UNCHANGED rateVars
  BY <1>4 DEF resolveApiKey, confirmKeyInScope, insertClaim, commit, refuse, lookup, crash
<1>5. ASSUME (\E k \in Keys : expire(k)) \/ sweepExpiredIdempotencyClaims \/ revokeApiKey
      PROVE  UNCHANGED rateVars
  BY <1>5 DEF expire, sweepExpiredIdempotencyClaims, revokeApiKey
<1>6. CASE UNCHANGED apiVars
  BY <1>6, <1>3 DEF apiVars
<1> QED
  BY <1>1, <1>2, <1>3, <1>4, <1>5, <1>6 DEF ApiNext, Handling

-----------------------------------------------------------------------------
LEMMA ApiInvariant == ApiSpec => [](ApiInv /\ CountIsAdmitted)
<1>1. ApiInv /\ [ApiNext]_apiVars => ApiInv'
  BY EveryStepSimulates DEF Simulates
<1> QED
  BY <1>1, InitEstablishesApiInv, EveryStepKeepsCount, PTL DEF ApiSpec

(***************************************************************************)
(* ApiTypeOK: a claim's slot is held exactly by the request that works     *)
(* under it (withIdempotencyClaim).                                        *)
(***************************************************************************)
THEOREM ApiTypeCorrect == ApiSpec => []ApiTypeOK
  BY ApiInvariant, PTL DEF ApiInv

(***************************************************************************)
(* KeyPerformsOnce: for any requests, keys and bodies, with crashes,       *)
(* concurrent repeats and the sweep, the pipeline implements the promise   *)
(* of an idempotency key.                                                  *)
(***************************************************************************)
THEOREM ApiKeepsThePromise == ApiSpec => KeyPerformsOnce
<1>1. ApiInit => Promise!Init
  BY DEF ApiInit, Promise!Init
<1>2. ApiInv /\ [ApiNext]_apiVars => [Promise!Next]_<<effects, answers, old>>
  BY EveryStepSimulates DEF Simulates
<1>3. [Promise!Next]_<<effects, answers, old>> => [Promise!Next]_(Promise!idemVars)
  BY DEF Promise!idemVars
<1> QED
  BY <1>1, <1>2, <1>3, ApiInvariant, PTL DEF ApiSpec, KeyPerformsOnce, Promise!Spec

(***************************************************************************)
(* AdmittedWithinLimit: for any limit and number of requests a window      *)
(* admits no more than its limit, unless requests raced for the first row  *)
(* (RateLimiter.consume).                                                  *)
(***************************************************************************)
THEOREM LimitHolds == ApiSpec => []AdmittedWithinLimit
<1>1. ApiInv /\ CountIsAdmitted => AdmittedWithinLimit
  BY ConstantFacts, TypesOfTheWindow DEF CountIsAdmitted, AdmittedWithinLimit
<1> QED
  BY <1>1, ApiInvariant, PTL
=============================================================================
