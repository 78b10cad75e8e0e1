----------------------------- MODULE Preparation -----------------------------
(***************************************************************************)
(* A settlement up to its authorization: creation (T01), the preflight.run *)
(* job (T02-T04, T06), quotes (Q01-Q04), quote expiry (T07), authorization *)
(* (T08) and cancellation (T25)                                            *)
(* (packages/app/src/settlement.service.ts, preflight-job.service.ts,      *)
(* quote.service.ts, security-policy.service.ts).                          *)
(*                                                                         *)
(* attachQuote, expireAttachedQuote and authorizeSettlement read the quote *)
(* and the settlement without a lock and write later in the transaction;   *)
(* they are two steps, a read and a write, and now() is the transaction's  *)
(* start.  A call that is refused after writing commits what it wrote,     *)
(* except under the API, whose handlers raise.                             *)
(***************************************************************************)
EXTENDS SettlementMachine, Pricing, Preflight, Functions

CONSTANTS
  Settlements, Quotes,
  MaxCalls,       \* bound: concurrent calls of attach, expire and authorize
  LargeAmount,    \* the threshold of the reference rules
  Requests,       \* bound: what customers ask for
  QuoteAmounts,   \* bound: amounts that are quoted
  MaxVersion,     \* bound: versions of the beneficiary's destination
  QuoteTTL,       \* validitySeconds, in ticks
  MaxClock,       \* bound: ticks
  MaxCrashes,     \* bound: deaths of a preflight worker
  NONE

ASSUME PreparationAssumption ==
  /\ \A r \in Requests : r.amount \in Nat \ {0}
  /\ QuoteAmounts \subseteq Nat \ {0} /\ MaxCalls \in Nat
  /\ MaxVersion \in Nat \ {0}
  /\ LargeAmount \in Nat /\ QuoteTTL \in Nat /\ MaxClock \in Nat /\ MaxCrashes \in Nat
  /\ NONE \notin Settlements \cup Quotes

VARIABLES
  row,            \* settlements: the columns the state machine is about
  instruction,    \* settlements: amount, purpose, creator, quote_id and authorized_terms
  quotes,         \* quotes
  clock,          \* the database clock
  destination,    \* the beneficiary's destination: current version and verifications
  policy,         \* workspace_security_policies.separation_of_duties_enabled
  job,            \* the preflight.run job of each settlement and where its worker is
  calls,          \* calls in flight: what each has read and not written yet
  crashes

prepVars == <<row, instruction, quotes, clock, destination, policy, job, calls, crashes>>

People     == {"maker", "checker"}
Principals == People \cup {"api_key"}
Versions   == 1..MaxVersion

NoRow     == [status |-> "NONE", enteredFrom |-> "NONE", cancelRequested |-> FALSE,
              pastPonr |-> FALSE]
NoTerms   == [stored |-> << >>, hash |-> << >>, by |-> "NONE", via |-> "NONE"]
NoInstruction == [amount |-> 0, purpose |-> FALSE, creator |-> "NONE", named |-> NONE,
                  quote |-> NONE, terms |-> NoTerms]
NoQuote   == [status |-> "NONE", direction |-> "NONE", recipient |-> 0, funding |-> 0,
              fees |-> << >>, expiresAt |-> 0, consumedBy |-> NONE]

(***************************************************************************)
(* Calls may be alike: a number tells them apart.                          *)
(***************************************************************************)
StartCall(call) ==
  LET numbered(n) == [call EXCEPT !.no = n]
  IN  /\ Cardinality(calls) < MaxCalls
      /\ calls' = calls \cup {numbered(CHOOSE n \in 1..MaxCalls : numbered(n) \notin calls)}

CallsOf(op) == {call \in calls : call.op = op}

-----------------------------------------------------------------------------
(* Quotes *)

QuoteTransitions ==
  {[trigger |-> "create",  from |-> {"NONE"},             to |-> "ACTIVE"],     \* Q01
   [trigger |-> "lock",    from |-> {"ACTIVE"},           to |-> "LOCKED"],     \* Q02
   [trigger |-> "consume", from |-> {"ACTIVE", "LOCKED"}, to |-> "CONSUMED"],   \* Q03
   [trigger |-> "expire",  from |-> {"ACTIVE", "LOCKED"}, to |-> "EXPIRED"]}    \* Q04

(***************************************************************************)
(* transitionQuote: the row it writes under the quote's lock; a refused    *)
(* move leaves the row alone.                                              *)
(***************************************************************************)
QuoteRefused(quote, trigger) ==
  ~\E t \in QuoteTransitions : t.trigger = trigger /\ quote.status \in t.from

transitionQuote(quote, trigger, consumer) ==
  IF QuoteRefused(quote, trigger) THEN quote
  ELSE LET t == CHOOSE u \in QuoteTransitions : u.trigger = trigger /\ quote.status \in u.from
       IN  [quote EXCEPT !.status = t.to,
                         !.consumedBy = IF t.to = "CONSUMED" THEN consumer ELSE @]

(***************************************************************************)
(* The trigger reject_quote_mutation: a price does not change, a quote     *)
(* that reached an end stays there, and it has one consumer.               *)
(***************************************************************************)
reject_quote_mutation(old, new) ==
  /\ \A column \in {"direction", "recipient", "funding", "fees", "expiresAt"} :
       new[column] = old[column]
  /\ old.status \in {"CONSUMED", "EXPIRED"} => new.status = old.status
  /\ old.consumedBy # NONE => new.consumedBy = old.consumedBy

QuotesMayChange == \A q \in Quotes : reject_quote_mutation(quotes[q], quotes'[q])

createQuote(q, direction, amount) ==
  LET price == priceQuote(direction, amount)
  IN  /\ quotes[q].status = "NONE"
      /\ mayPrice(TRUE)
      /\ quotes' = [quotes EXCEPT ![q] =
           [status |-> "ACTIVE", direction |-> direction, recipient |-> price.recipient,
            funding |-> price.funding, fees |-> price.fees, expiresAt |-> clock + QuoteTTL, consumedBy |-> NONE]]
      /\ UNCHANGED <<row, instruction, clock, destination, policy, job, calls, crashes>>

Due == {q \in Quotes : quotes[q].status \in {"ACTIVE", "LOCKED"} /\ quotes[q].expiresAt < clock}

expireDueQuotes ==
  /\ Due # {}
  /\ quotes' = [q \in Quotes |-> IF q \in Due THEN [quotes[q] EXCEPT !.status = "EXPIRED"]
                                             ELSE quotes[q]]
  /\ QuotesMayChange
  /\ UNCHANGED <<row, instruction, clock, destination, policy, job, calls, crashes>>

-----------------------------------------------------------------------------
(* Creation and the environment of a settlement *)

createSettlement(s, request) ==
  /\ row[s].status = "NONE"
  /\ row' = [row EXCEPT ![s].status = "DRAFT"]
  /\ instruction' = [instruction EXCEPT ![s] =
       [NoInstruction EXCEPT !.amount = request.amount, !.purpose = request.purpose,
                             !.creator = request.creator, !.named = request.named]]

(***************************************************************************)
(* The handler writes the DRAFT and its preflight job in one transaction.  *)
(***************************************************************************)
createSettlementHandler(s, request) ==
  /\ createSettlement(s, request)
  /\ job' = [job EXCEPT ![s] = "queued"]
  /\ UNCHANGED <<quotes, clock, destination, policy, calls, crashes>>

tick ==
  /\ clock < MaxClock
  /\ clock' = clock + 1
  /\ UNCHANGED <<row, instruction, quotes, destination, policy, job, calls, crashes>>

(***************************************************************************)
(* Editing the destination appends an unverified version and makes it the  *)
(* current one; a verification answers about one version.                  *)
(***************************************************************************)
editDestination ==
  /\ destination.current < MaxVersion
  /\ destination' = [destination EXCEPT !.current = @ + 1]
  /\ UNCHANGED <<row, instruction, quotes, clock, policy, job, calls, crashes>>

verifyDestination(v, answer) ==
  /\ v <= destination.current
  /\ destination.verification[v] \notin {"verified", answer}
  /\ destination' = [destination EXCEPT !.verification[v] = answer]
  /\ UNCHANGED <<row, instruction, quotes, clock, policy, job, calls, crashes>>

setSeparationOfDuties(enabled) ==
  /\ policy # enabled
  /\ policy' = enabled
  /\ UNCHANGED <<row, instruction, quotes, clock, destination, job, calls, crashes>>

-----------------------------------------------------------------------------
(* Preflight *)

BeneficiaryStatus ==
  IF destination.current = 0 THEN "draft"
  ELSE IF destination.verification[destination.current] = "verified" THEN "verified"
  ELSE "pending_verification"

buildPreflightSubject(s, facility) ==
  [destination        |-> IF destination.current = 0 THEN "none"
                          ELSE destination.verification[destination.current],
   beneficiary_status |-> BeneficiaryStatus,
   purpose            |-> instruction[s].purpose,
   live               |-> TRUE,
   facility           |-> facility,
   large              |-> instruction[s].amount >= LargeAmount]

Passes(s, facility) == Blocking(runPreflight(buildPreflightSubject(s, facility))) = {}

(***************************************************************************)
(* applyTransition on settlement s; Moves says whether it is accepted.     *)
(***************************************************************************)
Moves(s, trigger, answers) == ~Refused(row[s], trigger, answers)

Moved(s, trigger, answers) ==
  Applied(row[s], CHOOSE t \in Permitted(row[s], trigger, answers) : TRUE)

(***************************************************************************)
(* runPreflightJob: the pre-state, then one transaction per transition.    *)
(* The queue forgets a job when its worker returns.                        *)
(***************************************************************************)
takeJobMidway(s) ==   \* mutant: only a settlement already PREFLIGHTING is worked on
  /\ job[s] = "queued"
  /\ job' = [job EXCEPT ![s] = IF row[s].status = "PREFLIGHTING" THEN "starting" ELSE "done"]
  /\ UNCHANGED <<row, instruction, quotes, clock, destination, policy, calls, crashes>>

takeJob(s) ==
  /\ job[s] = "queued"
  /\ job' = [job EXCEPT ![s] = IF row[s].status \in {"DRAFT", "PREFLIGHTING"}
                                 THEN "starting" ELSE "done"]
  /\ UNCHANGED <<row, instruction, quotes, clock, destination, policy, calls, crashes>>

startPreflight(s) ==
  LET answers == IF instruction[s].purpose THEN {"beneficiary_amount_purpose_present"} ELSE {}
  IN  /\ job[s] = "starting"
      /\ \/ /\ Moves(s, "run_preflight", answers)
            /\ row' = [row EXCEPT ![s] = Moved(s, "run_preflight", answers)]
            /\ job' = [job EXCEPT ![s] = "completing"]
         \/ /\ ~Moves(s, "run_preflight", answers)
            /\ job' = [job EXCEPT ![s] = "done"]
            /\ UNCHANGED row
      /\ UNCHANGED <<instruction, quotes, clock, destination, policy, calls, crashes>>

completePreflight(s, facility) ==
  LET passed  == Passes(s, facility)
      trigger == IF passed THEN "preflight_passed" ELSE "preflight_blocked"
      answers == IF passed THEN {"no_blocking_requirements"} ELSE {"has_blocking_requirements"}
  IN  /\ job[s] = "completing"
      /\ Moves(s, trigger, answers)
      /\ row' = [row EXCEPT ![s] = Moved(s, trigger, answers)]
      /\ job' = [job EXCEPT ![s] = IF passed /\ instruction[s].named # NONE THEN "attaching"
                                                                            ELSE "done"]
      /\ UNCHANGED <<instruction, quotes, clock, destination, policy, calls, crashes>>

(***************************************************************************)
(* The worker dies: the queue gives the job to another one.                *)
(***************************************************************************)
crashWorker(s) ==
  /\ crashes < MaxCrashes
  /\ job[s] \in {"starting", "completing", "attaching"}
  /\ job' = [job EXCEPT ![s] = "queued"]
  /\ crashes' = crashes + 1
  /\ UNCHANGED <<row, instruction, quotes, clock, destination, policy, calls>>

-----------------------------------------------------------------------------
(* Attaching a quote (T06) and dropping an expired one (T07) *)

attachable(s, q) ==
  /\ quotes[q].status = "ACTIVE"
  /\ quotes[q].consumedBy = NONE
  /\ clock <= quotes[q].expiresAt
  /\ quotes[q].recipient = instruction[s].amount

(***************************************************************************)
(* A call that finds the quote unusable is refused and writes nothing, so  *)
(* only the others go on.  The settlement's status is asked only by T06,   *)
(* when it is written.  The job ends either way.                           *)
(***************************************************************************)
readForAttach(s, q) ==
  /\ row[s].status # "NONE"
  /\ job[s] = "attaching" => q = instruction[s].named
  /\ job[s] \in {"attaching", "done"}
  /\ attachable(s, q)
  /\ StartCall([no |-> 0, op |-> "attach", settlement |-> s, quote |-> q])
  /\ job' = [job EXCEPT ![s] = "done"]
  /\ UNCHANGED <<row, instruction, quotes, clock, destination, policy, crashes>>

attachIsRefused(s) ==
  /\ job[s] = "attaching"
  /\ ~attachable(s, instruction[s].named)
  /\ job' = [job EXCEPT ![s] = "done"]
  /\ UNCHANGED <<row, instruction, quotes, clock, destination, policy, calls, crashes>>

(***************************************************************************)
(* settlements_quote_once: no other settlement cites the quote.            *)
(***************************************************************************)
heldElsewhere(s, q) == \E t \in Settlements \ {s} : instruction[t].quote = q

(***************************************************************************)
(* The outcome of locking the quote is not looked at; a quote another      *)
(* settlement cites raises and rolls everything back.                      *)
(***************************************************************************)
attachQuote(call) ==
  LET s == call.settlement
      q == call.quote
      answers == {"quote_attachable"}
  IN  /\ calls' = calls \ {call}
      /\ \/ /\ Moves(s, "attach_quote", answers)
            /\ ~heldElsewhere(s, q)
            /\ row' = [row EXCEPT ![s] = Moved(s, "attach_quote", answers)]
            /\ instruction' = [instruction EXCEPT ![s].quote = q]
            /\ quotes' = [quotes EXCEPT ![q] = transitionQuote(@, "lock", NONE)]
            /\ QuotesMayChange
         \/ /\ Moves(s, "attach_quote", answers) => heldElsewhere(s, q)
            /\ UNCHANGED <<row, instruction, quotes>>
      /\ UNCHANGED <<clock, destination, policy, job, crashes>>

readForExpiry(s) ==
  /\ row[s].status = "QUOTED"
  /\ clock > quotes[instruction[s].quote].expiresAt
  /\ StartCall([no |-> 0, op |-> "expire", settlement |-> s, quote |-> instruction[s].quote])
  /\ UNCHANGED <<row, instruction, quotes, clock, destination, policy, job, crashes>>

expireAttachedQuote(call) ==
  LET s == call.settlement
      answers == {"quote_expired_by_server_clock"}
  IN  /\ calls' = calls \ {call}
      /\ IF Moves(s, "quote_expired", answers)
           THEN /\ row' = [row EXCEPT ![s] = Moved(s, "quote_expired", answers)]
                /\ instruction' = [instruction EXCEPT ![s].quote = NONE]
                /\ quotes' = [quotes EXCEPT ![call.quote] =
                                transitionQuote(@, "expire", NONE)]
                /\ QuotesMayChange
           ELSE UNCHANGED <<row, instruction, quotes>>
      /\ UNCHANGED <<clock, destination, policy, job, crashes>>

-----------------------------------------------------------------------------
(* Authorization (T08) and cancellation (T25) *)

separationAllowsAnyone(s, actor) == TRUE   \* mutant: only the capability is checked

evaluateSeparationOfDuties(s, actor) ==
  policy => actor \in People \ {instruction[s].creator}

quoteValid(s) ==
  LET quote == quotes[instruction[s].quote]
  IN  /\ quote.status \in {"ACTIVE", "LOCKED"}
      /\ quote.consumedBy = NONE
      /\ clock <= quote.expiresAt
      /\ quote.recipient = instruction[s].amount

destinationVerified ==
  /\ destination.current # 0
  /\ destination.verification[destination.current] = "verified"

(***************************************************************************)
(* freezeInstruction: the terms by value, from the rows that were read.    *)
(***************************************************************************)
freezeInstruction(s) ==
  LET quote == quotes[instruction[s].quote]
  IN  [quote |-> instruction[s].quote, recipient |-> quote.recipient,
       funding |-> quote.funding, direction |-> quote.direction,
       fees |-> quote.fees, version |-> destination.current]

(***************************************************************************)
(* The same fees in the order of their codes, which are unique.            *)
(***************************************************************************)
sortedByCode(fees) ==
  CHOOSE sorted \in [DOMAIN fees -> Range(fees)] :
    /\ Range(sorted) = Range(fees)
    /\ \A i, j \in DOMAIN fees : i < j => sorted[i].code < sorted[j].code

(***************************************************************************)
(* What is stored and hashed: the instruction with its fees by code.  The  *)
(* digest stands for its preimage.                                         *)
(***************************************************************************)
canonicalInstructionObject(i) == [i EXCEPT !.fees = sortedByCode(@)]

authorizedTermsHash(i) == canonicalInstructionObject(i)

(***************************************************************************)
(* The instruction read back from the stored object, whose keys have no    *)
(* order, is hashed again.                                                 *)
(***************************************************************************)
instructionMatchesHash(stored, hash) ==
  authorizedTermsHash([column \in DOMAIN stored |-> stored[column]]) = hash

(***************************************************************************)
(* Everything authorizeSettlement reads.  A refusal writes nothing that    *)
(* lasts but an audit record, so the calls that go on are the accepted     *)
(* ones.  The API is called with a key, a batch by a person or a key.      *)
(***************************************************************************)
readForAuthorization(s, actor, via, facility) ==
  /\ instruction[s].quote # NONE
  /\ via = "api" => actor = "api_key"
  /\ quoteValid(s)
  /\ destinationVerified
  /\ Passes(s, facility)
  /\ facility
  /\ evaluateSeparationOfDuties(s, actor)
  /\ LET frozen == freezeInstruction(s)
     IN  StartCall([no |-> 0, op |-> "authorize", settlement |-> s,
           frozen |-> [stored |-> canonicalInstructionObject(frozen),
                       hash |-> authorizedTermsHash(frozen), by |-> actor, via |-> via]])
  /\ UNCHANGED <<row, instruction, quotes, clock, destination, policy, job, crashes>>

AuthorizationAnswers ==
  {"quote_valid_for_authorization", "beneficiary_verified", "destination_version_verified",
   "actor_may_authorize", "preflight_still_passing", "active_liquidity_facility"}

frozenAtWrite(call) ==   \* mutant: the version is read again when the terms are written
  [call.frozen EXCEPT !.stored.version = destination.current]

frozenAsRead(call) == call.frozen

commitsAnyRefusal(call) == TRUE   \* mutant: the API commits what a refused call wrote

commitsRefusal(call) == call.frozen.via # "api"

(***************************************************************************)
(* T08 and then the quote's consumption.  A consumption that is refused    *)
(* makes the call a refusal after T08: the API rolls back, authorizeBatch  *)
(* commits.                                                                *)
(***************************************************************************)
authorizeSettlement(call) ==
  LET s == call.settlement
      q == call.frozen.stored.quote
  IN  /\ calls' = calls \ {call}
      /\ \/ /\ Moves(s, "authorize", AuthorizationAnswers)
            /\ QuoteRefused(quotes[q], "consume") => commitsRefusal(call)
            /\ row' = [row EXCEPT ![s] = Moved(s, "authorize", AuthorizationAnswers)]
            /\ instruction' = [instruction EXCEPT ![s].terms = frozenAsRead(call)]
            /\ quotes' = [quotes EXCEPT ![q] = transitionQuote(@, "consume", s)]
            /\ QuotesMayChange
         \/ /\ \/ ~Moves(s, "authorize", AuthorizationAnswers)
               \/ QuoteRefused(quotes[q], "consume") /\ ~commitsRefusal(call)
            /\ UNCHANGED <<row, instruction, quotes>>
      /\ UNCHANGED <<clock, destination, policy, job, crashes>>

(***************************************************************************)
(* T25.  The quote stays LOCKED and cited.                                 *)
(***************************************************************************)
cancelSettlement(s) ==
  /\ Moves(s, "cancel", {"actor_may_cancel"})
  /\ row' = [row EXCEPT ![s] = Moved(s, "cancel", {"actor_may_cancel"})]
  /\ UNCHANGED <<instruction, quotes, clock, destination, policy, job, calls, crashes>>

-----------------------------------------------------------------------------
PreparationInit ==
  /\ row = [s \in Settlements |-> NoRow]
  /\ instruction = [s \in Settlements |-> NoInstruction]
  /\ quotes = [q \in Quotes |-> NoQuote]
  /\ clock = 0
  /\ destination = [current |-> 0, verification |-> [v \in Versions |-> "unverified"]]
  /\ policy = TRUE
  /\ job = [s \in Settlements |-> "none"]
  /\ calls = {}
  /\ crashes = 0

worker(s) ==
  \/ takeJob(s)
  \/ startPreflight(s)
  \/ \E facility \in BOOLEAN : completePreflight(s, facility)

PreparationNext ==
  \/ \E q \in Quotes, direction \in {"RECIPIENT_FIRST", "SOURCE_FIRST"}, a \in QuoteAmounts :
       createQuote(q, direction, a)
  \/ expireDueQuotes
  \/ tick
  \/ editDestination
  \/ \E v \in Versions, answer \in {"verified", "failed"} : verifyDestination(v, answer)
  \/ \E enabled \in BOOLEAN : setSeparationOfDuties(enabled)
  \/ \E s \in Settlements :
       \/ \E request \in Requests : createSettlementHandler(s, request)
       \/ worker(s)
       \/ crashWorker(s)
       \/ cancelSettlement(s)
       \/ \E q \in Quotes : readForAttach(s, q)
       \/ attachIsRefused(s)
       \/ readForExpiry(s)
       \/ \E p \in Principals, via \in {"api", "batch"}, facility \in BOOLEAN :
            readForAuthorization(s, p, via, facility)
  \/ \E call \in CallsOf("attach") : attachQuote(call)
  \/ \E call \in CallsOf("expire") : expireAttachedQuote(call)
  \/ \E call \in CallsOf("authorize") : authorizeSettlement(call)

(***************************************************************************)
(* The job queue keeps handing out a job until a worker returns; the last  *)
(* step of the job needs no fairness for what is claimed.                  *)
(***************************************************************************)
PreparationSpec ==
  /\ PreparationInit
  /\ [][PreparationNext]_prepVars
  /\ \A s \in Settlements : WF_prepVars(takeJob(s)) /\ WF_prepVars(startPreflight(s))

-----------------------------------------------------------------------------
(* Properties *)

PreparationTypeOK ==
  /\ \A s \in Settlements :
       /\ row[s].status \in {"NONE", "DRAFT", "PREFLIGHTING", "ACTION_REQUIRED", "READY",
                            "QUOTED", "AUTHORIZED", "CANCELLED"}
       /\ instruction[s].quote \in Quotes \cup {NONE}
       /\ row[s].status = "QUOTED" => instruction[s].quote # NONE
       /\ row[s].status = "AUTHORIZED" <=> instruction[s].terms # NoTerms
  /\ \A q \in Quotes : quotes[q].status = "CONSUMED" <=> quotes[q].consumedBy # NONE
  /\ destination.current \in 0..MaxVersion

Authorized == {s \in Settlements : row[s].status = "AUTHORIZED"}

(***************************************************************************)
(* INV-14: a quote prices at most one settlement the API authorized,       *)
(* however the unlocked reads of attachQuote, expireAttachedQuote and      *)
(* authorizeSettlement interleave, and a quote names as its consumer the   *)
(* settlement that froze it.  A batch, which commits a refused call, may   *)
(* freeze a quote another settlement spent.                                *)
(***************************************************************************)
OneSettlementPerQuote ==
  /\ \A s, t \in Authorized :
       /\ instruction[s].terms.stored.quote = instruction[t].terms.stored.quote
       /\ "batch" \notin {instruction[s].terms.via, instruction[t].terms.via}
       => s = t
  /\ \A q \in Quotes : quotes[q].status = "CONSUMED" =>
       /\ quotes[q].consumedBy \in Authorized
       /\ instruction[quotes[q].consumedBy].terms.stored.quote = q

(***************************************************************************)
(* An authorized settlement has spent its quote: the quote is CONSUMED by  *)
(* it.  The one exception is the batch that commits T08 although the quote *)
(* was expired or spent elsewhere first; the API never leaves that state.  *)
(***************************************************************************)
AuthorizedQuoteIsSpent ==
  \A s \in Authorized :
    LET terms == instruction[s].terms
        quote == quotes[terms.stored.quote]
    IN  \/ quote.consumedBy = s
        \/ terms.via = "batch" /\ quote.status \in {"EXPIRED", "CONSUMED"}

(***************************************************************************)
(* The frozen price keeps the promise made to the recipient: it delivers   *)
(* exactly the amount of the settlement, no smaller funding amount would,  *)
(* it is the price of the quote it names, and what was stored still hashes *)
(* to the digest taken at authorization (drift check X1).                  *)
(***************************************************************************)
FrozenPriceDelivers ==
  \A s \in Authorized :
    LET terms == instruction[s].terms.stored
    IN  /\ terms.recipient = instruction[s].amount
        /\ terms.funding = quotes[terms.quote].funding
        /\ PriceIsExact(terms.direction, terms)
        /\ instructionMatchesHash(terms, instruction[s].terms.hash)

(***************************************************************************)
(* INV-11: the destination version an authorization froze is a verified    *)
(* one, also when the customer edits the destination while it runs.        *)
(***************************************************************************)
FrozenVersionIsVerified ==
  \A s \in Authorized : destination.verification[instruction[s].terms.stored.version] = "verified"

(***************************************************************************)
(* While separation of duties stays on, every settlement is authorized by  *)
(* a person who did not create it.                                         *)
(***************************************************************************)
FourEyes ==
  []policy => [](\A s \in Authorized :
                  instruction[s].terms.by \in People \ {instruction[s].creator})

(***************************************************************************)
(* Again and again no draft that names a purpose is left: as DRAFT is      *)
(* never entered twice, each of them is preflighted, although workers die  *)
(* and the job is redelivered.                                             *)
(***************************************************************************)
DraftIsPreflighted ==
  []<>(\A s \in Settlements : ~(row[s].status = "DRAFT" /\ instruction[s].purpose))

(***************************************************************************)
(* A quote is spent once, and by the settlement it priced (attachQuote,    *)
(* authorizeSettlement).                                                   *)
(***************************************************************************)
QuoteIsSpentOnce ==
  /\ PreparationTypeOK
  /\ OneSettlementPerQuote
  /\ AuthorizedQuoteIsSpent

(***************************************************************************)
(* The terms an authorization freezes are a price that delivers and a      *)
(* verified destination (authorizeSettlement, freezeInstruction).          *)
(***************************************************************************)
FrozenTermsHold == FrozenPriceDelivers /\ FrozenVersionIsVerified
=============================================================================
