# TLA+ models of INRSettling

INRSettling settles cross-border payments into India. A customer adds a beneficiary, gets
a quote and authorizes a settlement; the platform funds it from a liquidity facility, pays
the beneficiary through a payout provider, reconciles, and only then calls it settled and
issues a receipt. Everything is kept in Postgres. Services (`packages/app`) run one READ
COMMITTED transaction per call, pure decision tables live in `packages/domain`, and
triggers, CHECKs and unique indexes (`packages/db/migrations`) are the last line of
defence. Customers reach it through an HTTP API with idempotency keys, and hear of it
through webhooks.

The modules here model that whole path, one per component. TLC checks them on small
instances; TLAPS proves, for every value of the constants, the safety of the path from the
draft to the receipt, of the webhooks and of the idempotency of the API.

## 1. Inventory

| Component (sources) | State | Operations | Interacts with |
|---|---|---|---|
| Liquidity facility (`liquidity.service.ts`, `ops/liquidity.service.ts`, `domain/liquidity`, 0006) | facility row, reservations, repayments, ledger | reserve, release, expire, consume; request and advance a repayment; set limit, set status | funding leg, returns, sweepers, operators |
| Settlement state machine (`domain/settlements/transitions.ts`, `settlement-transition.service.ts`, 0005) | status, `exception_entered_from`, `cancellation_requested_at`, `point_of_no_return_at` | T01-T30 through `applyTransition` | every service that moves a settlement |
| Settlement lifecycle (`settlement.service.ts`, `ops/exception.service.ts`) | the row above, `settlement_exceptions` | dispatch, request and honour a cancellation, open and resolve exceptions | customers, sweepers, operators |
| Funding leg (`settlement-liquidity.service.ts`, `domain/liquidity/drawdown.ts`) | drawdowns | reserve in two transactions, request a drawdown, resolve it on evidence, compensate | facility, settlement, liquidity provider |
| Payout leg (`payout.service.ts`, `payout-webhook.service.ts`, `domain/payouts`) | payout attempts, provider events | dispatch, submit, acknowledge, ingest a webhook, sweep, pull, retry | settlement, payout provider |
| Preparation (`settlement.service.ts`, `quote.service.ts`, `preflight-job.service.ts`, `security-policy.service.ts`) | drafts, preflight jobs, quotes, frozen terms | T01-T08, T25; create, lock, expire and consume a quote | preflight rules, pricing, beneficiaries |
| Preflight rules, pricing (`domain/preflight`, `domain/quotes`, `packages/money`) | none: pure | raise requirements; price, convert, round | preparation |
| Reconciliation and finality (`reconciliation.service.ts`, `finality.service.ts`, 0009) | reconciliations, evaluations | observe, match, resolve, evaluate, settle | payout attempts, facility, receipts |
| Receipts (`receipt.service.ts`, `filesystem-store.ts`) | artifacts, jobs, objects | issue a receipt or notice, export a composite, print, read | finality, returns |
| Returns (`settlement-return.service.ts`) | returns N01-N07, `returned_total_minor` | observe, check, confirm, reject, escalate, repay | facility, payout provider |
| Beneficiaries and verification (`beneficiary.service.ts`, `verification.service.ts`, `name-match.ts`) | destination versions, checks, summary status | add, edit, disable; open a check, run it, take its callbacks | verification provider, preparation |
| Outbound webhooks (`webhook.service.ts`, `webhook-delivery.service.ts`, signatures) | endpoints, outbox, deliveries, attempts | create, rotate, delete, reopen; drain, attempt, replay, test | every event |
| Batches (`batch.service.ts`, `batches/csv.ts`, `handlers/batches.ts`) | batches, rows | import, refresh, authorize rows, close | settlements, idempotency claims |
| API pipeline (`api/idempotency.ts`, `api/rate-limit.service.ts`, `api/authentication.ts`, `pipeline.ts`) | claims, windows, keys | resolve, count, confirm, claim, perform, replay, sweep, revoke | every handler |
| Sessions, memberships, operator access | one row each | create, revoke, check on every request | HTTP |
| Job queue bridge (`packages/jobs`, 0002) | job rows | enqueue in the caller's transaction | all workers |
| Provider mocks, HTTP layers, read models, web application | none of the system's | route, project, render | |

What is hard in this code:

* **Unlocked reads.** `applyTransition` locks the settlement, but many callers read it, a
  quote, a check or a batch before, without the lock, and decide on what they saw.
* **Refusals commit.** A service that is refused returns a value; its transaction then
  commits what it had already written. Only an exception rolls back, and the API's
  handlers raise one where the batch's do not.
* **Two transactions, one operation.** A reservation, a preflight, an import and a refresh
  can be cut in half by a crash or by another call.
* **Calls outside a transaction.** A payout is submitted, a return or a beneficiary is
  checked and a webhook posted with no lock held; the answer is written later, after
  anything may have happened.
* **Unreliable delivery.** Callbacks are lost, delayed, reordered, repeated or first seen
  in a copy that cannot be trusted; submissions time out although the provider took them;
  jobs run twice.
* **A point of no return** that cancellation, exception and retry must respect.

`PROJECT.json` lists each hazard at its line with the properties that would catch it.

## 2. Modules

| Module | Models | Composed of |
|---|---|---|
| `Totals` | SQL `sum()` over a numbered table, as a recursive function | |
| `Liquidity` | one facility | `Totals` |
| `SettlementMachine` | the transition table, its evaluator, the row it writes, the row trigger; no variables | |
| `Settlement` | one settlement and everybody who moves it, with unlocked reads | `SettlementMachine` |
| `Funding` | several settlements on one facility | `Liquidity`, `SettlementMachine` |
| `Payout` | one funded settlement and the payout provider | `SettlementMachine` |
| `Preflight`, `Pricing` | the rules engine; exact money; no variables | |
| `Preparation` | several settlements and quotes up to authorization | `SettlementMachine`, `Preflight`, `Pricing` |
| `Finality` | one paid settlement: reconciliation, the verdict, artifacts and their printing | `SettlementMachine` |
| `Returns` | the returns of one settlement and the repayments they cause | `Liquidity` (instance), `Totals` |
| `NameMatch` | the comparison of names and the policies; no variables | |
| `Beneficiaries` | one beneficiary, its versions and their checks | `NameMatch` |
| `Webhooks` | endpoints, the outbox and its deliveries | |
| `Csv` | the parser and the renderer; no variables | |
| `Batches` | imports, rows, authorization and close | `Csv` |
| `Idempotency` | abstract: what a key promises | |
| `Api` | requests through the pipeline | `Idempotency` (refinement) |
| `*Proofs` | the theorems (section 4). Also in `FundingProofs`: `Liquidity`; in `FinalityProofs`: `Returns`; in `SettlementProofs`: `Beneficiaries`, `NameMatch`; in `PayoutProofs`: `Batches`, `Csv` | the modules they are about, `CommonProofs` |
| `CommonProofs` | lemmas about whole numbers, `Totals`, recursive functions and the transition table | `Totals`, `SettlementMachine` |
| `MC*` | instances for TLC: symmetry, amounts, files, names | |

One step is one transaction, unless the code reads without a lock what it writes later:
such a call is a step that reads and a step that writes, and everything else may come in
between. A refused call is no step, unless it had written something. Guards the code takes
from other aggregates are free where the other aggregate is not in the module. Triggers
and CHECKs are conjuncts of the step they could abort (`ProtectSettlementRow`,
`FacilityChecks`, `AttemptChecks`, `ReconciliationChecks`), never assumed to hold.

**Liquidity.** `facility`, `reservations`, `repayments` are the tables; `ledger` holds the
value posted per movement (entries are append-only and only their sums matter).
`PostMovement` is `postMovement`: the ledger pair, the figures and the table's CHECKs in one.

**SettlementMachine.** `Transitions` is the table. `Permitted(row, trigger, answers)` is
`evaluateTransition`, where `answers` is the set of guards the caller answered with true;
`Applied` is the row `applyTransition` writes, including the PONR stamp of T15 and
`exception_entered_from`; `ProtectSettlementRow` is the trigger, which can still abort a
permitted transition.

**Settlement.** The row, `settlement_exceptions` (the open row's `entered_from`) and
`calls`, the callers that have read and not yet applied.

**Funding.** The facility of `Liquidity`, a row and a drawdown per settlement, and
`reserving`, the calls between their two transactions. `applyOrReturnRefusal` is the idiom
of the services: take the transition or, if it is refused, commit what was written anyway.
A drawdown is resolved on the evidence of the answer (`matchesDrawdown`: signature,
currency, facility, amount); an answer that does not match settles nothing. The
reservation and repayment actions are those of `Liquidity`, not copies. `sweepReservation`
stands for a sweeper that the documentation describes and the repository does not contain.

**Payout.** `attempts` by number, `submitting` the jobs that have read an attempt or hold
an acknowledgement, `pulls` the answers fetched and not yet applied, `ingested` the stored
provider events, and `provider` the provider's own state per idempotency key. The provider
is external and *correct*: one payout per key, no contradiction, honest pulls. Its
webhooks may be lost, delayed and reordered; `interpretProviderCode` decides what a code
means, and an unknown code says nothing.

**Preparation.** `row`, `instruction` (amount, purpose, creator, attached quote, frozen
terms), `quotes`, the destination's versions and their verification, the separation of
duties policy, `job` (where each settlement's preflight worker is) and `calls`, the calls
of attach, expire and authorize between read and write, numbered because two of them may be
alike. A quote is priced by `Pricing`, a
draft judged by `Preflight`'s rules on its facts. `now()` is the start of a transaction.

**Finality.** `Pointer` is `settlements.payout_attempt_id`, which the dispatch sets and the
retry does not move. `gatherEvidence` reads through it. `store` is the object under each
artifact's key: absent, created and empty, or written in full by one worker; `printing` is
what each worker is in the middle of.

**Returns.** An instance of `Liquidity` whose causes of repayment are returns: migration
0009 keys live repayments by settlement and return. `checks` holds the provider's answers
in a caller's hands, `swept` the returns the watcher has selected and not yet escalated.

**Beneficiaries.** `reads`, `writes`: transactions that have read, and that have written
and not committed; `commit` derives the summary status from what was committed when the
transaction looked. `provider` is what the verification provider decided for each request;
an authenticated callback says what it decided (`deliverResult`), and any other is
misrouted, unreadable or not authenticated (`deliverOther`).

**Webhooks.** An attempt is a read, a post and a record, by a worker that may die or lose
its job in between. `previous` is the secret an overlap still accepts. `inARow` and
`overtaken` are history for one property: the failures in a row, and whether one of them
recorded a count that had changed since it was read.

**Batches.** An import is a step per transaction (lookup, container, row, preflight,
refresh); every refresh is a read and a write without a lock; a close decides on the rows
it listed. `pool` is the process's connections: an import holds the one of its request and
needs another for each of its transactions (`connectionFree`), so imports can wait on each
other. A file is a sequence of rows that `Csv` really renders and parses, line feeds,
carriage returns, both together and a byte-order mark included (`take`, `withoutMark`).
(`batch.service.ts` holds a NUL byte, the separator of the fingerprint's parts at line 163,
so some tools take it for a binary file.)

**Api.** `phase` is how far the pipeline has got with each request; `holder` the claim a
transaction has inserted and not committed: another insert waits for it, and may time out
into a refusal.

Mutated forms of some definitions, marked `\* mutant`, sit next to the definition they
vary. No specification uses them; each shows that a property fails if the code had that
bug, and `PROJECT.json` pairs them.

Left out of all modules: tenants, ids, timestamps (a deadline may pass at any time, except
the quotes' clock in `Preparation`), currencies, audit records, copy and formatting.

## 3. Runs

`tlc -workers 2 -config X.cfg M` in this directory; each ends in under four minutes.

| Run (cfg, module) | Shows |
|---|---|
| `liquidity` (MCLiquidity, MCLiquidity) | every sequence of service and operator calls keeps the figures equal to rows and ledger within the limit (`FacilityBalances`); repayments in flight are covered by what is drawn and restore once (`RepaymentsAreCovered`); no exposure is taken while suspended (`NoExposureWhileSuspended`) |
| `settlement` (MCSettlement, Settlement) | despite stale reads, dispatch and cancellation exclude each other and the PONR stamp tells the phase (`PointOfNoReturn`), the exception row, the status and the database trigger agree (`RowsAgree`), and an accepted cancellation takes effect (`CancellationTakesEffect`) |
| `funding` (MCFunding, MCFunding) | two settlements contending for one facility: funded means drawn and drawn means confirmed on matching evidence (`FundingIsBacked`), compensation gives back exactly what was taken (`CompensationMatchesFunding`), and the leg implements `LiquiditySpec` (`ImplementsLiquidity`) |
| `payout` (MCPayout, Payout) | one attempt in flight (`OneInFlight`), confirmations, credits and payments back each other (`CreditsAreBacked`), answers are final (`AnswerIsFinal`), and sweeper plus pull resolve every attempt (`EveryAttemptIsResolved`) |
| `payout_double` (MCPayoutDoublePay, Payout) | *violated*: a pull overtakes the submission, `not_found` ("says with authority that no money moved", `payout.service.ts:481`) is applied as a rejection, and the retry pays a second time |
| `preparation` (MCPreparation, MCPreparation) | one quote prices one settlement authorized through the API and is spent by it (`QuoteIsSpentOnce`); frozen terms deliver exactly what was promised to a verified version (`FrozenTermsHold`); two people as long as separation of duties stays on (`FourEyes`); a draft is preflighted through crashes (`DraftIsPreflighted`) |
| `finality` (MCFinality, Finality) | SETTLED rests on a zero-delta reconciliation and a credited attempt, and the receipt tells that story (`FinalityIsBacked`); artifacts and objects are written once (`ArtifactsAreWriteOnce`); matched settlements settle (`MatchedSettles`); every artifact gets an object (`EveryArtifactIsStored`) |
| `returns` (MCReturns, Returns) | confirmed returns stay within what was delivered (`ConfirmedWithinDelivered`), what is restored came back and never exceeds the drawdown (`RestorationIsExact`), no return is forgotten (`NoReturnIsForgotten`) |
| `beneficiaries` (MCBeneficiaries, MCBeneficiaries) | verified means the provider, asked about that version, supports the name, compared with the best possible matching of tokens (`VerifiedOnEvidence`); verdicts are final (`VerdictIsFinal`); a transaction nobody overlapped repairs the summary (`RefreshHeals`); every check ends (`EveryCheckEnds`) |
| `webhooks` (MCWebhooks, MCWebhooks) | the attempt log is the truth about a delivery (`LogTellsTheDelivery`), the circuit opens at exactly the limit of failed attempts in a row, and never on one delivery alone (`CircuitOpensInARow`), posts verify across a rotation (`SignedPostVerifies`), settled deliveries stay (`SettledDeliveryIsFinal`), nothing is stranded (`NothingIsStranded`) |
| `batches` (MCBatches, MCBatches) | a file becomes one batch and each line one answer (`ImportIsExact`), a completed batch is done (`CompletedIsDone`), nothing but an exhausted pool keeps imports from ending (`EveryImportEnds`), free text survives rendering and parsing (`RowsSurviveCsv`) |
| `api` (MCApi, MCApi) | the pipeline implements module `Idempotency` (`KeyPerformsOnce`), the limit holds except for racing first requests (`AdmittedWithinLimit`), no key stays in progress (`NoKeyIsStuck`) |

**Bounds, and why they are enough.**
*Liquidity*: two settlements, limits 0..3, two reservations and repayments, two
submissions of a repayment: contention for the last unit, a limit lowered under
outstanding value, a failed repayment overtaken by another and re-requested all occur.
*Settlement* has none: the row, the exception row and one call in progress per kind of
caller are finite, and two callers of one kind would repeat the same stale answers.
*Funding*: two settlements of one unit and a limit of 0..2, so that none, one or both fit;
answers match or have one flaw; re-requests (`MaxAttempt = 1`) are the business of
`liquidity`. *Payout*: two attempts (every property relates an attempt and its successor),
two submission jobs (a job retried while the first still runs), one pull at a time.
*Preparation*: two settlements compete for one quote, two calls at once, two versions of
the destination, a quote that lives one instant of two, one crash. A rate of 3/2 and a fee
of 35 basis points make both roundings inexact. *Finality*: two attempts, a receipt and one
composite, two workers: a race needs two and a pointer left behind needs a retry. *Returns*:
two returns of 1 or 2 out of 2 credited (or of an unstated credit) and 3 drawn, so that
shares round and two together exceed the cap; one manual repayment competes.
*Beneficiaries*: one destination, two versions, two checks, two calls at once, one crash:
an edit supersedes a running check. *Webhooks*: one endpoint and event, two workers, two
attempts, a circuit of three failures, one replay, rotation and fault; the outbox delivery,
its replay and the test event compete for one failure count. As in the code, where 20
failures open the circuit and `MAX_ATTEMPTS` is 14, a delivery has fewer attempts than the
circuit takes. The lost update needs two deliveries of one endpoint, not two endpoints: the
run opens circuits late by it; that one can also open early, when the reset of a delivery
in between is overwritten, takes a third delivery, which the theorem covers. *Batches*: two
imports that collide on file or key, a pool of two connections, which they can exhaust, or
of three, which they cannot, a caller who authorizes and one who closes, one crash, a file
with a bad row and text with a quote and a comma; closes that race each other are left to
the theorem. `References` are all texts up to three characters, of every class the parser
tells apart, enough to open, double and close a quote or to break a line, tried on the
first import. *Api*: three requests on one key (one
with another body) and one on another, limit 2.
The theorems remove the bounds of every run, for safety; the invariants they use were
checked by TLC before they were proved, on the runs' instances and, for *Preparation*, on
one settlement with two quotes, where a quote is replaced.

**Deadlock** is checked for the facility, whose limit can always be set. In every other
run the subject really ends (a settlement is SETTLED, a delivery settled, a request
answered), so it is not.

**Fairness** is weak unless said otherwise, and stated on what the platform's own workers
do. Nothing is assumed of customers, operators, lost callbacks or crashes.

| Spec | Assumed | Because |
|---|---|---|
| `SettlementSpec` | each funding call gets some answer (success, failure or timeout); the cancellation checkpoint keeps reading and completing | the watchers of `docs/STATE_MACHINES.md` section 9 |
| `PayoutSpec` | overdue attempts are swept, pulled and the pull applied; the provider decides a payout it took | the status poller of section 9 |
| `PreparationSpec` | a queued preflight job is taken and started | graphile-worker runs jobs until they return |
| `FinalitySpec` | finality is evaluated, jobs start and finish; strong fairness of `putIfAbsent`: a worker does not die every single time | the evaluator and the queue's retries |
| `ReturnsSpec` | the watcher selects and escalates; a repaid return is marked | the return watcher of section 9 |
| `BeneficiariesSpec` | as long as a begun transaction, a job or an unstored result has a step to do, some such step happens | the queue's retries and the provider's repetition; each happens finitely often |
| `WebhooksSpec` | the drain and the workers go on | the drain job and the queue |
| `BatchesSpec` | a running import goes on | the request that runs it |
| `ApiSpec` | a request that was let in is handled to its end or dies | the process that serves it |

## 4. Theorems

All theorems hold for every value of the constants. They assume only what the modules
state by name: `LiquidityAssumption`, `FundingAssumption`, `PayoutAssumption`,
`ApiAssumption`, `PreparationAssumption`, `FinalityAssumption`, `ReturnsAssumption`,
`BeneficiariesAssumption`, `WebhooksAssumption` and `BatchesAssumption` (bounds and limits
are naturals, positive where the code needs it; sentinels are no members; authorized, credited
and returned amounts are positive and within the limit's range; name-match policies pass the
code's own `inspectPolicy`; names are sequences; files are sequences of rows of text),
`ExceptionsAssumption` (codes are of the closed taxonomy), `PricingAssumption` (the rate is
positive and the fee rules pass the code's own `validatePricingConfig`) and
`TableIsUnambiguous`, which TLC evaluates on the table itself. The first column is the
module the theorem is about; section 2 says which `*Proofs` module holds it.

| Module | Theorem | States |
|---|---|---|
| `Liquidity` | `LiquidityTypeCorrect` | `[]LiquidityTypeOK` |
| | `FiguresMatchRows`, `LedgerAndLimitHold`, `FacilityIsSound` | `[]FacilityBalances`, in parts and together |
| | `RepaymentClaims`, `RepaymentsAreSound` | `[]RepaymentsAreCovered` |
| | `SuspensionStopsReservations` | `NoExposureWhileSuspended` |
| `Funding` | `FundingImplementsLiquidity` | `FundingSpec => ImplementsLiquidity` |
| | `FundingTypeCorrect` | `[]FundingTypeOK` |
| | `FundedExactlyWhenConfirmed`, `FundingIsSound` | `[]FundingIsBacked` |
| | `CompensationIsExact` | `[]CompensationMatchesFunding` |
| `Settlement` | `SettlementTypeCorrect` | `[]SettlementTypeOK` |
| | `PointOfNoReturnHolds`, `PointOfNoReturnIsSound` | `[]PointOfNoReturn` |
| | `OpenRowsAreExceptions`, `DatabaseAgrees`, `RowsAreSound` | `[]RowsAgree` |
| `Payout` | `PayoutTypeCorrect` | `[]PayoutTypeOK` |
| | `AttemptsAreExclusive` | `[]OneInFlight` |
| | `ConfirmationsAreBacked`, `CancelledIsNeverPaid`, `CreditsAreSound` | `[]CreditsAreBacked` |
| | `AnswersAreFinal` | `AnswerIsFinal` |
| `Preparation` | `PreparationInvariant` | `[]PreparationIInv` |
| | `QuotesAreSpentOnce` | `[]QuoteIsSpentOnce` |
| | `FrozenTermsAreSound` | `[]FrozenTermsHold` |
| | `SeparationHolds` | `FourEyes` |
| `Finality` | `FinalityInvariant` | `[]FinalityIInv` |
| | `FinalityIsSound` | `[]FinalityIsBacked` |
| | `ArtifactsAreKept` | `ArtifactsAreWriteOnce` |
| `Returns` | `WhatCameBackWasDelivered` | `[]ConfirmedWithinDelivered` |
| | `ReturnsRestoreExactly` | `[]RestorationIsExact` |
| `NameMatch` | `ScoreIsSupported` | `compareNames` never answers more than a one-to-one matching supports |
| `Beneficiaries` | `BenInvariant` | `[]BenInv` |
| | `VerificationsHaveEvidence` | `[]VerifiedOnEvidence` |
| | `VerdictsAreFinal` | `VerdictIsFinal` |
| | `RefreshesHeal` | `RefreshHeals` |
| `Webhooks` | `WebhooksInvariant` | `[]WebhooksIInv` |
| | `EventLogIsTrue` | `[]LogTellsTheDelivery` |
| | `CircuitBreaksOnFailures` | `CircuitOpensInARow` |
| | `RotationKeepsSignatures` | `[]SignedPostVerifies` |
| | `SettledStaysSettled` | `SettledDeliveryIsFinal` |
| `Csv`, `Batches` | `RowsSurvive` | `RowsSurviveCsv` |
| `Batches` | `ImportsAreExact` | `[]ImportIsExact` |
| | `ClosesAreDone` | `CompletedIsDone` |
| `Api` | `ApiTypeCorrect` | `[]ApiTypeOK` |
| | `ApiKeepsThePromise` | `ApiSpec => Promise!Spec` |
| | `LimitHolds` | `[]AdmittedWithinLimit` |

**Liquidity.** The inductive invariant `LiquidityInv` is the conjunction of the properties
with `AttemptsStartAtOne`: an inserted repayment has been submitted at least once.
`ClaimsAreCovered` speaks of histories without a re-request, and tells them by the attempt
number; without the conjunct a re-request could yield attempt 1 and the step would not
preserve it. The properties need each other: that a confirmation leaves drawn at or above
zero comes from the CHECK, that reserved stays above zero from its being a sum of rows.
The proof has one lemma per group of actions over three about data: what writing one row
does to a sum (`ReservationRowChange`, `RepaymentRowChange`) and that a posted movement
keeps the figures and the ledger together (`PostMovementKeepsLedger`). Those rest on
`CommonProofs`: `TotalUpdate` says that changing one entry of a table changes its total by
the difference. `Total` is a recursive function, so its lemmas go through
`IntervalInduction`, an induction over sets of numbers instead of predicates, which the
provers can instantiate.

**The table.** `TableFacts` states once what the proofs need of the thirty rows
(`RowFacts`), and is checked row by row. `AppliedIsRow`, `AppliedKeepsStamp` and
`AppliedIsLetThrough` lift it to the row `applyTransition` writes; no other proof opens
the table, apart from `ResolutionIsNotRefused`.

**Settlement.** `SettlementInv` adds `EnteredFromLive`: no exception was entered from a
terminal status. The stamp alone would allow a settlement in EXCEPTION that goes back to
SETTLED, and then `protect_settlement_row` would reject a resume the table permits.

**Funding.** `FundingImplementsLiquidity` needs only `LiquidityInv`: whatever a settlement
does is one call of the facility or none, and the only call whose argument is not an
authorized amount, the repayment of a compensation, is legal because it is at most what
is outstanding, which is at most what is drawn, hence within the limit. For the other
properties `FundingInv` adds that every reservation is for its settlement's authorized
amount (`AmountsAreAuthorized`) and, per settlement (`SettlementOK`), that an open
exception row means EXCEPTION, that a settlement with a drawdown row never goes back to
before it asked for one, and that no exception is entered from DRAWDOWN_CONFIRMED. Without
the second, a drawdown could be requested again over a CONFIRMED one; without the third, a
resume could reach DRAWDOWN_CONFIRMED unfunded; without the first, the operator's
compensation could commit while its transition is refused.

**Payout.** `PayoutInv` adds that attempts exist only once the settlement was dispatched
(`AttemptsAreDispatched`), that jobs and the provider know only attempts that exist
(`PayoutsHaveAttempts`), that a credit pulled and not yet applied is of a payment
(`PulledCreditHasPayment`), and that no exception resumes to PAYOUT_CONFIRMED
(`NoResumeToConfirmed`). The unlocked read is why `PulledCreditHasPayment` is needed: the
answer is applied later, in a state of which only the invariant is known.

**Preparation.** Three parts of `PreparationIInv` are about settlements and quotes: an
authorized settlement's terms are those of a quote at its price, for a verified version
(`TermsAreFrozen`); that quote is spent by it or, for a batch only, expired or spent
elsewhere (`QuoteIsSpent`); and the consumer of a quote froze it (`ConsumerFroze`). The
fourth, `CallIsSound`, is about the calls between read and write: what one has read and
frozen is still a price of an existing quote and a version that was verified, because a
quote's price never changes (`QuotesAreKept`, which `reject_quote_mutation` enforces), an
amount is written once (`SettlementsAreKept`) and a verification is never taken back
(`VerificationsAreKept`). These are facts about two states, proved of every step first
(`Kept`). Which quote the row cites is *not* kept, and no part of the invariant says that
it is: that is how the observations of section 6 were found. Two results are about data.
`PricesAreExact`: for every rate and amount the two roundings deliver exactly the promise,
and no smaller amount would, from `DivisionBounds` alone. `StoredMatchesHash`: the digest of
the stored terms is the digest taken at authorization, because an increasing rearrangement
of fees with distinct codes exists (`SortingExists`, by insertion) and is unique, so that
sorting twice is sorting once (`SortingTwice`). `FourEyes` is proved of behaviours whose
policy stays on: `OtherEyes` says of every authorization, begun or done, that its actor is a
person other than the creator.

**Finality.** `FinalityIInv` joins the leg (`LegInv`), the printing (`PrintInv`) and the
receipt. `SettledOnEvidence` is not inductive as it stands: SETTLED can also be reached by
a resume unless no exception was entered from a terminal status (`EnteredFromLive`);
MATCHED must mean the promised amount, also when an operator asserts it
(`MatchedAsPromised`); a retry must not touch the attempt the row names
(`AuthorizedVersionPaid`); and a reconciliation opened in time finds the settlement in
RECONCILING or later (`OpenedInTime`), which tells it from the early one of section 6. For
the objects, `SoleWriter` says that a worker that writes is alone with an object that is
still empty: the exclusive create gives it, and every crash and repeated job keeps it.

**Returns.** `ReturnsInv` says that the counter on the attempt covers what came back
(`CounterCovers`), that the facility stays within its CHECKs at the limit it was drawn to,
and that a return, the repayment it caused and its notice name each other: the repayment is
for the return's share (`RepaymentIsLinked`), the return cites that one and has its notice
(`ReturnIsLinked`). The total is the difficulty, since each share
is rounded down and the sums run over two tables: `SharesAreWithinDrawdown` goes from repayments to returns by an
injection (`OneRestorationPerSettlement` makes it one), from the shares' sum to the share of
the sum by `RoundedDown`, and from there to the drawdown because what came back was
delivered.

**Beneficiaries.** `BenInv` follows a verdict from the provider to the summary: a verified
or failed check holds what the policy made of the provider's decision (`CheckHolds`); a call
between read and write holds an answer of the provider for its own check, or none
(`ReadHolds`); a transaction that has written and not committed carries the verdict of the
decision, and, unless another one overlapped it, the summary of the very state its commit
leaves (`WriteHolds`). `EditsExclude` and `OneInFlight` are what the row lock and the
partial unique index give; without them an overlap could go unnoticed. Whether the score is
right is apart from all this: `ScoreIsSupported` follows `compareNames` token by token, keeps
with the positions taken a matching of as many tokens, and concludes that the best matching
has at least as many, so that rounding cannot raise the percentage above its own.

**Csv.** The parser's state after each character (`After`) is followed through a rendered
text, which begins with the heading and so with no byte-order mark (`HeadingStarts`,
`JoinedStarts`). A field without a special character is read as it stands (`PlainText`), one between
quotes with every doubled quote halved again (`QuotedText`); its closing quote stays open to
another until a comma, a line feed or the end (`FieldIsRead`). A carriage return outside
quotes would end the row (`TakeIs`), but none is left there: `escape` quotes what has one. So
each rendered line leaves its cells in the row, each line feed the row in the grid
(`RenderedIsRead`), no row of two
cells is blank (`NothingIsBlank`), and `parseBatchCsv` returns the rows, trimmed
(`FileSurvives`). The functions are recursive, so the proofs first show that a function with
these equations exists (`RecursionExists`) and then reason by `IntervalInduction` on the
character or the row reached.

**Batches.** `BatchesIInv` says of each import how far it has got and that the lines before
its own are answered (`ImportIsSound`); that a batch left VALIDATING only with every line
answered (`BatchIsSound`); and of each call that what it read is old and yet true
(`CallIsSound`, `ReadIsSound`): an answered line stays answered, one without a settlement
stays without, one that is over stays over. That nothing undoes these is proved first, of
every step (`RowsKept`). A close therefore may decide on a list it read earlier: what it
found over still is, however many refreshes wrote older outcomes back in between.

**Webhooks.** `RunsAreCurrent` is about what a worker read before its post. The number of
its attempt is logged already or is the next of a delivery still open, so a late record
either finds its number taken or extends the log by one; its secret is the endpoint's or
the one before, as long as the overlap lasts; and its failure count is at most the number
of failures logged. That last bound survives the lost update: a worker writes back a count
it read plus one, and has logged one failure more (`FailuresAreLogged`). As long as no
attempt recorded a count that had changed since it was read, the count is that of the
failures in a row and the circuit is open at the limit (`EndpointRow`), and only a worker's
record opens one (`OnlyFailuresOpen`). An open circuit has at least the limit of failures
behind it in any case, more than one delivery has attempts (`MoreThanOneDelivery`).

**Api.** The refinement maps the variables of `Idempotency` to those of the same name. Two
invariants carry it: `ClaimsArePerformed` (a committed claim is that of a performed
request, and every performed request still has its claim, for the two are written and
swept together) and `OpenIsUnanswered` (nobody is answered before it is done). A commit is
then `Perform`, because the slot it held was empty; a lookup is `Replay` or `Refuse`; the
sweep is `Forget`; everything else stutters. `LimitHolds` comes from `CountIsAdmitted`,
which relates the window's count to those let in.

**Only model-checked**: every liveness property (`CancellationTakesEffect`,
`EveryAttemptIsResolved`, `DraftIsPreflighted`, `MatchedSettles`, `EveryArtifactIsStored`,
`NoReturnIsForgotten`, `EveryCheckEnds`, `NothingIsStranded`, `EveryImportEnds`,
`NoKeyIsStuck`), for fairness and ENABLED are out of the prover's reach; and that
`compareNames` finds the *best* matching, which its greedy choice need not: the theorem
bounds its answer from above, which is the side that verifies.

## 5. Not modelled

`PROJECT.json` lists every component with its status. Not modelled:

* **Request log**: appends what was answered, after the answer; nothing reads it to decide.
* **Web application, UI kit, landing page, prototypes**: rendering and layout, no state of
  the system. They are most of the repository's lines.

Partly modelled:

* **Sessions, API keys, memberships, operator access**: one or two rows per call, and
  status and roles are read again on every request, so a race lasts one request. Only the
  revocation of an API key is an action, where it races the pipeline (`Api`).
* **Provider mocks**: as the services see them. Account suffixes that select a scenario are
  test data.
* **Job queue bridge**: a job is written in its transaction, and may run late, twice or
  after a crash. The runner is an external program.
* **HTTP handlers and read models**: only those that decide what commits.

Lock order is not represented. `completeReservation` locks the facility and then the
settlement, `resolveDrawdown` and `compensateCancellation` the reverse; Postgres breaks the
deadlock by aborting one, which is the crash or the no-step the models allow.

What could come next: the access services, once more than one row of theirs takes part in a
decision; and lock order, should a deadlock ever be more than an aborted transaction.

## 6. Observations

What the models show that no property above forbids, because the code allows it. The
modules contain each behaviour; where a property would be violated, it says what it
excludes.

*Funding and lifecycle*

* A re-requested repayment (Y08) is not checked for eligibility again
  (`liquidity.service.ts:607`): another repayment may have claimed the same drawn value.
  `RepaymentsAreCovered` speaks of histories without a re-request.
* `resolveException` answers the guards of T23 and T24 from an unlocked read
  (`settlement.service.ts:787`): if the payout is dispatched and fails in between, the
  settlement ends FAILED or CANCELLED past its point of no return.
* Services enter EXCEPTION without a `settlement_exceptions` row; the operator's resolution
  then answers `no_open_exception` (`ops/exception.service.ts:166`).
* A drawdown confirmed during EXCEPTION leaves the resumed settlement in
  DRAWDOWN_REQUESTED: nothing applies the confirmation again.
* Cancelling or failing out of EXCEPTION releases the reservation of an UNKNOWN drawdown,
  which `settlement-liquidity.service.ts:339` says must not happen; a later confirmation
  has nothing to consume.
* `completeReservation` does not look at a cancellation requested in LIQUIDITY_RESERVING,
  which `docs/STATE_MACHINES.md:119` says aborts before the reservation.

*Payout*

* `not_found` from a pull that overtook the submission is applied as a rejection, and the
  retry pays a second time (run `payout_double`).
* A delayed rejection of attempt 1 is applied to attempt 2, the latest
  (`payout.service.ts:262`).
* A credit recorded during EXCEPTION is not applied after the resume
  (`payout.service.ts:311`).
* A late acknowledgement moves an UNKNOWN attempt back to ACCEPTED (`payout.service.ts:193`).
* A payout already RETURNED when it is first pulled is refused (`payout.service.ts:389`),
  so its attempt stays UNKNOWN; `EveryAttemptIsResolved` excepts it.
* A first delivery that cannot be trusted is stored under its event id, and the authentic
  copy is a duplicate (`payout-webhook.service.ts:164`; for verifications
  `verification.service.ts:479`, which `EveryCheckEnds` excepts).
* The comment at `payout.service.ts:552` says that `allocateAttemptNumber` refuses an
  UNKNOWN attempt; `retryPayout` does not call it and checks the status itself.
* The comment on the mapping table in force says newest effective first
  (`payout-mapping.service.ts:158`); the query takes one row and has no order.

*Preparation*

* A crash between T02 and T03 leaves a settlement in PREFLIGHTING: the redelivered job takes
  it up (`preflight-job.service.ts:79`), but starts with T02 again, which is refused.
  `DraftIsPreflighted` asks that a draft leaves DRAFT.
* T25 from QUOTED leaves the quote LOCKED until it expires.
* A refused authorization is rolled back by the API's handler, and with it the audit record
  of the refusal; a batch commits it, and can commit T08 although the quote was expired or
  spent by another settlement first (`settlement.service.ts:412`). `AuthorizedQuoteIsSpent`
  and `OneSettlementPerQuote` except that case.
* `authorizeSettlement` freezes the terms of the quote it read without a lock. If T07 drops
  that quote and T06 attaches another before T08, a batch commits the terms of the first
  while `quote_id` names the second, although the comment says that "Everything the frozen
  table names is checked here, under the row lock" (`settlement.service.ts:247`).
* Of two identical calls of `expireAttachedQuote` the second drops whatever quote is cited
  when it writes, and the quote it takes off stays LOCKED and can be attached elsewhere. No
  production code calls it yet. `FrozenPriceDelivers` speaks of the quote the terms name.
* Separation of duties switched on after a call has read the policy does not stop that
  call; `FourEyes` speaks of a policy that stays on.

*Finality, receipts, returns*

* A reconciliation begun before the payout is confirmed commits although T19 is refused,
  and later calls are answered idempotently; its receipt can be cut and T20 refused.
* The retry leaves `payout_attempt_id` on the rejected attempt (`finality.service.ts:120`),
  so F3 refuses for good a settlement that was credited on its second attempt.
  `MatchedSettles` speaks of the named attempt.
* A crash between the exclusive create and the write leaves an empty object, which every
  later job takes for the document (`filesystem-store.ts:80`). `EveryArtifactIsStored`
  asks for an object, `ArtifactsAreWriteOnce` protects those written in full.
* A confirmed return that the watcher escalates and an operator rejects leaves its
  repayment live and stops counting toward the cap (`settlement-return.service.ts:711`).
* A pull that fails counts as not upheld; one that answers RETURNED and states no total
  upholds a return of any amount (`settlement-return.service.ts:439`).

*Beneficiaries, webhooks, batches, API*

* Two overlapping transactions can leave a summary status neither derived from the whole;
  the next one nobody overlaps repairs it (`RefreshHeals`). What execution checks is the
  version, not the summary.
* The circuit counts failed attempts in a row (`webhook-delivery.service.ts:372`), whereas
  the constant is said to be "Counted in *consecutive failed deliveries across events*, not
  attempts within one delivery" (`domain/src/webhooks/delivery.ts:42`). What that comment
  fears cannot happen, for one delivery has fewer attempts than the limit; but the attempts
  of a few deliveries that keep failing open the circuit. The count is read before the post
  and written after it, so when two deliveries record past each other a failure is lost and
  the circuit opens late, or a success is, and it opens early. `CircuitOpensInARow` says
  exactly this much: at the limit, unless a count was overwritten, and never on one delivery.
  A late attempt can open
  the circuit of a deleted endpoint, which can then be reopened; deleting an endpoint whose
  circuit is open is refused by a CHECK. Events drained while the circuit is open are not
  sent later. The status `disabled` is never written.
* As many imports as the pool has connections wait on each other for ever
  (`handlers/batches.ts:75`): each holds the connection of its request's transaction and
  takes another per transaction of its own, and nothing bounds them. The run reaches this
  state; `EveryImportEnds` says that nothing else keeps imports from ending.
* A crash during an import leaves the batch VALIDATING for ever. A stale refresh can
  overwrite rows after COMPLETED, and a close that read VALIDATING can complete a batch
  early; `CompletedIsDone` speaks of closes that found it validated.
* An import with an idempotency key records no response, so a repeat is answered from the
  file's hash, and a key reused for another file fails on the index.
* Requests that find no rate row each count themselves the first, so a window's first
  burst can pass the limit (`rate-limit.service.ts:80`).
* A key revoked after it was confirmed lets that one request commit, as the comment in
  `authentication.ts` accepts.
