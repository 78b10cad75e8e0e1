------------------------------- MODULE Pricing -------------------------------
(***************************************************************************)
(* Exact money: the conversion between the funding currency and INR        *)
(* (packages/money/src/fx.ts) and the price of a quote                     *)
(* (packages/domain/src/quotes/pricing.ts).  All amounts are minor units.  *)
(* The rate is the fraction RateNumerator / RateDenominator of recipient   *)
(* minor units per funding minor unit: rateScaled, FX_RATE_SCALE and the   *)
(* two currencies' scales multiplied out.                                  *)
(***************************************************************************)
EXTENDS Integers, Sequences

CONSTANTS
  RateNumerator, RateDenominator,
  PricingConfig   \* the configuration quotes are priced with: source, feeRules

(***************************************************************************)
(* Codes are unique, and a fee is a flat amount or at most the whole of    *)
(* the funding.  A code is a number here: codes are compared and sorted.   *)
(***************************************************************************)
codesAreUnique(rules) == \A i, j \in DOMAIN rules : rules[i].code = rules[j].code => i = j

feeRuleIsValid(rule) ==
  \/ rule.kind = "flat" /\ rule.value \in Nat
  \/ rule.kind = "basis_points" /\ rule.value \in 0..10000

validatePricingConfig(config) ==
  /\ config.source \in {"sandbox_fixture", "treasury_approved", "provider_contract"}
  /\ codesAreUnique(config.feeRules)
  /\ \A i \in DOMAIN config.feeRules : feeRuleIsValid(config.feeRules[i])

ASSUME PricingAssumption ==
  /\ RateNumerator \in Nat \ {0}      \* fxRate refuses a rate that is not positive
  /\ RateDenominator \in Nat \ {0}
  /\ PricingConfig.feeRules \in Seq([code : Nat, kind : {"flat", "basis_points"}, value : Nat])
  /\ validatePricingConfig(PricingConfig)

floorDiv(a, b) == a \div b
ceilDiv(a, b)  == (a + b - 1) \div b

(***************************************************************************)
(* What converting back gives, and the two directions of a quote: the side *)
(* the customer did not name is rounded in favour of the promise made.     *)
(***************************************************************************)
recipientForFunding(funding) == floorDiv(funding * RateNumerator, RateDenominator)

fundingForRecipient(recipient) == ceilDiv(recipient * RateDenominator, RateNumerator)

computeFees(funding) ==
  [i \in DOMAIN PricingConfig.feeRules |->
    LET fee == PricingConfig.feeRules[i]
    IN  [code   |-> fee.code,
         amount |-> IF fee.kind = "flat" THEN fee.value ELSE ceilDiv(funding * fee.value, 10000)]]

priceQuote(direction, amount) ==
  LET funding == IF direction = "RECIPIENT_FIRST" THEN fundingForRecipient(amount) ELSE amount
  IN  [recipient |-> IF direction = "RECIPIENT_FIRST" THEN amount
                                                     ELSE recipientForFunding(amount),
       funding   |-> funding,
       fees      |-> computeFees(funding)]

(***************************************************************************)
(* Live money is not priced on the invented terms of a sandbox fixture.    *)
(***************************************************************************)
mayPrice(live) == live => PricingConfig.source # "sandbox_fixture"

(***************************************************************************)
(* verifyRecipientFirst and verifySourceFirst: the price keeps the promise *)
(* and no cheaper (respectively no better) one does.                       *)
(***************************************************************************)
PriceIsExact(direction, p) ==
  IF direction = "RECIPIENT_FIRST"
    THEN /\ p.funding * RateNumerator >= p.recipient * RateDenominator
         /\ (p.funding - 1) * RateNumerator < p.recipient * RateDenominator
    ELSE /\ p.recipient * RateDenominator <= p.funding * RateNumerator
         /\ (p.recipient + 1) * RateDenominator > p.funding * RateNumerator
=============================================================================
