SPECIFICATION PreparationSpec
CONSTANTS
  Settlements = {s1, s2}
  Quotes = {q1}
  MaxCalls = 2
  Requests <- MCRequests
  QuoteAmounts = {2}
  LargeAmount = 2
  RateNumerator = 3
  RateDenominator = 2
  PricingConfig <- MCPricing
  ReferenceRules <- MCRules
  MaxVersion = 2
  QuoteTTL = 0
  MaxClock = 1
  MaxCrashes = 1
  NONE = NONE
INVARIANTS QuoteIsSpentOnce FrozenTermsHold
PROPERTIES FourEyes DraftIsPreflighted
CHECK_DEADLOCK FALSE
