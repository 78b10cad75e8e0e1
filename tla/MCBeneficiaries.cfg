SPECIFICATION BeneficiariesSpec
CONSTANTS
  Destinations = {d1}
  Checks = {c1, c2}
  Details <- MCDetails
  Policies <- MCPolicies
  Answers <- MCAnswers
  MaxVersion = 2
  MaxCalls = 2
  MaxCrashes = 1
  NONE = NONE
INVARIANTS VerifiedOnEvidence
PROPERTIES VerdictIsFinal RefreshHeals EveryCheckEnds
CHECK_DEADLOCK FALSE
