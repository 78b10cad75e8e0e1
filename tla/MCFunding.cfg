\* Two settlements of one unit on a facility that fits none, one or both.
CONSTANTS
  s1 = s1
  s2 = s2
  NoSettlement = NoSettlement
  Settlements = {s1, s2}
  MaxLimit = 2
  MaxReservations = 2
  MaxRepayments = 2
  MaxAttempt = 1
  FundingAmount <- OneUnitEach
  Answers <- OneFlaw
SYMMETRY SettlementSymmetry
SPECIFICATION FundingSpec
CHECK_DEADLOCK FALSE
INVARIANTS
  FundingIsBacked
  CompensationMatchesFunding
PROPERTY ImplementsLiquidity
