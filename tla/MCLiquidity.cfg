\* Two settlements, a limit that fits either or both, two reservations and
\* repayments in all, and one re-request (Y08).
CONSTANTS
  s1 = s1
  s2 = s2
  NoSettlement = NoSettlement
  Settlements = {s1, s2}
  MaxLimit = 3
  MaxReservations = 2
  MaxRepayments = 2
  MaxAttempt = 2
SYMMETRY SettlementSymmetry
SPECIFICATION LiquiditySpec
INVARIANTS
  FacilityBalances
  RepaymentsAreCovered
PROPERTY NoExposureWhileSuspended
