SPECIFICATION ReturnsSpec
CONSTANTS
  NoReturn = 0
  MaxReturns = 2
  Credited = {2, Unknown}
  Unknown = Unknown
  Drawn = 3
  OtherDrawn = 1
  Window = 1
  ReturnAmounts = {1, 2}
  ManualAmounts = {3}
  MaxRepayments = 2
  MaxAttempt = 1
INVARIANTS ConfirmedWithinDelivered RestorationIsExact
PROPERTIES NoReturnIsForgotten
CHECK_DEADLOCK FALSE
