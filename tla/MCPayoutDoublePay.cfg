CONSTANTS
  MaxAttempts = 2
  MaxJobs = 2
  MaxPulls = 1
SPECIFICATION PayoutSpec
CHECK_DEADLOCK FALSE
INVARIANT AtMostOneCredit
