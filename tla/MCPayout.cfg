\* One settlement with a first payout attempt and one retry.
CONSTANTS
  MaxAttempts = 2
  MaxJobs = 2
  MaxPulls = 1
SPECIFICATION PayoutSpec
CHECK_DEADLOCK FALSE
INVARIANTS
  OneInFlight
  CreditsAreBacked
PROPERTIES
  AnswerIsFinal
  EveryAttemptIsResolved
