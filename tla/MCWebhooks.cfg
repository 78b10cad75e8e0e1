SPECIFICATION WebhooksSpec
CONSTANTS
  e1 = e1
  c1 = c1
  TEST = TEST
  Endpoints = {e1}
  CustomerEvents = {c1}
  InternalEvents = {}
  Wants <- MCWants
  Workers = {1, 2}
  MaxAttempts = 2
  CircuitAfter = 3
  MaxReplays = 1
  MaxRotations = 1
  MaxFaults = 1
INVARIANTS LogTellsTheDelivery SignedPostVerifies
PROPERTIES  SettledDeliveryIsFinal NothingIsStranded
CHECK_DEADLOCK FALSE
