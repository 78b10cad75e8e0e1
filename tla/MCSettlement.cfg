\* One settlement, one checkpoint job, one resolver and one opener of exceptions.
SPECIFICATION SettlementSpec
CHECK_DEADLOCK FALSE
INVARIANTS
  PointOfNoReturn
  RowsAgree
PROPERTY CancellationTakesEffect
