SPECIFICATION FinalitySpec
CONSTANTS
  MaxAttempts = 2
  Composites = {"composite"}
  Workers = {"w1", "w2"}
  Expected = 1
INVARIANTS FinalityIsBacked
PROPERTIES ArtifactsAreWriteOnce MatchedSettles EveryArtifactIsStored
CHECK_DEADLOCK FALSE
