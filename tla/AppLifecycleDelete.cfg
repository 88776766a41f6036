SPECIFICATION FairSpec
CONSTANTS
  MaxRuns = 2
PROPERTIES DeleteGetsThrough
CHECK_DEADLOCK FALSE
