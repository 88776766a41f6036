SPECIFICATION FairSpec
CONSTANTS
  MaxRuns = 3
INVARIANTS TypeOK ReleaseIsRecorded ConnectsForward
PROPERTIES CommandsEnd
CHECK_DEADLOCK FALSE
