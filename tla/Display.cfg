SPECIFICATION FairSpec
CONSTANTS
  Stages = {"build", "push", "release"}
  Echoed = {"build"}
INVARIANTS TypeOK OutcomesShown ForwardedToLive
PROPERTIES DisplayReturns
CHECK_DEADLOCK FALSE
