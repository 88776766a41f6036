SPECIFICATION FairSpec
CONSTANTS
  Stages = {"build", "release"}
  Echoed = {"build"}
PROPERTIES StopFinishes
CHECK_DEADLOCK FALSE
