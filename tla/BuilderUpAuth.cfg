SPECIFICATION FairSpec
CONSTANTS
  Images = {i1, i2}
  ChanCap = 1
  Faults = {"auth"}
PROPERTIES StageEnds
