SPECIFICATION FairSpec
CONSTANTS
  Images = {i1, i2}
  ChanCap = 1
  Faults = {"image_push"}
PROPERTIES StageEnds
