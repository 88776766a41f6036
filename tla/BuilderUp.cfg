SPECIFICATION FairSpec
CONSTANTS
  Images = {i1, i2, i3}
  ChanCap = 1
  Faults = {"context", "auth", "image_build", "stream", "inspect", "push_auth",
            "image_push", "push_stream", "prepare", "helm", "storage"}
INVARIANTS TypeOK ReleaseAfterPush PushErrorSurfaces HistoryAgreesWithStream
PROPERTIES FeedsDisplay ImplementsStages StreamEnds
