SPECIFICATION FairSpec
CONSTANTS
  ChanCap = 1
  Faults <- AllFaults
  LogLen = 2
  Inputs <- AzureInputs
  Offers <- AzureOffers
INVARIANTS ReleaseAfterRemoteBuild DeployedImageExists QuotedChallengeUnderstood
PROPERTIES FeedsDisplay ImplementsStages StreamEnds
