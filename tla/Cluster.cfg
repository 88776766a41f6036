SPECIFICATION SpecCluster
CONSTANTS
  c1 = c1
  c2 = c2
  b1 = b1
  b2 = b2
  Clients <- TwoClients
  Builds <- TwoBuilds
  MaxVersion = 4
  Unreliable = TRUE
  Ups = {u1, u2}
  Registry = TRUE
  HistoryMax = 2
  MaxRevision = 5
  MayFail = TRUE
INVARIANTS TypeOK AckedBuildKept ReleaseTypeOK PodsCanPull FailsForCause
PROPERTIES ImplementsHistory PullSecretsKept
CHECK_DEADLOCK FALSE
