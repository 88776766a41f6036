SPECIFICATION FairSpec
CONSTANTS
  Sessions <- Twins
  Pods = {"ours", "theirs"}
  BuildPods = {"ours"}
  Containers <- TwoContainers
  Ports = {1, 2, 3}
  Starts <- SomeStarts
  MaxLost = 1
  MaxTaken = 1
  MaxChanges = 3
  Calls <- Operations
  MaxSends = 2
  Listings <- SomeListings
  Samples = 4
  WorkerCount = 2
INVARIANTS EverythingListed
CHECK_DEADLOCK FALSE
