SPECIFICATION Spec
CONSTANTS
  t1 = t1
  t2 = t2
  Procs <- Terminals
  MaxCommands = 3
  Agendas <- SomeAgendas
  Homes <- SomeHomes
  Keys = {"registry", "builder"}
  Plugins = {"pack_repo", "other"}
  Builtin = "pack_repo"
  BuiltinVersion = "v2"
  PacksVersions = {"", "v1"}
  Tags <- TwoTags
  Constraints <- OneConstraint
  Branch <- BranchesNow
  Listings <- SomeListings
  RepositoryPacks <- SomeRepositories
SYMMETRY EitherTerminal
INVARIANTS  BestPackChosen
PROPERTIES InitDelivers InitRunsAgain ReadyIsScaffolded
CHECK_DEADLOCK FALSE
