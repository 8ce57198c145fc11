SPECIFICATION ContainerSpec
CONSTANTS
  Files <- RepositoryFiles
  ModelTables <- RepositoryTables
  Releases <- AnyRelease
  Sites = {"docker", "host"}
  Shells = {"shell"}
  MaxCrashes = 2
  Threads = {t1, t2}
  Window = 2
  Threshold = 2
INVARIANTS
  RecordedIsApplied
  ServingIsReady
  RecordedInOrder
  BlockedNeedsCause
  FailuresBounded
  RefusedForCause
PROPERTY
  UpgradeCompletes
