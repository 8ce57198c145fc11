SPECIFICATION FairSpec
CONSTANTS
  Files <- RepositoryFiles
  ModelTables <- RepositoryTables
  Releases <- AnyRelease
  Sites = {"host"}
  Shells = {}
  MaxCrashes = 0
PROPERTY
  SetupCompletes
