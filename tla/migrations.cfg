SPECIFICATION Spec
CONSTANTS
  Procs = {"api", "worker"}
  Files <- RepoFiles
INVARIANTS
  MigrateSucceeds
