\* Every mount table, shadowed mount points included; one call.
CONSTANTS
  Dirs <- MCDirs
  Root = "/"
  Parent <- MCParent
  Types <- MCTypes
  MountTables <- MCAllTables
  MaxQueries = 1
  MaxChanges = 0
  ReuseDevs = FALSE
SPECIFICATION Spec
INVARIANT LookupNeverExits
\* The run ends after MaxQueries calls, or when error (1, ...) exits.
CHECK_DEADLOCK FALSE
