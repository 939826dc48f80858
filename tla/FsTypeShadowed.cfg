\* Every mount table, shadowed mount points included; two mounts or
\* unmounts, which may reuse a device number; two calls per run.
CONSTANTS
  Dirs <- MCDirs
  Root = "/"
  Parent <- MCParent
  Types <- MCTypes
  MountTables <- MCAllTables
  MaxQueries = 2
  MaxChanges = 2
  ReuseDevs = TRUE
SPECIFICATION Spec
PROPERTY ReturnsTypeOfFileSystem
\* The run ends after MaxQueries calls, or when error (1, ...) exits.
CHECK_DEADLOCK FALSE
