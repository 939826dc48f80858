\* Mount tables without shadowed mount points, two mounts or unmounts
\* with device numbers never used before, and three calls per run.
CONSTANTS
  Dirs <- MCDirs
  Root = "/"
  Parent <- MCParent
  Types <- MCTypes
  MountTables <- MCFlatTables
  MaxQueries = 3
  MaxChanges = 2
  ReuseDevs = FALSE
SPECIFICATION Spec
INVARIANT TypeOK
PROPERTY ReturnsTypeOfFileSystem
\* The run ends after MaxQueries calls, or when error (1, ...) exits.
CHECK_DEADLOCK FALSE
