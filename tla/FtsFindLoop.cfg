\* A directory of the tree is a symbolic link back to an ancestor (fts
\* reports it FTS_DC), no depth options, no -prune.
CONSTANTS
  r = r  a = a  b = b  c = c  f1 = f1  f2 = f2
  Node <- MCNode
  Dir <- MCDir
  Parent <- MCParent
  Root = r
  MaxFaults = 1
  MaxDepthChoices <- MCNoMaxDepth
  MinDepthChoices = {0}
  PruneUsed = FALSE
  ExecdirUsed = FALSE
  MaxArgs = 2
SPECIFICATION Spec
\* find stops when fts_read has nothing more to return.
CHECK_DEADLOCK FALSE
INVARIANT CycleEntryEvaluated
