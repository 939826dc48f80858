\* The walk with -prune, -maxdepth/-mindepth, -depth, ignore_readdir_race
\* and one faulty node at a time.
CONSTANTS
  r = r  a = a  b = b  c = c  f1 = f1  f2 = f2
  Node <- MCNode
  Dir <- MCDir
  Parent <- MCParent
  Root = r
  MaxFaults = 1
  MaxDepthChoices <- MCMaxDepthChoices
  MinDepthChoices = {0, 1}
  PruneUsed = TRUE
  ExecdirUsed = TRUE
  MaxArgs = 2
SPECIFICATION Spec
INVARIANT TypeOK
\* find stops when fts_read has nothing more to return.
CHECK_DEADLOCK FALSE
INVARIANT EvaluationOrder
INVARIANT DepthAndPruneRespected
INVARIANT AllReachableEvaluated
INVARIANT ExitStatusReflectsErrors
INVARIANT CurrFdTracksCwd
PROPERTY Termination
INVARIANT ExecdirBatchesSound
PROPERTY AllExecdirsRun
