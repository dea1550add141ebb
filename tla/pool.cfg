SPECIFICATION FairSpec
CONSTANTS
  NThreads = 3
  Graphs <- ThreeGraphs
  NChunks = 4
  Wrap = 4
  MayAbort = TRUE
  MayPause = TRUE
INVARIANTS
  NodesInOrder
  ChunksOnce
  NoWorkerInGraph
  AbortIsClean
PROPERTIES
  GraphsReturn
  FreeReturns
CHECK_DEADLOCK FALSE
