SPECIFICATION Spec
CONSTANTS
  t1 = t1
  t2 = t2
  Txs = {t1, t2}
  Sales = {t2}
  Configurations <- ReleaseAndSale
  Confirmations = 0
  ChunkSize = 2
  MaxChunks = 1
  MaxHeight = 3
  MaxForks = 1
  MaxFaults = 1
CHECK_DEADLOCK FALSE
INVARIANTS
  IndexTrue
  FinalizedStands
  SnapshotMatches
PROPERTIES
  CatchesUp
  RebuildDone
