\* A capture removed while store_begin() or store_end() has the file open.
CONSTANTS
  p1 = p1
  p2 = p2
  Writer = writer
  Producers <- MCOneProducer
  Lens = {1}
  RingCells = 3
  DrainCells = 2
  DrainPasses = 4
  SyncCells = 2
  MaxSeq = 1
  MaxStamps = 2
  MaxCuts = 0
  QuietEnd = TRUE
  QuietRemove = FALSE
SPECIFICATION Spec
INVARIANTS
  OpenFileStays
