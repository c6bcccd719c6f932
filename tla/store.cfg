\* Two producers, a ring of two short records, a power cut, captures removed
\* between recordings; producers are quiet when store_end() is called.
CONSTANTS
  p1 = p1
  p2 = p2
  Writer = writer
  Producers <- MCTwoProducers
  Lens = {1, 2}
  RingCells = 3
  DrainCells = 2
  DrainPasses = 4
  SyncCells = 2
  MaxSeq = 2
  MaxStamps = 2
  MaxCuts = 1
  QuietEnd = TRUE
  QuietRemove = TRUE
SPECIFICATION FairSpec
INVARIANTS
  WriterHoldsFile
  Parsable
  Accounted
  NoForeign
  CutLossBounded
  Conservation
  EndFlushes
PROPERTIES
  ImplementsLog
  ApiReturns
