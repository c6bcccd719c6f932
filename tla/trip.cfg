\* A window of two buckets, an Odometer of four readings, and one power cut.
CONSTANTS
  DtMax = 2
  DistTau = 2
  BucketM = 2
  Buckets = 2
  CountM = 2
  Span = 4
  Version = 4
  Saved <- MCSaved
  Unknown = unknown
  Speeds = {unknown, 1}
  Powers = {1}
  Gaps = {1, 3}
  Reading = 3
  MaxRide = 4
  MaxWh = 1
  MaxRolls = 2
  MaxCuts = 1
  MaxSaves = 1
SPECIFICATION Spec
INVARIANTS
  OdometerAccount
  WindowWhole
  WindowAccount
  KeptIsLatest
PROPERTY
  ImplementsTotals
CHECK_DEADLOCK FALSE
