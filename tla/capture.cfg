\* Both links, one caller with three calls, one fault.
CONSTANTS
  button = button
  console = console
  NLinks = 2
  Callers <- MCButton
  QLen = 2
  MaxCalls = 3
  MaxFaults = 1
SPECIFICATION FairSpec
INVARIANTS
  RecordsIntoFile
  StateTruthful
PROPERTIES
  ImplementsApi
  StopHonoured
  ShutdownHonoured
  KeepsTrying
