\* Builds in which the fields decode from the proven width, and in which one lies
\* above it.
CONSTANTS
  Wide = 125
  Proven = 62
  Needs = {57, 80}
  Tries = 2
  CounterMax = 3
  Mtus = {23, 140, 512}
  MaxAir = 2
SPECIFICATION FairSpec
INVARIANTS
  WidthFits
PROPERTIES
  Narrows
