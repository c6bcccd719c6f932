\* Two links, three handles; what was left behind completes at any time.
CONSTANTS
  mcu = mcu
  bms = bms
  h1 = h1
  h2 = h2
  h3 = h3
  NoHandle = none
  Links <- MCLinks
  Polled <- MCPolled
  Rotating <- MCRotating
  Handles <- MCHandles
  NOps = 2
SPECIFICATION Spec
SYMMETRY MCSymmetry
INVARIANTS
  NoneLeaked
  OwnHandle
