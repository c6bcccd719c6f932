\* Three installs, of which one may not come up; resets at any moment, and writes to
\* NVS or otadata that fail.
CONSTANTS
  old = old
  good = good
  bad = bad
  debug = debug
  Junk = junk
  Stable = stable
  None = none
  Images <- MCImages
  Passes <- MCPasses
  Channels <- MCChannels
  Size = 2
  MaxResets = 2
  MaxInstalls = 2
  MaxFaults = 1
SPECIFICATION FairSpec
INVARIANTS
  RevertsChannel
PROPERTIES
  ChoiceKept
  ImplementsFirmware
  Earned
