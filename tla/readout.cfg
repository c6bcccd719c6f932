\* A page and the console, on a list of two networks and on two captures.
CONSTANTS
  Tabs = {tab}
  Names = {x, y, z}
  Keys = {k, short}
  WrongKey = {short}
  NetMax = 2
  Channels = {stable, debug}
  Unknown = unknown
  Captures = {1, 2}
  Blocks <- MCBlocks
  ListMax = 2
  Pieces = 2
  MaxOps = 3
SPECIFICATION Spec
INVARIANTS
  NetsSound
  AnswerTrue
  WholeFile
PROPERTY
  HttpdFree
CHECK_DEADLOCK FALSE
