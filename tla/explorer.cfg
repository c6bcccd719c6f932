\* Two devices, commands of which any may be given up on, and the capture task's scan.
CONSTANTS
  a = a
  b = b
  None = none
  Peers <- MCPeers
  Gatt <- MCGatt
  Ends <- MCEnds
  Requests = {"read", "sec"}
  MaxProcs = 3
SPECIFICATION BlexSpec
INVARIANTS
  OwnResult
  
  DatabaseCurrent
  LinkOwned
