------------------------------ MODULE MCExplorer ------------------------------
(***************************************************************************)
(* A small instance of Explorer for TLC: a device with two services of one *)
(* characteristic each, and one with two characteristics in one service.   *)
(***************************************************************************)
EXTENDS Explorer

CONSTANTS a, b   \* two devices

MCPeers == {a, b}

MCGatt ==
  [p \in MCPeers |->
     IF p = a
     THEN <<[svc |-> 1, def |-> 2, val |-> 3, cccd |-> 0],
            [svc |-> 2, def |-> 5, val |-> 6, cccd |-> 7]>>
     ELSE <<[svc |-> 1, def |-> 2, val |-> 3, cccd |-> 4],
            [svc |-> 1, def |-> 5, val |-> 6, cccd |-> 7]>>]

MCEnds == [p \in MCPeers |-> IF p = a THEN <<3, 7>> ELSE <<7>>]
=============================================================================
