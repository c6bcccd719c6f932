-------------------------------- MODULE MCTrip --------------------------------
(***************************************************************************)
(* A small instance of Trip for TLC.  A Monitor that was never used, or    *)
(* one whose flash holds what an earlier build, this one or a later one    *)
(* has left there.                                                         *)
(***************************************************************************)
EXTENDS Trip

Blob(version, d, m, wh, winM, winWh) ==
  [version |-> version, valid |-> FALSE, distValid |-> TRUE, dist |-> d,
   m |-> m, wh |-> wh, winM |-> winM, winWh |-> winWh]

MCSaved ==
  {Absent, Blob(2, 1, 0, 0, 0, 0), Blob(4, 5, 5, -1, 5, -1), Blob(5, 1, 1, 1, 0, 0)}
=============================================================================
