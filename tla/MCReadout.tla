------------------------------ MODULE MCReadout -------------------------------
(***************************************************************************)
(* A small instance of Readout for TLC: two captures, of one block and of  *)
(* two.                                                                    *)
(***************************************************************************)
EXTENDS Readout

MCBlocks == [s \in Captures |-> s]
=============================================================================
