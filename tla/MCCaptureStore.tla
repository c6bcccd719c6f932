--------------------------- MODULE MCCaptureStore ---------------------------
(***************************************************************************)
(* Small instances of CaptureStore for TLC.                                *)
(***************************************************************************)
EXTENDS CaptureStore

CONSTANTS p1, p2   \* two producers

MCOneProducer == {p1}
MCTwoProducers == {p1, p2}

=============================================================================
