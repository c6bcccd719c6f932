------------------------------ MODULE MCImuLog ------------------------------
(***************************************************************************)
(* Small instances of ImuLog for TLC.                                      *)
(***************************************************************************)
EXTENDS ImuLog

CONSTANTS t1, t2, t3   \* task control blocks

MCTasks == {t1, t2, t3}
=============================================================================
