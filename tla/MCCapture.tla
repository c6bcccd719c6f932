----------------------------- MODULE MCCapture -----------------------------
(***************************************************************************)
(* Small instances of Capture for TLC.                                     *)
(***************************************************************************)
EXTENDS Capture

CONSTANTS button, console   \* the tasks that call the cap_*() functions

MCButton == {button}
MCButtonAndConsole == {button, console}
=============================================================================
