----------------------------- MODULE MCCapLink -----------------------------
(***************************************************************************)
(* Small instances of CapLink for TLC.                                     *)
(***************************************************************************)
EXTENDS CapLink, TLC

CONSTANTS mcu, bms,     \* CAP_LINK_MCU, CAP_LINK_BMS
          h1, h2, h3    \* connection handles

MCLinks == {mcu, bms}
MCPolled == {bms}
MCRotating == {mcu}
MCHandles == {h1, h2, h3}

\* The controller hands out any free handle.
MCSymmetry == Permutations(MCHandles)
=============================================================================
