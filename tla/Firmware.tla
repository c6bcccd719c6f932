------------------------------ MODULE Firmware ------------------------------
(***************************************************************************)
(* What two app slots and a rollback promise (main/ota_update.h and        *)
(* main/ota_health.h): there is always an image to come back to, an image  *)
(* that was installed is on trial until it has passed every gate, and then *)
(* it is the one to come back to.                                          *)
(***************************************************************************)
CONSTANTS
  Published,  \* the images that are offered
  Sound,      \* those that pass every gate
  None        \* no image is on trial

VARIABLES
  kept,       \* the image the unit comes back to
  candidate   \* the image on trial

fwVars == <<kept, candidate>>

FwInit == kept \in Published /\ candidate = None

\* An image is taken on trial, whole and as it was published.
Install == candidate = None /\ candidate' \in Published /\ UNCHANGED kept

\* It has earned its place.
Adopt == candidate \in Sound /\ kept' = candidate /\ candidate' = None

\* It has not.
GiveUp == candidate # None /\ candidate' = None /\ UNCHANGED kept

FwNext == Install \/ Adopt \/ GiveUp

FwSpec == FwInit /\ [][FwNext]_fwVars
=============================================================================
