-------------------------------- MODULE Totals --------------------------------
(***************************************************************************)
(* What the estimator promises of the figures that outlive a ride: the     *)
(* distance, and the energy and the road of the all-time average.          *)
(*                                                                         *)
(* They only change with the road covered and the energy drawn; what is    *)
(* kept is what they came to at one moment, all of them together; and      *)
(* when the Monitor has been off, they are what was kept last.             *)
(***************************************************************************)
EXTENDS Integers

VARIABLES
  live,    \* the totals: [dist, m, wh]
  taken,   \* a copy of them that is on its way to flash
  kept     \* the copy that is in flash

TotalsInit == live = kept /\ taken = kept

\* The bike covers ground, and every metre counts in both distances.
Ride ==
  /\ live'.dist >= live.dist /\ live'.wh = live.wh
  /\ live'.dist - live.dist = live'.m - live.m
  /\ UNCHANGED <<taken, kept>>

\* Energy leaves the Pack, or comes back to it.
Draw ==
  /\ live'.dist = live.dist /\ live'.m = live.m
  /\ UNCHANGED <<taken, kept>>

Copy == taken' = live /\ UNCHANGED <<live, kept>>
Keep == kept' = taken /\ UNCHANGED <<live, taken>>

\* The copy does not arrive.
Drop == taken' = kept /\ UNCHANGED <<live, kept>>

\* The power goes, and with it what was on its way.
Lose == live' = kept /\ taken' = kept /\ UNCHANGED kept

TotalsNext == Ride \/ Draw \/ Copy \/ Keep \/ Drop \/ Lose

TotalsSpec == TotalsInit /\ [][TotalsNext]_<<live, taken, kept>>
=============================================================================
