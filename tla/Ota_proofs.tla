------------------------------ MODULE Ota_proofs ------------------------------
(***************************************************************************)
(* The update implements Firmware, and an image that rolls back takes its  *)
(* channel down with it, once: for any images, gates they pass, size,      *)
(* channels, and however many resets, installs and failing writes.         *)
(***************************************************************************)
EXTENDS Ota, TLAPS

Unsettled == {"new", "pending"}

SlotTypes ==
  /\ flash \in [Slots -> Images \cup {Junk}] /\ otadata \in [Slots -> States]
  /\ boot \in Slots /\ running \in Slots
  /\ gates \subseteq Gates /\ probation \in BOOLEAN

\* otadata names the running slot, until the switch; then a slot that was never booted.
BootSlot ==
  IF ipc \in {"trial", "restart"}
  THEN boot = Other(running) /\ otadata[boot] = "new"
  ELSE boot = running /\ otadata[boot] # "new"

\* There is something to come back to; an install does not run on probation, and the
\* slot it fills is bootable before the switch.
Fallbacks ==
  /\ flash[running] \in Images
  /\ otadata[boot] \in Unsettled =>
       flash[Other(boot)] \in Images /\ otadata[Other(boot)] \notin Unsettled
  /\ otadata[running] = "pending" => ipc = "none"
  /\ ipc = "fetch" => image \in Images /\ flash[Other(running)] = Held(got, sound)
  /\ ipc \in {"end", "switch"} => image \in Images /\ flash[Other(running)] = image
  /\ ipc \in {"trial", "restart"} => flash[boot] \in Images

\* The watch task knows whether this image is on probation, and no gate was passed that
\* the image does not pass.
Watched ==
  /\ watch = "watching" => probation = (otadata[running] = "pending")
  /\ gates \subseteq Passes[flash[running]]

IInv == SlotTypes /\ BootSlot /\ Fallbacks /\ Watched

USE OtaAssumption

LEMMA OtherSlot ==
  ASSUME NEW s \in Slots
  PROVE  Other(s) \in Slots /\ Other(s) # s /\ Other(Other(s)) = s
  BY DEF Slots, Other

LEMMA InitInv == Init => IInv
<1> SUFFICES ASSUME Init PROVE IInv
  OBVIOUS
<1>1. PICK i \in Images : flash = [s \in Slots |-> IF s = 0 THEN i ELSE Junk]
  BY DEF Init
<1>2. SlotTypes
  BY <1>1 DEF Init, SlotTypes, Slots, States
<1>3. flash[running] = i /\ otadata[boot] = "undefined" /\ otadata[running] = "undefined"
  BY <1>1 DEF Init, Slots
<1>4. i \in DOMAIN Passes /\ gates = {} /\ ipc = "none" /\ watch = "none" /\ boot = running
  BY DEF Init
<1> QED BY <1>2, <1>3, <1>4 DEF IInv, BootSlot, Fallbacks, Watched, Unsettled

-----------------------------------------------------------------------------
(***************************************************************************)
(* The steps that write no slot and no otadata, and do not boot: app_main, *)
(* the settings, and the rest of the install.                              *)
(***************************************************************************)
Quiet ==
  /\ UNCHANGED <<flash, otadata, boot, running>>
  /\ gates' \subseteq Gates /\ gates' \subseteq gates \cup Passes[flash[running]]

LEMMA QuietSteps ==
  ASSUME IInv, AppStep \/ PickChannel \/ WatchBench \/ WatchClear \/ StoreTrial
               \/ DownloadFails \/ DownloadChecked \/ EndImage \/ SwitchFails \/ UNCHANGED vars
  PROVE  IInv' /\ Quiet
<1> USE DEF vars, slotVars, nvsVars, bootVars, installVars, bounds, histVars
<1>1. CASE AppStep
  <2>1. Quiet /\ UNCHANGED <<installVars>>
    BY <1>1 DEF AppStep, HealthStart, NvsInit, Revert, RevertClear, StoreInit, UiStart, Pass,
       Quiet, Gates, IInv, SlotTypes
  <2>2. probation' \in BOOLEAN
    BY <1>1 DEF AppStep, HealthStart, NvsInit, Revert, RevertClear, StoreInit, UiStart, Pass,
       IInv, SlotTypes
  <2>3. watch' = "watching" => probation' = (otadata[running] = "pending")
    BY <1>1 DEF AppStep, HealthStart, NvsInit, Revert, RevertClear, StoreInit, UiStart,
       IInv, Watched
  <2> QED BY <2>1, <2>2, <2>3 DEF Quiet, IInv, SlotTypes, BootSlot, Fallbacks, Watched,
             Other, Held
<1>2. CASE PickChannel \/ WatchBench \/ WatchClear
  <2>1. /\ UNCHANGED <<slotVars, bootVars, installVars>>
        /\ watch' = "watching" => watch = "watching"
    BY <1>2 DEF PickChannel, WatchBench, WatchClear
  <2> QED BY <2>1 DEF Quiet, IInv, SlotTypes, BootSlot, Fallbacks, Watched, Other, Held
<1>3. CASE StoreTrial
  <2>1. /\ UNCHANGED <<slotVars, bootVars, watch, image, got, sound>>
        /\ ipc = "trial" /\ ipc' = "restart"
    BY <1>3 DEF StoreTrial
  <2> QED BY <2>1 DEF Quiet, IInv, SlotTypes, BootSlot, Fallbacks, Watched, Other, Held
<1>4. CASE DownloadFails \/ SwitchFails
  <2>1. /\ UNCHANGED <<slotVars, bootVars, watch, image, got, sound>>
        /\ ipc \in {"fetch", "end", "switch"} /\ ipc' = "none"
    BY <1>4 DEF DownloadFails, SwitchFails, Abandon
  <2> QED BY <2>1 DEF Quiet, IInv, SlotTypes, BootSlot, Fallbacks, Watched, Other, Held
<1>5. CASE DownloadChecked
  <2>1. /\ UNCHANGED <<slotVars, bootVars, watch, image, got, sound>>
        /\ ipc = "fetch" /\ ipc' = "end" /\ got = Size /\ sound
    BY <1>5 DEF DownloadChecked, Digest
  <2> QED BY <2>1 DEF Quiet, IInv, SlotTypes, BootSlot, Fallbacks, Watched, Other, Held
<1>6. CASE EndImage
  <2>1. /\ UNCHANGED <<slotVars, bootVars, watch, image, got, sound>>
        /\ ipc = "end" /\ ipc' = "switch"
    BY <1>6 DEF EndImage
  <2> QED BY <2>1 DEF Quiet, IInv, SlotTypes, BootSlot, Fallbacks, Watched, Other, Held
<1>7. CASE UNCHANGED vars
  BY <1>7 DEF Quiet, IInv, SlotTypes, BootSlot, Fallbacks, Watched, Other, Held
<1> QED BY <1>1, <1>2, <1>3, <1>4, <1>5, <1>6, <1>7

LEMMA QuietStutters ==
  ASSUME Quiet
  PROVE  UNCHANGED Abstract!fwVars
  BY DEF Quiet, Abstract!fwVars, Kept, Candidate, OnTrial, Other

-----------------------------------------------------------------------------
(***************************************************************************)
(* The steps that matter, one lemma each: the invariant, and the step of   *)
(* Firmware that they take.                                                *)
(***************************************************************************)
LEMMA InactiveSlot ==
  ASSUME IInv, ipc \notin {"trial", "restart"}, otadata[running] # "pending",
         NEW h \in Images \cup {Junk},
         flash' = [flash EXCEPT ![Other(running)] = h],
         UNCHANGED <<otadata, boot, running, gates, probation, watch>>,
         ipc' = "fetch", image' \in Images, h = Held(got, sound)'
  PROVE  IInv' /\ UNCHANGED Abstract!fwVars
<1>1. boot = running /\ ~OnTrial
  BY DEF IInv, BootSlot, OnTrial
<1>2. /\ running \in Slots /\ Other(running) \in Slots /\ Other(running) # running
      /\ flash'[running] = flash[running] /\ flash'[Other(running)] = h
  BY OtherSlot DEF IInv, SlotTypes
<1>3. UNCHANGED Abstract!fwVars
  BY <1>1, <1>2 DEF Abstract!fwVars, Kept, Candidate, OnTrial, Other
<1>4. SlotTypes' /\ BootSlot'
  BY <1>1, <1>2 DEF IInv, SlotTypes, BootSlot, Other
<1>5. Fallbacks'
  BY <1>1, <1>2 DEF IInv, Fallbacks, BootSlot, OnTrial, Unsettled, Other
<1>6. Watched'
  BY <1>2 DEF IInv, Watched
<1> QED BY <1>3, <1>4, <1>5, <1>6 DEF IInv

LEMMA BeginStep ==
  ASSUME IInv, Begin
  PROVE  IInv' /\ UNCHANGED Abstract!fwVars
<1>1. Junk = Held(got, sound)'
  BY DEF Begin, Held
<1> QED BY <1>1, InactiveSlot DEF Begin, bootVars

LEMMA FeedStep ==
  ASSUME IInv, Feed
  PROVE  IInv' /\ UNCHANGED Abstract!fwVars
<1>1. image' = image /\ image \in Images /\ otadata[running] # "pending"
  BY DEF Feed, IInv, Fallbacks
<1>2. Held(got + 1, sound') = Held(got, sound)' /\ Held(got, sound)' \in Images \cup {Junk}
  BY <1>1 DEF Feed, Held
<1> QED BY <1>1, <1>2, InactiveSlot DEF Feed, bootVars

\* The one irreversible line puts the published image on trial.
LEMMA SwitchStep ==
  ASSUME IInv, Switch
  PROVE  IInv' /\ Abstract!Install
<1> DEFINE o == Other(running)
<1>1. /\ running \in Slots /\ o \in Slots /\ o # running /\ Other(o) = running
      /\ boot = running /\ otadata[running] \notin Unsettled
      /\ flash[o] = image /\ image \in Images
  BY OtherSlot DEF Switch, IInv, SlotTypes, BootSlot, Fallbacks, Unsettled
<1>2. /\ otadata' = [otadata EXCEPT ![o] = "new"] /\ boot' = o /\ ipc' = "trial"
      /\ UNCHANGED <<flash, running, gates, probation, watch, image>>
  BY DEF Switch, bootVars
<1>3. otadata'[o] = "new" /\ otadata'[running] = otadata[running]
  BY <1>1, <1>2 DEF IInv, SlotTypes
<1>4. SlotTypes' /\ BootSlot'
  BY <1>1, <1>2, <1>3 DEF IInv, SlotTypes, BootSlot, Other, States
<1>5. Fallbacks' /\ Watched'
  BY <1>1, <1>2, <1>3 DEF IInv, Fallbacks, Watched, Unsettled, Other
<1>6. Abstract!Install
  BY <1>1, <1>2, <1>3 DEF Abstract!Install, Kept, Candidate, OnTrial, Unsettled
<1> QED BY <1>4, <1>5, <1>6 DEF IInv

\* The health check adopts an image that passes every gate, or changes nothing.
LEMMA ConfirmStep ==
  ASSUME IInv, WatchConfirm
  PROVE  IInv' /\ (Abstract!Adopt \/ UNCHANGED Abstract!fwVars)
<1>1. /\ otadata[running] = "pending" /\ ipc = "none" /\ boot = running
      /\ running \in Slots /\ flash[running] \in Images /\ Passes[flash[running]] = Gates
  BY DEF WatchConfirm, Healthy, IInv, SlotTypes, BootSlot, Fallbacks, Watched
<1>2. /\ UNCHANGED <<flash, boot, running, gates, probation, ipc>>
      /\ watch' # "watching"
  BY DEF WatchConfirm, bootVars, installVars
<1>3. CASE otadata' = [otadata EXCEPT ![running] = "valid"]
  <2>1. otadata'[running] = "valid" /\ otadata'[Other(running)] = otadata[Other(running)]
    BY <1>1, <1>3, OtherSlot DEF IInv, SlotTypes
  <2>2. SlotTypes' /\ BootSlot'
    BY <1>1, <1>2, <1>3, <2>1 DEF IInv, SlotTypes, BootSlot, States
  <2>3. Fallbacks' /\ Watched'
    BY <1>1, <1>2, <2>1 DEF IInv, Fallbacks, Watched, Unsettled, Other
  <2>4. Abstract!Adopt
    BY <1>1, <1>2, <2>1 DEF Abstract!Adopt, Kept, Candidate, OnTrial, Healthful
  <2> QED BY <2>2, <2>3, <2>4 DEF IInv
<1>4. CASE UNCHANGED otadata
  <2>1. IInv'
    BY <1>1, <1>2, <1>4 DEF IInv, SlotTypes, BootSlot, Fallbacks, Watched, Other
  <2>2. UNCHANGED Abstract!fwVars
    BY <1>2, <1>4 DEF Abstract!fwVars, Kept, Candidate, OnTrial, Other
  <2> QED BY <2>1, <2>2
<1> QED BY <1>3, <1>4 DEF WatchConfirm

\* The bootloader gives an image up that is still pending.
LEMMA BootStep ==
  ASSUME IInv, Boot
  PROVE  IInv' /\ (Abstract!GiveUp \/ UNCHANGED Abstract!fwVars)
<1>1. /\ boot \in Slots /\ Other(boot) \in Slots /\ Other(boot) # boot
      /\ Other(Other(boot)) = boot
  BY OtherSlot DEF IInv, SlotTypes
<1>2. /\ running' = boot' /\ gates' = {} /\ probation' = FALSE /\ watch' = "none"
      /\ ipc' = "none" /\ UNCHANGED flash
  BY DEF Boot
<1>3. flash[boot] \in Images
  BY DEF IInv, BootSlot, Fallbacks
<1>4. CASE otadata[boot] = "new"
  <2>1. otadata' = [otadata EXCEPT ![boot] = "pending"] /\ boot' = boot
    BY <1>4 DEF Boot
  <2>2. otadata'[boot] = "pending" /\ otadata'[Other(boot)] = otadata[Other(boot)]
    BY <1>1, <2>1 DEF IInv, SlotTypes
  <2>3. SlotTypes' /\ BootSlot' /\ Watched'
    BY <1>1, <1>2, <1>3, <2>1, <2>2 DEF IInv, SlotTypes, BootSlot, Watched, States
  <2>4. Fallbacks'
    BY <1>1, <1>2, <1>3, <1>4, <2>1, <2>2 DEF IInv, Fallbacks, Unsettled, Other
  <2>5. UNCHANGED Abstract!fwVars
    BY <1>2, <1>4, <2>1, <2>2 DEF Abstract!fwVars, Kept, Candidate, OnTrial, Other
  <2> QED BY <2>3, <2>4, <2>5 DEF IInv
<1>5. CASE otadata[boot] = "pending"
  <2>1. otadata' = [otadata EXCEPT ![boot] = "aborted"] /\ boot' = Other(boot)
    BY <1>5 DEF Boot
  <2>2. otadata'[boot] = "aborted" /\ otadata'[Other(boot)] = otadata[Other(boot)]
    BY <1>1, <2>1 DEF IInv, SlotTypes
  <2>3. flash[Other(boot)] \in Images /\ otadata[Other(boot)] \notin Unsettled
    BY <1>5 DEF IInv, Fallbacks, Unsettled
  <2>4. SlotTypes' /\ BootSlot' /\ Watched'
    BY <1>1, <1>2, <2>1, <2>2, <2>3 DEF IInv, SlotTypes, BootSlot, Watched, States, Unsettled
  <2>5. Fallbacks'
    BY <1>1, <1>2, <2>1, <2>2, <2>3 DEF IInv, Fallbacks, Unsettled
  <2>6. Abstract!GiveUp
    BY <1>1, <1>2, <1>3, <1>5, <2>1, <2>2, <2>3
       DEF Abstract!GiveUp, Kept, Candidate, OnTrial, Unsettled
  <2> QED BY <2>4, <2>5, <2>6 DEF IInv
<1>6. CASE otadata[boot] \notin Unsettled
  <2>1. UNCHANGED <<otadata, boot>>
    BY <1>6 DEF Boot, Unsettled
  <2>2. SlotTypes' /\ BootSlot' /\ Watched'
    BY <1>1, <1>2, <1>3, <1>6, <2>1 DEF IInv, SlotTypes, BootSlot, Watched, Unsettled
  <2>3. Fallbacks'
    BY <1>2, <1>3, <1>6, <2>1 DEF IInv, Fallbacks, Unsettled
  <2>4. UNCHANGED Abstract!fwVars
    BY <1>2, <2>1 DEF Abstract!fwVars, Kept, Candidate, OnTrial, Other
  <2> QED BY <2>2, <2>3, <2>4 DEF IInv
<1> QED BY <1>4, <1>5, <1>6 DEF Unsettled

-----------------------------------------------------------------------------
LEMMA StepInv ==
  ASSUME IInv, [Next]_vars
  PROVE  IInv' /\ [Abstract!FwNext]_(Abstract!fwVars)
<1>1. CASE Begin \/ Feed
  BY <1>1, BeginStep, FeedStep
<1>2. CASE Switch
  BY <1>2, SwitchStep DEF Abstract!FwNext
<1>3. CASE WatchConfirm
  BY <1>3, ConfirmStep DEF Abstract!FwNext
<1>4. CASE Restart \/ Reset
  BY <1>4, BootStep DEF Restart, Reset, Abstract!FwNext
<1>5. CASE AppStep \/ PickChannel \/ WatchBench \/ WatchClear \/ StoreTrial
           \/ DownloadFails \/ DownloadChecked \/ EndImage \/ SwitchFails \/ UNCHANGED vars
  BY <1>5, QuietSteps, QuietStutters
<1> QED BY <1>1, <1>2, <1>3, <1>4, <1>5 DEF Next, WatchStep, InstallStep

LEMMA InitMaps == Init => Abstract!FwInit
<1> SUFFICES ASSUME Init PROVE Abstract!FwInit
  OBVIOUS
<1>1. PICK i \in Images : flash = [s \in Slots |-> IF s = 0 THEN i ELSE Junk]
  BY DEF Init
<1>2. boot = 0 /\ ~OnTrial /\ 0 \in Slots
  BY DEF Init, OnTrial, Slots
<1> QED BY <1>1, <1>2 DEF Abstract!FwInit, Kept, Candidate

\* Whatever resets, installs and failures come: the unit keeps an image to come back to,
\* has only published ones on trial, and adopts none that has not passed every gate.
THEOREM UpdatesSafely == Spec => ImplementsFirmware
<1>1. IInv /\ [Next]_vars => IInv' /\ [Abstract!FwNext]_(Abstract!fwVars)
  BY StepInv
<1> QED BY InitInv, InitMaps, <1>1, PTL DEF Spec, ImplementsFirmware, Abstract!FwSpec

-----------------------------------------------------------------------------
(***************************************************************************)
(* The channel comes down with the image, once.                            *)
(*                                                                         *)
(* While NVS holds the trial of every image it should (~lost), a trial is  *)
(* stored exactly from the installer's last write until the confirmation   *)
(* or the revert clears it.  Across the resets between these writes:       *)
(***************************************************************************)
GivenUp == {"invalid", "aborted"}

\* The other slot holds an image that was rolled back.
Judged == otadata[Other(running)] \in GivenUp

\* What trial_store() leaves for an offer on channel c.
Recorded(c) == IF c = Stable THEN None ELSE c

RestTypes ==
  /\ chan \in Channels /\ trial \in (Channels \ {Stable}) \cup {None}
  /\ from \in Channels /\ origin \in [Slots -> Channels]

\* No image that was given up runs; none is judged while another is on probation.
Standing ==
  /\ otadata[running] \notin GivenUp
  /\ otadata[running] = "pending" => ~Judged

\* What app_main() has learned by each of its stages, and who waits for it to be up.
Knows ==
  /\ stage = "start" \/ otadata[running] = "pending" => ~rolledBack
  /\ stage # "start" /\ ~OnTrial => (rolledBack <=> Judged)
  /\ stage = "clear" => ~OnTrial /\ Judged
  /\ stage # "up" => ipc = "none" /\ "display" \notin gates /\ watch # "clear"
  /\ watch = "clear" => otadata[running] # "pending" /\ ~Judged

\* The trial that is stored is the one of the image on trial.
Recording ==
  /\ OnTrial => ~picked
  /\ ipc = "trial" => origin[boot] = from
  /\ ~lost /\ (ipc = "restart" \/ otadata[running] = "pending")
       => trial = Recorded(origin[boot])

\* It is gone once the image was confirmed or the revert is done; until then the revert
\* still has it, or has put the channel back and only not cleared it yet.
Reverting ==
  ~OnTrial /\ ~lost =>
    /\ ~Judged \/ picked \/ stage \in {"store", "display", "up"}
         => trial = None \/ watch = "clear"
    /\ Judged /\ ~picked /\ origin[Other(running)] # Stable =>
         /\ trial = origin[Other(running)] \/ chan = Stable
         /\ stage \notin {"start", "nvs", "revert"} => chan = Stable

RInv == IInv /\ RestTypes /\ Standing /\ Knows /\ Recording /\ Reverting

LEMMA RInit == Init => RInv
<1> SUFFICES ASSUME Init PROVE RInv
  OBVIOUS
<1>1. /\ chan \in Channels /\ trial = None /\ from = Stable
      /\ origin = [s \in Slots |-> Stable]
      /\ boot = 0 /\ running = 0 /\ otadata = [s \in Slots |-> "undefined"]
      /\ stage = "start" /\ gates = {} /\ watch = "none" /\ ipc = "none"
  BY DEF Init
<1>2. ~rolledBack /\ ~picked /\ ~lost
  BY DEF Init
<1>3. \A s \in Slots : otadata[s] = "undefined"
  BY <1>1
<1>4. otadata[boot] = "undefined" /\ otadata[running] = "undefined" /\ ~OnTrial
  BY <1>1, <1>3 DEF OnTrial, Slots
<1>5. otadata[Other(running)] = "undefined"
  BY <1>1, <1>3, OtherSlot DEF Slots
<1>6. RestTypes
  BY <1>1 DEF RestTypes
<1>7. Standing /\ ~Judged
  BY <1>4, <1>5 DEF Standing, Judged, GivenUp
<1>8. Knows /\ Recording
  BY <1>1, <1>2, <1>4, <1>7 DEF Knows, Recording
<1>9. Reverting
  BY <1>1, <1>7 DEF Reverting
<1> QED  BY InitInv, <1>6, <1>7, <1>8, <1>9 DEF RInv

\* The slot that runs, in the states the steps of the install see.
LEMMA SlotFacts ==
  ASSUME RInv
  PROVE  /\ running \in Slots /\ boot \in Slots /\ Other(running) \in Slots
         /\ Other(running) # running /\ Other(Other(running)) = running
         /\ ipc \in {"trial", "restart"} => boot = Other(running) /\ OnTrial /\ ~Judged
         /\ ipc \notin {"trial", "restart"} => boot = running
         /\ otadata[running] = "pending" => ipc = "none" /\ boot = running
         /\ ipc \notin {"trial", "restart"} /\ otadata[running] # "pending" => ~OnTrial
<1>1. running \in Slots /\ boot \in Slots
  BY DEF RInv, IInv, SlotTypes
<1>2. Other(running) \in Slots /\ Other(running) # running /\ Other(Other(running)) = running
  BY <1>1, OtherSlot
<1>3. ipc \in {"trial", "restart"} => boot = Other(running) /\ otadata[boot] = "new"
  BY DEF RInv, IInv, BootSlot
<1>4. ipc \notin {"trial", "restart"} => boot = running /\ otadata[boot] # "new"
  BY DEF RInv, IInv, BootSlot
<1>5. otadata[running] = "pending" => ipc = "none"
  BY DEF RInv, IInv, Fallbacks
<1> QED  BY <1>1, <1>2, <1>3, <1>4, <1>5 DEF OnTrial, Judged, GivenUp

-----------------------------------------------------------------------------
\* A step that leaves otadata and the channels alone, and the app at its stage.
LEMMA KeepsChannel ==
  ASSUME RInv, IInv', UNCHANGED <<otadata, boot, running, chan, trial, from, origin, stage,
                                  rolledBack, picked, lost, gates>>,
         ipc' = ipc \/ (ipc \notin {"trial", "restart"} /\ ipc' \notin {"trial", "restart"}
                        /\ stage = "up"),
         watch' = watch \/ (watch = "watching" /\ watch' # "clear")
  PROVE  RInv'
<1>1. RestTypes' /\ Standing'
  BY DEF RInv, RestTypes, Standing, Judged, Other
<1>2. Judged' = Judged /\ OnTrial' = OnTrial
  BY DEF Judged, OnTrial, Other
<1>3. watch' = "clear" => watch = "clear"
  OBVIOUS
<1>4. watch = "clear" => watch' = "clear"
  OBVIOUS
<1>5. ipc' = "trial" => ipc = "trial"
  OBVIOUS
<1>6. ipc' = "restart" => ipc = "restart"
  OBVIOUS
<1>7. stage # "up" => ipc' = ipc
  OBVIOUS
<1>8. Knows'
  BY <1>2, <1>3, <1>7, Zenon DEF RInv, Knows
<1>9. Recording'
  BY <1>2, <1>5, <1>6, Zenon DEF RInv, Recording, Recorded
<1>10. Reverting'
  BY <1>2, <1>4, Zenon DEF RInv, Reverting, Other
<1> QED  BY <1>1, <1>8, <1>9, <1>10 DEF RInv
-----------------------------------------------------------------------------
\* app_main(), one lemma per step.
LEMMA HealthStartR ==
  ASSUME RInv, IInv', HealthStart
  PROVE  RInv'
<1>1. /\ stage = "start" /\ stage' = "nvs" /\ watch' = "watching"
      /\ UNCHANGED <<otadata, boot, running, chan, trial, gates, ipc, from, origin, picked, lost>>
  BY DEF HealthStart, slotVars, nvsVars, installVars, histVars
<1>2. rolledBack' <=> Judged
  BY DEF HealthStart, Judged, GivenUp
<1>3. Judged' = Judged /\ OnTrial' = OnTrial
  BY <1>1 DEF Judged, OnTrial, Other
<1>4. RestTypes' /\ Standing'
  BY <1>1 DEF RInv, RestTypes, Standing, Judged, Other
<1>5. otadata'[running'] = "pending" => ~rolledBack'
  BY <1>1, <1>2 DEF RInv, Standing
<1>6. ipc' = "none" /\ "display" \notin gates' /\ watch' # "clear" /\ watch # "clear"
  BY <1>1 DEF RInv, Knows
<1>7. Knows'
  BY <1>1, <1>2, <1>3, <1>5, <1>6, Zenon DEF Knows
<1>8. Recording'
  BY <1>1, <1>3, Zenon DEF RInv, Recording, Recorded
<1>9. Reverting'
  BY <1>1, <1>3, <1>6, Zenon DEF RInv, Reverting, Other
<1> QED  BY <1>4, <1>7, <1>8, <1>9 DEF RInv

LEMMA NvsInitR ==
  ASSUME RInv, IInv', NvsInit
  PROVE  RInv'
<1>1. /\ stage = "nvs" /\ stage' = "revert"
      /\ UNCHANGED <<otadata, boot, running, rolledBack, watch, ipc, from, origin, picked>>
  BY DEF NvsInit, slotVars, installVars
<1>2. "display" \notin gates'
  BY DEF NvsInit, Pass, RInv, Knows
<1>3. Judged' = Judged /\ OnTrial' = OnTrial
  BY <1>1 DEF Judged, OnTrial, Other
<1>4. chan' \in Channels /\ trial' \in (Channels \ {Stable}) \cup {None}
  BY DEF NvsInit, nvsVars, RInv, RestTypes
<1>5. RestTypes' /\ Standing'
  BY <1>1, <1>4 DEF RInv, RestTypes, Standing, Judged, Other
<1>6. ipc' = "none" /\ watch' # "clear"
  BY <1>1 DEF RInv, Knows
<1>7. Knows'
  BY <1>1, <1>2, <1>3, <1>6, Zenon DEF RInv, Knows
<1>8. ~lost' => UNCHANGED <<chan, trial>> /\ ~lost
  BY Zenon DEF NvsInit, nvsVars
<1>9. Recording'
  BY <1>1, <1>3, <1>8, Zenon DEF RInv, Recording, Recorded
<1>10. Reverting'
  BY <1>1, <1>3, <1>6, <1>8, Zenon DEF RInv, Reverting, Other
<1> QED  BY <1>5, <1>7, <1>9, <1>10 DEF RInv

LEMMA RevertR ==
  ASSUME RInv, IInv', Revert
  PROVE  RInv'
<1>1. /\ stage = "revert"
      /\ UNCHANGED <<otadata, boot, running, trial, gates, rolledBack, watch, ipc, from,
                     origin, picked>>
  BY DEF Revert, slotVars, installVars
<1>2. Judged' = Judged /\ OnTrial' = OnTrial
  BY <1>1 DEF Judged, OnTrial, Other
<1>3. chan' \in Channels
  BY DEF Revert, RInv, RestTypes
<1>4. RestTypes' /\ Standing'
  BY <1>1, <1>3 DEF RInv, RestTypes, Standing, Judged, Other
<1>5. ipc = "none" /\ watch # "clear" /\ "display" \notin gates
  BY <1>1 DEF RInv, Knows
<1>6. otadata[running] # "pending" => ~OnTrial
  BY <1>5, SlotFacts
<1>7. rolledBack => otadata[running] # "pending"
  BY Zenon DEF RInv, Knows
<1>8. rolledBack => ~OnTrial /\ Judged
  BY <1>1, <1>6, <1>7, Zenon DEF RInv, Knows
<1>9. CASE rolledBack /\ trial # None
  <2>1. stage' = "clear"
    BY <1>9, Zenon DEF Revert
  <2>2. ~lost' => chan' = Stable /\ ~lost
    BY <1>9, Zenon DEF Revert
  <2>3. Knows'
    BY <1>1, <1>2, <1>5, <1>8, <1>9, <2>1, Zenon DEF RInv, Knows
  <2>4. Recording'
    BY <1>1, <1>2, <2>2, Zenon DEF RInv, Recording, Recorded
  <2>5. Reverting'
    BY <1>1, <1>2, <1>8, <1>9, <2>1, <2>2, Zenon DEF RInv, Reverting, Other
  <2> QED  BY <1>4, <2>3, <2>4, <2>5 DEF RInv
<1>10. CASE ~(rolledBack /\ trial # None)
  <2>1. stage' = "store" /\ chan' = chan
    BY <1>10, Zenon DEF Revert
  <2>2. ~lost' => ~lost
    BY <1>10, Zenon DEF Revert
  <2>3. Knows'
    BY <1>1, <1>2, <1>5, <1>8, <2>1, Zenon DEF RInv, Knows
  <2>4. Recording'
    BY <1>1, <1>2, <2>2, Zenon DEF RInv, Recording, Recorded
  <2>5. ~OnTrial /\ Judged => trial = None
    BY <1>1, <1>10, Zenon DEF RInv, Knows
  <2>6. origin[Other(running)] \in Channels /\ None \notin Channels
    BY SlotFacts DEF RInv, RestTypes
  <2>7. origin[Other(running)] # None
    BY <2>6
  <2>8. Reverting'
    BY <1>1, <1>2, <2>1, <2>2, <2>5, <2>7, Zenon DEF RInv, Reverting, Other
  <2> QED  BY <1>4, <2>3, <2>4, <2>8 DEF RInv
<1> QED  BY <1>9, <1>10

LEMMA RevertClearR ==
  ASSUME RInv, IInv', RevertClear
  PROVE  RInv'
<1>1. /\ stage = "clear" /\ stage' = "store"
      /\ UNCHANGED <<otadata, boot, running, chan, gates, rolledBack, watch, ipc, from,
                     origin, picked>>
  BY DEF RevertClear, slotVars, installVars
<1>2. Judged' = Judged /\ OnTrial' = OnTrial
  BY <1>1 DEF Judged, OnTrial, Other
<1>3. trial' \in (Channels \ {Stable}) \cup {None}
  BY DEF RevertClear, RInv, RestTypes
<1>4. RestTypes' /\ Standing'
  BY <1>1, <1>3 DEF RInv, RestTypes, Standing, Judged, Other
<1>5. ~OnTrial /\ Judged
  BY <1>1 DEF RInv, Knows
<1>6. Knows'
  BY <1>1, <1>2, <1>5, Zenon DEF RInv, Knows
<1>7. ~lost' => trial' = None /\ ~lost
  BY Zenon DEF RevertClear
<1>8. ipc = "none" /\ otadata[running] # "pending"
  BY <1>1, <1>5, SlotFacts DEF RInv, Knows, OnTrial
<1>9. Recording'
  BY <1>1, <1>2, <1>5, <1>8, Zenon DEF RInv, Recording, Recorded
<1>10. Reverting'
  BY <1>1, <1>2, <1>5, <1>7, Zenon DEF RInv, Reverting, Other
<1> QED  BY <1>4, <1>6, <1>9, <1>10 DEF RInv

LEMMA StoreDisplayR ==
  ASSUME RInv, IInv', StoreInit \/ UiStart
  PROVE  RInv'
<1>1. /\ stage \in {"store", "display"} /\ stage' \in {"display", "up"}
      /\ UNCHANGED <<otadata, boot, running, chan, trial, rolledBack, watch, ipc, from,
                     origin, picked, lost>>
  BY DEF StoreInit, UiStart, slotVars, nvsVars, installVars, histVars, bounds
<1>2. Judged' = Judged /\ OnTrial' = OnTrial
  BY <1>1 DEF Judged, OnTrial, Other
<1>3. RestTypes' /\ Standing'
  BY <1>1 DEF RInv, RestTypes, Standing, Judged, Other
<1>4. stage' # "up" => "display" \notin gates'
  BY DEF StoreInit, UiStart, Pass, RInv, Knows
<1>5. stage' # "start" /\ stage' # "clear" /\ stage # "start" /\ stage # "up"
      /\ stage \notin {"start", "nvs", "revert"} /\ stage \in {"store", "display", "up"}
  BY <1>1
<1>6. Knows'
  BY <1>1, <1>2, <1>4, <1>5, Zenon DEF RInv, Knows
<1>7. Recording'
  BY <1>1, <1>2, Zenon DEF RInv, Recording, Recorded
<1>8. Reverting'
  BY <1>1, <1>2, <1>5, Zenon DEF RInv, Reverting, Other
<1> QED  BY <1>3, <1>6, <1>7, <1>8 DEF RInv
-----------------------------------------------------------------------------
\* The confirmation: what is left to clear from now on is the watch task's to clear.
LEMMA WatchConfirmR ==
  ASSUME RInv, IInv', WatchConfirm
  PROVE  RInv'
<1>1. /\ watch = "watching" /\ gates = Gates
      /\ UNCHANGED <<boot, running, chan, trial, stage, gates, rolledBack, ipc, from,
                     origin, picked, lost>>
  BY DEF WatchConfirm, Healthy, nvsVars, bootVars, installVars, histVars
<1>2. otadata[running] = "pending" /\ running \in Slots
  BY SlotFacts DEF WatchConfirm, RInv, IInv, Watched
<1>3. ipc = "none" /\ boot = running /\ OnTrial
  BY <1>2, SlotFacts DEF OnTrial
<1>4. stage = "up"
  BY <1>1 DEF RInv, Knows, Gates
<1>5. ~Judged /\ ~rolledBack
  BY <1>2, <1>3, Zenon DEF RInv, Standing, Knows
<1>6. CASE UNCHANGED otadata
  <2>1. watch' # "clear" \/ watch' = "clear"
    OBVIOUS
  <2>2. CASE watch' = "refused" \/ watch' = watch
    <3>1. watch' = watch \/ (watch = "watching" /\ watch' # "clear")
      BY <1>1, <2>2
    <3> QED  BY <1>1, <1>6, <3>1, KeepsChannel
  <2>3. CASE watch' = "clear" /\ otadata' = [otadata EXCEPT ![running] = "valid"]
    <3>1. otadata'[running] = "valid"
      BY <1>2, <2>3 DEF RInv, IInv, SlotTypes
    <3> QED  BY <1>2, <1>6, <3>1
  <2> QED  BY <1>6, <2>2, <2>3 DEF WatchConfirm
<1>7. CASE otadata' = [otadata EXCEPT ![running] = "valid"] /\ watch' = "clear"
  <2>1. otadata'[running] = "valid" /\ otadata'[Other(running)] = otadata[Other(running)]
    BY <1>2, <1>7, SlotFacts DEF RInv, IInv, SlotTypes
  <2>2. ~OnTrial' /\ ~Judged'
    BY <1>1, <1>3, <1>5, <2>1 DEF OnTrial, Judged, Other
  <2>3. RestTypes'
    BY <1>1 DEF RInv, RestTypes
  <2>4. Standing'
    BY <1>1, <2>1, <2>2 DEF Standing, GivenUp
  <2>5. otadata'[running'] # "pending"
    BY <1>1, <2>1
  <2>6. stage' # "start" /\ stage' # "clear" /\ stage' = "up"
    BY <1>1, <1>4
  <2>7. Knows'
    BY <1>1, <1>5, <2>2, <2>5, <2>6, Zenon DEF Knows
  <2>8. ipc' # "trial" /\ ipc' # "restart"
    BY <1>1, <1>3
  <2>9. Recording'
    BY <2>2, <2>5, <2>8, Zenon DEF Recording
  <2>10. Reverting'
    BY <1>7, <2>2, Zenon DEF Reverting
  <2> QED  BY <2>3, <2>4, <2>7, <2>9, <2>10 DEF RInv
<1> QED  BY <1>6, <1>7 DEF WatchConfirm

LEMMA WatchClearR ==
  ASSUME RInv, IInv', WatchClear
  PROVE  RInv'
<1>1. /\ watch = "clear" /\ watch' = "confirmed"
      /\ UNCHANGED <<otadata, boot, running, chan, stage, gates, rolledBack, ipc, from,
                     origin, picked>>
  BY DEF WatchClear, slotVars, bootVars, installVars
<1>2. Judged' = Judged /\ OnTrial' = OnTrial
  BY <1>1 DEF Judged, OnTrial, Other
<1>3. trial' \in (Channels \ {Stable}) \cup {None}
  BY DEF WatchClear, RInv, RestTypes
<1>4. RestTypes' /\ Standing'
  BY <1>1, <1>3 DEF RInv, RestTypes, Standing, Judged, Other
<1>5. otadata[running] # "pending" /\ ~Judged
  BY <1>1 DEF RInv, Knows
<1>6. watch' # "clear"
  BY <1>1
<1>7. Knows'
  BY <1>1, <1>2, <1>6, Zenon DEF RInv, Knows
<1>8. ~lost' => trial' = None /\ ~lost /\ ipc # "restart"
  BY Zenon DEF WatchClear
<1>9. Recording'
  BY <1>1, <1>2, <1>5, <1>8, Zenon DEF RInv, Recording
<1>10. Reverting'
  BY <1>2, <1>5, <1>8, Zenon DEF Reverting
<1> QED  BY <1>4, <1>7, <1>9, <1>10 DEF RInv

-----------------------------------------------------------------------------
\* The install: nothing before the switch, the switch itself, and the trial.
LEMMA InstallR ==
  ASSUME RInv, IInv', WatchBench \/ Begin \/ Feed \/ DownloadFails \/ DownloadChecked
                      \/ EndImage \/ SwitchFails \/ UNCHANGED vars
  PROVE  RInv'
<1>1. CASE WatchBench \/ UNCHANGED vars
  <2>1. UNCHANGED <<otadata, boot, running, chan, trial, from, origin, stage, rolledBack,
                    picked, lost, gates, ipc>>
    BY <1>1 DEF WatchBench, vars, slotVars, nvsVars, bootVars, installVars, histVars, bounds
  <2>2. watch' = watch \/ (watch = "watching" /\ watch' # "clear")
    BY <1>1 DEF WatchBench, vars
  <2> QED  BY <2>1, <2>2, KeepsChannel
<1>2. CASE Begin
  <2>1. /\ stage = "up" /\ ipc = "none" /\ ipc' = "fetch" /\ from' = chan
        /\ UNCHANGED <<otadata, boot, running, chan, trial, origin, stage, rolledBack,
                       picked, lost, gates, watch>>
    BY <1>2 DEF Begin, nvsVars, bootVars, histVars
  <2>2. Judged' = Judged /\ OnTrial' = OnTrial
    BY <2>1 DEF Judged, OnTrial, Other
  <2>3. RestTypes' /\ Standing'
    BY <2>1, <2>2 DEF RInv, RestTypes, Standing
  <2>4. Knows'
    BY <2>1, <2>2, Zenon DEF RInv, Knows
  <2>5. ipc' # "trial" /\ ipc' # "restart"
    BY <2>1
  <2>6. Recording'
    BY <2>1, <2>2, <2>5, Zenon DEF RInv, Recording, Recorded
  <2>7. Reverting'
    BY <2>1, <2>2, Zenon DEF RInv, Reverting, Other
  <2> QED  BY <2>3, <2>4, <2>6, <2>7 DEF RInv
<1>3. CASE Feed \/ DownloadFails \/ DownloadChecked \/ EndImage \/ SwitchFails
  <2>1. /\ ipc \in {"fetch", "end", "switch"} /\ ipc' \notin {"trial", "restart"}
        /\ UNCHANGED <<otadata, boot, running, chan, trial, from, origin, stage,
                       rolledBack, picked, lost, gates, watch>>
    BY <1>3 DEF Feed, DownloadFails, DownloadChecked, EndImage, SwitchFails, Abandon,
       slotVars, nvsVars, bootVars, histVars, bounds
  <2>2. stage = "up"
    BY <2>1 DEF RInv, Knows
  <2>3. ipc' = ipc \/ (ipc \notin {"trial", "restart"} /\ ipc' \notin {"trial", "restart"}
                        /\ stage = "up")
    BY <2>1, <2>2
  <2>4. watch' = watch \/ (watch = "watching" /\ watch' # "clear")
    BY <2>1
  <2> QED  BY <2>1, <2>3, <2>4, KeepsChannel
<1> QED  BY <1>1, <1>2, <1>3

LEMMA SwitchR ==
  ASSUME RInv, IInv', Switch
  PROVE  RInv'
<1>1. /\ ipc = "switch" /\ ipc' = "trial" /\ boot' = Other(running)
      /\ otadata' = [otadata EXCEPT ![Other(running)] = "new"]
      /\ origin' = [origin EXCEPT ![Other(running)] = from]
      /\ UNCHANGED <<running, chan, trial, stage, gates, rolledBack, watch, from, lost>>
  BY DEF Switch, nvsVars, bootVars
<1>2. ~picked'
  BY DEF Switch
<1>3. /\ otadata'[Other(running)] = "new" /\ otadata'[running] = otadata[running]
      /\ origin'[Other(running)] = from
  BY <1>1, SlotFacts DEF RInv, IInv, SlotTypes, RestTypes
<1>4. OnTrial' /\ ~Judged' /\ otadata[running] # "pending"
  BY <1>1, <1>3, SlotFacts DEF OnTrial, Judged, Other, GivenUp
<1>5. RestTypes' /\ Standing'
  BY <1>1, <1>3, <1>4, SlotFacts DEF RInv, RestTypes, Standing
<1>6. stage = "up" /\ stage' # "start" /\ stage' # "clear"
  BY <1>1 DEF RInv, Knows
<1>7. otadata'[running'] # "pending" /\ stage' = "up"
  BY <1>1, <1>3, <1>4, <1>6
<1>8. Knows'
  BY <1>4, <1>6, <1>7, Zenon DEF Knows
<1>9. origin'[boot'] = from' /\ ipc' # "restart"
  BY <1>1, <1>3
<1>10. Recording'
  BY <1>2, <1>7, <1>9, Zenon DEF Recording
<1>11. Reverting'
  BY <1>4, Zenon DEF Reverting
<1> QED  BY <1>5, <1>8, <1>10, <1>11 DEF RInv

LEMMA StoreTrialR ==
  ASSUME RInv, IInv', StoreTrial
  PROVE  RInv'
<1>1. /\ ipc = "trial" /\ ipc' = "restart"
      /\ UNCHANGED <<otadata, boot, running, chan, stage, gates, rolledBack, watch, from,
                     origin, picked>>
  BY DEF StoreTrial, slotVars, bootVars
<1>2. Judged' = Judged /\ OnTrial' = OnTrial
  BY <1>1 DEF Judged, OnTrial, Other
<1>3. trial' \in (Channels \ {Stable}) \cup {None}
  BY DEF StoreTrial, Record, RInv, RestTypes
<1>4. RestTypes' /\ Standing'
  BY <1>1, <1>3 DEF RInv, RestTypes, Standing, Judged, Other
<1>5. OnTrial /\ origin[boot] = from
  BY <1>1, SlotFacts DEF RInv, Recording
<1>6. stage = "up"
  BY <1>1 DEF RInv, Knows
<1>7. stage' = "up" /\ stage' # "start" /\ stage' # "clear"
  BY <1>1, <1>6
<1>8. Knows'
  BY <1>1, <1>2, <1>5, <1>7, Zenon DEF RInv, Knows
<1>9. ~lost' => chan = from /\ Record
  BY Zenon DEF StoreTrial
<1>10. ~lost' => trial' = Recorded(from)
  BY <1>9, Zenon DEF Record, Recorded
<1>11. otadata[running] # "pending" /\ ipc' # "trial"
  BY <1>1, SlotFacts
<1>12. Recording'
  BY <1>1, <1>2, <1>5, <1>10, <1>11, Zenon DEF RInv, Recording, Recorded
<1>13. Reverting'
  BY <1>2, <1>5, Zenon DEF Reverting
<1> QED  BY <1>4, <1>8, <1>12, <1>13 DEF RInv

-----------------------------------------------------------------------------
LEMMA PickChannelR ==
  ASSUME RInv, IInv', PickChannel
  PROVE  RInv'
<1>1. /\ stage = "up" /\ chan' \in Channels
      /\ UNCHANGED <<otadata, boot, running, trial, stage, gates, rolledBack, watch, ipc,
                     from, origin, lost>>
  BY DEF PickChannel, slotVars, bootVars, installVars
<1>2. picked' <=> (picked \/ ~OnTrial)
  BY DEF PickChannel
<1>3. Judged' = Judged /\ OnTrial' = OnTrial
  BY <1>1 DEF Judged, OnTrial, Other
<1>4. RestTypes' /\ Standing'
  BY <1>1 DEF RInv, RestTypes, Standing, Judged, Other
<1>5. Knows'
  BY <1>1, <1>3, Zenon DEF RInv, Knows
<1>6. Recording'
  BY <1>1, <1>2, <1>3, Zenon DEF RInv, Recording, Recorded
<1>7. stage \in {"store", "display", "up"}
  BY <1>1
<1>8. Reverting'
  BY <1>1, <1>2, <1>3, <1>7, Zenon DEF RInv, Reverting
<1> QED  BY <1>4, <1>5, <1>6, <1>8 DEF RInv

\* A reset, at any moment.
LEMMA BootR ==
  ASSUME RInv, IInv', Boot
  PROVE  RInv'
<1>1. /\ running' = boot' /\ stage' = "start" /\ gates' = {} /\ watch' = "none" /\ ipc' = "none"
      /\ UNCHANGED <<chan, trial, from, origin, picked>>
  BY DEF Boot, nvsVars
<1>2. ~rolledBack'
  BY DEF Boot
<1>3. ~lost' => ~lost /\ ipc # "trial" /\ watch # "clear"
  BY Zenon DEF Boot
<1>4. RestTypes'
  BY <1>1 DEF RInv, RestTypes
<1>5. stage' # "clear" /\ ipc' # "trial" /\ ipc' # "restart" /\ "display" \notin gates'
      /\ watch' # "clear" /\ stage' \notin {"store", "display", "up"}
      /\ stage' \in {"start", "nvs", "revert"}
  BY <1>1
<1>6. Knows'
  BY <1>1, <1>2, <1>5, Zenon DEF Knows
<1>7. boot \in Slots /\ Other(boot) \in Slots /\ Other(boot) # boot /\ Other(Other(boot)) = boot
  BY SlotFacts, OtherSlot
<1>8. CASE otadata[boot] = "new"
  <2>1. otadata' = [otadata EXCEPT ![boot] = "pending"] /\ boot' = boot
    BY <1>8 DEF Boot
  <2>2. otadata'[boot] = "pending" /\ otadata'[Other(boot)] = otadata[Other(boot)]
    BY <1>7, <2>1 DEF RInv, IInv, SlotTypes
  <2>3. ipc \in {"trial", "restart"}
    BY <1>8 DEF RInv, IInv, BootSlot
  <2>4. Other(boot) = running
    BY <2>3, SlotFacts
  <2>5. OnTrial' /\ ~Judged' /\ otadata'[running'] = "pending"
    BY <1>1, <2>1, <2>2, <2>4 DEF RInv, Standing, OnTrial, Judged, GivenUp, Other
  <2>6. Standing'
    BY <2>5 DEF Standing, GivenUp
  <2>7. ~picked
    BY <1>8 DEF RInv, Recording, OnTrial
  <2>8. ~lost' => ipc = "restart"
    BY <1>3, <2>3
  <2>9. ~lost' => trial' = Recorded(origin'[boot'])
    BY <1>1, <1>3, <2>1, <2>8, Zenon DEF RInv, Recording, Recorded
  <2>10. Recording'
    BY <1>1, <1>5, <2>7, <2>9, Zenon DEF Recording, Recorded
  <2>11. Reverting'
    BY <2>5, Zenon DEF Reverting
  <2> QED  BY <1>4, <1>6, <2>6, <2>10, <2>11 DEF RInv
<1>9. CASE otadata[boot] = "pending"
  <2>1. otadata' = [otadata EXCEPT ![boot] = "aborted"] /\ boot' = Other(boot)
    BY <1>9 DEF Boot
  <2>2. otadata'[boot] = "aborted" /\ otadata'[Other(boot)] = otadata[Other(boot)]
    BY <1>7, <2>1 DEF RInv, IInv, SlotTypes
  <2>3. ipc = "none" /\ boot = running
    BY <1>9, SlotFacts DEF RInv, IInv, BootSlot
  <2>4. otadata[Other(boot)] \notin GivenUp /\ otadata[Other(boot)] \notin Unsettled
    BY <1>9, <2>3 DEF RInv, IInv, Fallbacks, Standing, Judged, Unsettled
  <2>5. running' = Other(boot) /\ Other(running)' = boot
    BY <1>1, <1>7, <2>1 DEF Other
  <2>6. ~OnTrial' /\ Judged' /\ otadata'[running'] \notin GivenUp
    BY <1>1, <2>1, <2>2, <2>4, <2>5 DEF OnTrial, Judged, Unsettled, GivenUp
  <2>7. otadata'[running'] # "pending"
    BY <2>2, <2>4, <2>5 DEF Unsettled
  <2>8. Standing'
    BY <2>6, <2>7 DEF Standing
  <2>9. Recording'
    BY <1>5, <2>6, <2>7, Zenon DEF Recording
  <2>10. ~picked
    BY <1>9 DEF RInv, Recording, OnTrial
  <2>11. ~lost' => trial' = Recorded(origin'[Other(running)'])
    BY <1>1, <1>3, <1>9, <2>3, <2>5 DEF RInv, Recording, Recorded
  <2>12. Reverting'
    <3>1. ~picked'
      BY <1>1, <2>10
    <3>2. ~lost' /\ origin'[Other(running')] # Stable => trial' = origin'[Other(running')]
      BY <2>11 DEF Recorded, Other
    <3> QED  BY <1>5, <2>6, <3>1, <3>2, Zenon DEF Reverting
  <2> QED  BY <1>4, <1>6, <2>8, <2>9, <2>12 DEF RInv
<1>10. CASE otadata[boot] \notin Unsettled
  <2>1. UNCHANGED <<otadata, boot>>
    BY <1>10 DEF Boot, Unsettled
  <2>2. ~OnTrial /\ boot = running
    BY <1>10, SlotFacts DEF OnTrial, Unsettled
  <2>3. Judged' = Judged /\ OnTrial' = OnTrial /\ running' = running
    BY <1>1, <2>1, <2>2 DEF Judged, OnTrial, Other
  <2>4. Standing' /\ otadata'[running'] # "pending"
    BY <1>10, <2>1, <2>2, <2>3 DEF RInv, Standing, Unsettled
  <2>5. Recording'
    BY <1>5, <2>2, <2>3, <2>4, Zenon DEF Recording
  <2>6. Reverting'
    BY <1>1, <1>3, <1>5, <2>2, <2>3, Zenon DEF RInv, Reverting, Other
  <2> QED  BY <1>4, <1>6, <2>4, <2>5, <2>6 DEF RInv
<1> QED  BY <1>8, <1>9, <1>10 DEF Unsettled

-----------------------------------------------------------------------------
LEMMA RStep ==
  ASSUME RInv, [Next]_vars
  PROVE  RInv'
<1>1. IInv'
  BY StepInv DEF RInv
<1>2. CASE AppStep
  BY <1>1, <1>2, HealthStartR, NvsInitR, RevertR, RevertClearR, StoreDisplayR DEF AppStep
<1>3. CASE WatchConfirm \/ WatchClear \/ Switch \/ StoreTrial \/ PickChannel
  BY <1>1, <1>3, WatchConfirmR, WatchClearR, SwitchR, StoreTrialR, PickChannelR
<1>4. CASE Restart \/ Reset
  BY <1>1, <1>4, BootR DEF Restart, Reset
<1>5. CASE WatchBench \/ Begin \/ Feed \/ DownloadFails \/ DownloadChecked \/ EndImage
           \/ SwitchFails \/ UNCHANGED vars
  BY <1>1, <1>5, InstallR
<1> QED  BY <1>2, <1>3, <1>4, <1>5 DEF Next, WatchStep, InstallStep

LEMMA RAlways == Spec => []RInv
BY RInit, RStep, PTL DEF Spec

\* Wherever the power goes between the bootloader's fall back and the end of the revert:
\* when the panel comes up after an update that rolled back, its channel is gone, unless
\* the rider chose one since or NVS lost the trial.
THEOREM ChannelComesDown == Spec => []RevertsChannel
<1>1. RInv => RevertsChannel
  <2> SUFFICES ASSUME RInv, stage = "up", rolledBack, ~OnTrial,
                      origin[Other(running)] # Stable, ~picked, ~lost
               PROVE  chan = Stable
    BY Zenon DEF RevertsChannel
  <2>1. Judged /\ stage \notin {"start", "nvs", "revert"}
    BY DEF RInv, Knows
  <2> QED  BY <2>1, Zenon DEF RInv, Reverting
<1> QED  BY <1>1, RAlways, PTL

\* No step but the rider's changes a channel that was chosen while no image was on trial,
\* while NVS is whole: a revert happens once, and never after a confirmation.
THEOREM ChoiceStays == Spec => ChoiceKept
<1>1. RInv /\ [Next]_vars => [chan' # chan /\ stage # "up" => ~picked \/ lost \/ lost']_vars
  <2> SUFFICES ASSUME RInv, Next, chan' # chan, stage # "up", picked, ~lost, ~lost'
               PROVE  FALSE
    BY Zenon
  <2>1. ~PickChannel
    BY Zenon DEF PickChannel
  <2>2. NvsInit \/ Revert
    BY <2>1 DEF Next, AppStep, HealthStart, RevertClear, StoreInit, UiStart, WatchStep,
       WatchBench, WatchConfirm, WatchClear, InstallStep, Begin, Feed, DownloadFails,
       DownloadChecked, EndImage, Switch, SwitchFails, StoreTrial, Abandon, Restart, Reset,
       Boot, nvsVars
  <2>3. ~NvsInit
    BY Zenon DEF NvsInit, nvsVars
  <2>4. Revert /\ rolledBack /\ trial # None
    BY <2>2, <2>3, Zenon DEF Revert
  <2>5. stage = "revert" /\ watch # "clear"
    BY <2>4 DEF Revert, RInv, Knows
  <2>6. rolledBack => otadata[running] # "pending"
    BY Zenon DEF RInv, Knows
  <2>7. ~OnTrial
    BY <2>4, <2>5, <2>6, SlotFacts DEF RInv, Knows
  <2>8. trial = None
    BY <2>5, <2>7, Zenon DEF RInv, Reverting
  <2> QED  BY <2>4, <2>8
<1> QED  BY <1>1, RAlways, PTL DEF Spec, ChoiceKept
-----------------------------------------------------------------------------
\* The kinds that no proof above needed.
Progress ==
  /\ stage \in {"start", "nvs", "revert", "clear", "store", "display", "up"}
  /\ watch \in {"none", "watching", "clear", "confirmed", "refused"}
  /\ ipc \in {"none", "fetch", "end", "switch", "trial", "restart"}
  /\ image \in Images \cup {Junk} /\ got \in 0 .. Size
  /\ resets \in Nat /\ installs \in Nat /\ faults \in Nat

Flags ==
  /\ rolledBack \in BOOLEAN /\ sound \in BOOLEAN /\ picked \in BOOLEAN /\ lost \in BOOLEAN

LEMMA FlagsStep ==
  ASSUME Flags, [Next]_vars
  PROVE  Flags'
<1> USE DEF slotVars, nvsVars, bootVars, installVars, bounds, histVars
<1>1. CASE AppStep
  <2>1. CASE HealthStart
    <3>1. rolledBack' = (otadata[Other(running)] \in {"invalid", "aborted"})
      BY <2>1 DEF HealthStart
    <3>2. rolledBack' \in BOOLEAN
      BY <3>1
    <3>3. UNCHANGED <<sound, picked, lost>>
      BY <2>1 DEF HealthStart
    <3> QED  BY <3>2, <3>3 DEF Flags
  <2>2. CASE NvsInit \/ Revert \/ RevertClear
    <3>1. lost' = TRUE \/ lost' = lost
      BY <2>2 DEF NvsInit, Revert, RevertClear
    <3>2. UNCHANGED <<rolledBack, sound, picked>>
      BY <2>2 DEF NvsInit, Revert, RevertClear
    <3> QED  BY <3>1, <3>2 DEF Flags
  <2>3. CASE StoreInit \/ UiStart
    BY <2>3 DEF Flags, StoreInit, UiStart
  <2> QED  BY <1>1, <2>1, <2>2, <2>3 DEF AppStep
<1>2. CASE WatchStep
  BY <1>2 DEF Flags, WatchStep, WatchBench, WatchConfirm, WatchClear
<1>3. CASE InstallStep
  BY <1>3 DEF Flags, InstallStep, Begin, Feed, DownloadFails, DownloadChecked, EndImage,
     Switch, SwitchFails, StoreTrial, Abandon
<1>4. CASE PickChannel \/ Restart \/ Reset
  BY <1>4 DEF Flags, PickChannel, Restart, Reset, Boot
<1>5. CASE UNCHANGED vars
  BY <1>5 DEF Flags, vars
<1> QED  BY <1>1, <1>2, <1>3, <1>4, <1>5 DEF Next

LEMMA ProgressStep ==
  ASSUME Progress, [Next]_vars
  PROVE  Progress'
<1> USE DEF slotVars, nvsVars, bootVars, installVars, bounds, histVars, Fault
<1>1. CASE AppStep
  BY <1>1 DEF Progress, AppStep, HealthStart, NvsInit, Revert, RevertClear, StoreInit, UiStart
<1>2. CASE WatchStep
  BY <1>2 DEF Progress, WatchStep, WatchBench, WatchConfirm, WatchClear
<1>3. CASE InstallStep
  BY <1>3 DEF Progress, InstallStep, Begin, Feed, DownloadFails, DownloadChecked, EndImage,
     Switch, SwitchFails, StoreTrial, Abandon
<1>4. CASE PickChannel \/ Restart \/ Reset
  BY <1>4 DEF Progress, PickChannel, Restart, Reset, Boot
<1>5. CASE UNCHANGED vars
  BY <1>5 DEF Progress, vars
<1> QED  BY <1>1, <1>2, <1>3, <1>4, <1>5 DEF Next

\* Every reachable state is well typed.
THEOREM WellTyped == Spec => []TypeOK
<1>1. Init => Progress /\ Flags
  <2> SUFFICES ASSUME Init PROVE Progress /\ Flags
    OBVIOUS
  <2>1. Flags
    BY DEF Init, Flags
  <2>2. image = Junk /\ got = 0 /\ Size \in Nat
    BY DEF Init
  <2>3. Progress
    BY <2>2 DEF Init, Progress
  <2> QED  BY <2>1, <2>3
<1>2. RInv /\ Progress /\ Flags => TypeOK
  BY DEF RInv, IInv, SlotTypes, RestTypes, Progress, Flags, TypeOK
<1>3. (Progress /\ Flags) /\ [Next]_vars => (Progress /\ Flags)'
  BY FlagsStep, ProgressStep
<1> QED  BY <1>1, <1>2, <1>3, RAlways, PTL DEF Spec
=============================================================================
