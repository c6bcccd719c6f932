--------------------------------- MODULE Ota ---------------------------------
(***************************************************************************)
(* main/ota_update.c, main/ota_health.c, main/wfota/wfota.c and the start  *)
(* of app_main(): an image is downloaded into the slot the firmware does   *)
(* not run from, made the one to boot, and is on probation until it passed *)
(* the health check; the channel it came from is on trial with it.         *)
(*                                                                         *)
(* The app's start, the watch task, the install task and the rider at the  *)
(* console or the settings page run side by side, and a reset - a power    *)
(* cut, a crash, a restart - may come between any two steps.  One step is  *)
(* one write to the flash, to otadata or to NVS.                           *)
(*                                                                         *)
(* The bootloader and the esp_ota_*() functions are external, modelled as  *)
(* this code uses them: a new image boots once, pending; unless it was     *)
(* marked valid by then, the next reset aborts it and boots the other      *)
(* slot; a pending image may not install another over what it would fall   *)
(* back to.  Of the image's bytes the model knows how many pieces came and *)
(* whether they are the published ones, which is what length and digest    *)
(* tell.                                                                   *)
(***************************************************************************)
EXTENDS Integers

CONSTANTS
  Images,       \* what was published
  Passes,       \* the gates each image gets to pass
  Junk,         \* what an erased or half-written slot holds
  Size,         \* pieces of an image
  Channels,     \* the channels of this build
  Stable,       \* WFOTA_CHANNEL_STABLE, the absence of a stored channel
  None,         \* no trial is stored
  MaxResets,    \* bound: resets that nobody asked for
  MaxInstalls,  \* bound: downloads begun
  MaxFaults     \* bound: flash and NVS writes that fail

Gates == {"nvs", "store", "display"}

ASSUME OtaAssumption ==
  /\ Passes \in [Images -> SUBSET Gates]
  /\ Junk \notin Images
  /\ Size \in Nat \ {0}
  /\ Stable \in Channels /\ None \notin Channels /\ None \notin Images
  /\ MaxResets \in Nat /\ MaxInstalls \in Nat /\ MaxFaults \in Nat

Slots == {0, 1}

VARIABLES
  flash,       \* what each slot holds
  otadata,     \* the state of each slot's image
  boot,        \* the slot that otadata says to boot
  chan, trial, \* NVS: the keys "chan" and "trial"
  running,     \* the slot this firmware runs from
  stage,       \* where app_main() is
  gates,       \* s_gates
  probation, rolledBack,  \* s_probation, s_rolled_back
  watch,       \* where watch_task() is
  ipc,         \* where the install task is
  image, from, \* the image it installs, and the channel the offer came from
  got, sound,  \* the pieces that came; whether all were the published ones
  resets, installs, faults,  \* bounds
  origin,      \* history: the channel each slot's image was offered on
  picked,      \* history: the rider chose a channel when no image was on trial
  lost         \* history: NVS does not hold the trial of the channel the image came from

nvsVars     == <<chan, trial>>
slotVars    == <<flash, otadata, boot>>
bootVars    == <<running, stage, gates, probation, rolledBack>>
installVars == <<ipc, image, from, got, sound>>
bounds      == <<resets, installs, faults>>
histVars    == <<origin, picked, lost>>
vars == <<slotVars, nvsVars, bootVars, watch, installVars, bounds, histVars>>

-----------------------------------------------------------------------------
Other(s) == 1 - s

OnTrial == otadata[boot] \in {"new", "pending"}

Fault == faults < MaxFaults /\ faults' = faults + 1

Init ==
  /\ \E i \in Images : Passes[i] = Gates /\ flash = [s \in Slots |-> IF s = 0 THEN i ELSE Junk]
  /\ otadata = [s \in Slots |-> "undefined"] /\ boot = 0
  /\ chan \in Channels /\ trial = None
  /\ running = 0 /\ stage = "start" /\ gates = {}
  /\ probation = FALSE /\ rolledBack = FALSE /\ watch = "none"
  /\ ipc = "none" /\ image = Junk /\ from = Stable /\ got = 0 /\ sound = FALSE
  /\ resets = 0 /\ installs = 0 /\ faults = 0
  /\ origin = [s \in Slots |-> Stable] /\ picked = FALSE /\ lost = FALSE

-----------------------------------------------------------------------------
(***************************************************************************)
(* app_main()                                                              *)
(***************************************************************************)

\* ota_health_start()
HealthStart ==
  /\ stage = "start" /\ stage' = "nvs"
  /\ probation' = (otadata[running] = "pending")
  /\ rolledBack' = (otadata[Other(running)] \in {"invalid", "aborted"})
  /\ watch' = "watching"
  /\ UNCHANGED <<slotVars, nvsVars, running, gates, installVars, bounds, histVars>>

Pass(g) == gates' = gates \cup ({g} \cap Passes[flash[running]])

\* Mutation of NvsInit: the gate is not passed.
NvsInitUnmarked ==
  /\ stage = "nvs" /\ stage' = "revert"
  /\ UNCHANGED <<slotVars, nvsVars, running, gates, probation, rolledBack, watch,
                 installVars, bounds, histVars>>

\* nvs_flash_init(), which may come to erase all there is.
NvsInit ==
  /\ stage = "nvs" /\ stage' = "revert"
  /\ Pass("nvs")
  /\ \/ UNCHANGED <<nvsVars, faults, lost>>
     \/ Fault /\ chan' = Stable /\ trial' = None /\ lost' = TRUE
  /\ UNCHANGED <<slotVars, running, probation, rolledBack, watch, installVars, resets,
                 installs, origin, picked>>

\* "A rolled-back image takes its channel down with it, once."
Revert ==
  /\ stage = "revert"
  /\ \/ /\ rolledBack /\ trial # None
        /\ stage' = "clear"
        /\ \/ chan' = Stable /\ UNCHANGED <<faults, lost>>
           \/ Fault /\ lost' = TRUE /\ UNCHANGED chan
     \/ /\ ~(rolledBack /\ trial # None)
        /\ stage' = "store"
        /\ UNCHANGED <<chan, faults, lost>>
  /\ UNCHANGED <<slotVars, trial, running, gates, probation, rolledBack, watch, installVars,
                 resets, installs, origin, picked>>

\* Mutation of RevertClear: the trial is still there when the unit boots again.
RevertClearNot ==
  /\ stage = "clear" /\ stage' = "store"
  /\ UNCHANGED <<slotVars, nvsVars, running, gates, probation, rolledBack, watch,
                 installVars, bounds, histVars>>

\* otaup_trial_clear(): "a failure to write is only logged"
RevertClear ==
  /\ stage = "clear" /\ stage' = "store"
  /\ \/ trial' = None /\ UNCHANGED <<faults, lost>>
     \/ Fault /\ lost' = TRUE /\ UNCHANGED trial
  /\ UNCHANGED <<slotVars, chan, running, gates, probation, rolledBack, watch, installVars,
                 resets, installs, origin, picked>>

\* store_init(), which may fail.
StoreInit ==
  /\ stage = "store" /\ stage' = "display"
  /\ \/ Pass("store") /\ UNCHANGED faults
     \/ Fault /\ UNCHANGED gates
  /\ UNCHANGED <<slotVars, nvsVars, running, probation, rolledBack, watch, installVars,
                 resets, installs, histVars>>

\* ui_start(): the redraw task paints a frame.
UiStart ==
  /\ stage = "display" /\ stage' = "up"
  /\ Pass("display")
  /\ UNCHANGED <<slotVars, nvsVars, running, probation, rolledBack, watch, installVars,
                 bounds, histVars>>

-----------------------------------------------------------------------------
(***************************************************************************)
(* watch_task()                                                            *)
(***************************************************************************)
\* Sixty seconds of uptime may have passed at any time.
Healthy == gates = Gates

WatchBench ==
  /\ watch = "watching" /\ Healthy /\ ~probation
  /\ watch' = "confirmed"
  /\ UNCHANGED <<slotVars, nvsVars, bootVars, installVars, bounds, histVars>>

WatchConfirm ==
  /\ watch = "watching" /\ Healthy /\ probation
  /\ \/ /\ otadata' = [otadata EXCEPT ![running] = "valid"]
        /\ watch' = "clear"
        /\ UNCHANGED faults
     \/ /\ Fault
        /\ watch' = "refused"
        /\ UNCHANGED otadata
  /\ UNCHANGED <<flash, boot, nvsVars, bootVars, installVars, resets, installs, histVars>>

\* A trial that was stored since is cleared as well.
WatchClear ==
  /\ watch = "clear" /\ watch' = "confirmed"
  /\ \/ trial' = None /\ lost' = (lost \/ ipc = "restart") /\ UNCHANGED faults
     \/ Fault /\ lost' = TRUE /\ UNCHANGED trial
  /\ UNCHANGED <<slotVars, chan, bootVars, installVars, resets, installs, origin, picked>>

-----------------------------------------------------------------------------
(***************************************************************************)
(* install(), on the install task.                                         *)
(***************************************************************************)

\* Mutation of Begin: the slot the bootloader fell back from is named, not asked for.
BeginSlotNamed ==
  /\ ipc = "none" /\ stage = "up" /\ installs < MaxInstalls
  /\ otadata[running] # "pending"
  /\ installs' = installs + 1
  /\ flash' = [flash EXCEPT ![1] = Junk]
  /\ image' \in Images /\ from' = chan
  /\ got' = 0 /\ sound' = TRUE
  /\ ipc' = "fetch"
  /\ UNCHANGED <<otadata, boot, nvsVars, bootVars, watch, resets, faults, histVars>>

\* The manifest was read; "the inactive slot, never the running one" is erased, but
\* esp_ota_begin() refuses while this firmware is on probation.
Begin ==
  /\ ipc = "none" /\ stage = "up" /\ installs < MaxInstalls
  /\ otadata[running] # "pending"
  /\ installs' = installs + 1
  /\ flash' = [flash EXCEPT ![Other(running)] = Junk]
  /\ image' \in Images /\ from' = chan
  /\ got' = 0 /\ sound' = TRUE
  /\ ipc' = "fetch"
  /\ UNCHANGED <<otadata, boot, nvsVars, bootVars, watch, resets, faults, histVars>>

\* What the slot holds when n pieces came.
Held(n, ok) == IF n = Size /\ ok THEN image ELSE Junk

\* image_event(): a piece that fits is hashed and written.
Feed ==
  /\ ipc = "fetch" /\ got < Size
  /\ got' = got + 1
  /\ \E ok \in BOOLEAN : sound' = (sound /\ ok)
  /\ flash' = [flash EXCEPT ![Other(running)] = Held(got + 1, sound')]
  /\ UNCHANGED <<otadata, boot, nvsVars, bootVars, watch, ipc, image, from, bounds, histVars>>

\* esp_ota_abort(), teardown(): the slot is left as it is.
Abandon ==
  /\ ipc' = "none"
  /\ UNCHANGED <<slotVars, nvsVars, bootVars, watch, image, from, got, sound, resets,
                 installs, histVars>>

\* A piece is longer than what the manifest promised, or is not written; the transfer
\* breaks, or its status is not 200; esp_ota_end() finds no image in the slot.
DownloadFails == ipc \in {"fetch", "end"} /\ Abandon /\ UNCHANGED faults

\* wfota_dl_end(): all of it came, and it hashes to what the manifest said.
Digest == got = Size /\ sound

DownloadChecked ==
  /\ ipc = "fetch" /\ Digest
  /\ ipc' = "end"
  /\ UNCHANGED <<slotVars, nvsVars, bootVars, watch, image, from, got, sound, bounds,
                 histVars>>

EndImage ==
  /\ ipc = "end"
  /\ ipc' = "switch"
  /\ UNCHANGED <<slotVars, nvsVars, bootVars, watch, image, from, got, sound, bounds,
                 histVars>>

\* esp_ota_set_boot_partition(): "the one irreversible line in this file"
Switch ==
  /\ ipc = "switch"
  /\ otadata' = [otadata EXCEPT ![Other(running)] = "new"]
  /\ boot' = Other(running)
  /\ origin' = [origin EXCEPT ![Other(running)] = from]
  /\ picked' = FALSE
  /\ ipc' = "trial"
  /\ UNCHANGED <<flash, nvsVars, bootVars, watch, image, from, got, sound, bounds, lost>>

SwitchFails == ipc = "switch" /\ Fault /\ Abandon

\* Mutations of Record: no channel is recorded; stable is recorded as any other.
RecordNone == trial' = None
\* "Only a channel there is something to come back from."
Record == trial' = IF chan = Stable THEN None ELSE chan

\* trial_store(): the channel is the one that is selected by now.
StoreTrial ==
  /\ ipc = "trial" /\ ipc' = "restart"
  /\ \/ Record /\ lost' = (chan # from) /\ UNCHANGED faults
     \/ Fault /\ lost' = TRUE /\ UNCHANGED trial
  /\ UNCHANGED <<slotVars, chan, bootVars, watch, image, from, got, sound, resets, installs,
                 origin, picked>>

-----------------------------------------------------------------------------
\* otaup_channel_set(), from the console or the settings page.
PickChannel ==
  /\ stage = "up"
  /\ chan' \in Channels
  /\ picked' = (picked \/ ~OnTrial)
  /\ UNCHANGED <<slotVars, trial, bootVars, watch, installVars, bounds, origin, lost>>

\* The bootloader.
Boot ==
  /\ otadata' = CASE otadata[boot] = "new"     -> [otadata EXCEPT ![boot] = "pending"]
                  [] otadata[boot] = "pending" -> [otadata EXCEPT ![boot] = "aborted"]
                  [] OTHER                     -> otadata
  /\ boot' = IF otadata[boot] = "pending" THEN Other(boot) ELSE boot
  /\ running' = boot'
  /\ stage' = "start" /\ gates' = {} /\ probation' = FALSE /\ rolledBack' = FALSE
  /\ watch' = "none" /\ ipc' = "none"
  /\ lost' = (lost \/ ipc = "trial" \/ watch = "clear")
  /\ UNCHANGED <<flash, nvsVars, image, from, got, sound, installs, faults, origin, picked>>

\* esp_restart() when the rider has read what was installed.
Restart == ipc = "restart" /\ Boot /\ UNCHANGED resets

\* The ignition, a crash, button A in update mode.
Reset == resets < MaxResets /\ Boot /\ resets' = resets + 1

-----------------------------------------------------------------------------
AppStep == HealthStart \/ NvsInit \/ Revert \/ RevertClear \/ StoreInit \/ UiStart

WatchStep == WatchBench \/ WatchConfirm \/ WatchClear

InstallStep ==
  \/ Begin \/ Feed \/ DownloadFails \/ DownloadChecked \/ EndImage
  \/ Switch \/ SwitchFails \/ StoreTrial

Next == AppStep \/ WatchStep \/ InstallStep \/ PickChannel \/ Restart \/ Reset

Spec == Init /\ [][Next]_vars

\* app_main() runs to its end and the watch task wakes up every second.
FairSpec == Spec /\ WF_vars(AppStep) /\ WF_vars(WatchStep)

-----------------------------------------------------------------------------
States == {"undefined", "new", "pending", "valid", "invalid", "aborted"}

\* Every variable holds a value of its kind.
TypeOK ==
  /\ flash \in [Slots -> Images \cup {Junk}] /\ otadata \in [Slots -> States]
  /\ boot \in Slots /\ chan \in Channels /\ trial \in (Channels \ {Stable}) \cup {None}
  /\ running \in Slots
  /\ stage \in {"start", "nvs", "revert", "clear", "store", "display", "up"}
  /\ gates \subseteq Gates /\ probation \in BOOLEAN /\ rolledBack \in BOOLEAN
  /\ watch \in {"none", "watching", "clear", "confirmed", "refused"}
  /\ ipc \in {"none", "fetch", "end", "switch", "trial", "restart"}
  /\ image \in Images \cup {Junk} /\ from \in Channels
  /\ got \in 0 .. Size /\ sound \in BOOLEAN
  /\ resets \in Nat /\ installs \in Nat /\ faults \in Nat
  /\ origin \in [Slots -> Channels] /\ picked \in BOOLEAN /\ lost \in BOOLEAN

\* An update that rolled back has taken its channel down when the rider gets to the
\* panel, wherever the power went in between - unless the rider chose a channel since,
\* or NVS did not take the trial.
RevertsChannel ==
  stage = "up" /\ rolledBack /\ ~OnTrial /\ origin[Other(running)] # Stable
    => chan = Stable \/ picked \/ lost

\* The channel a rider chooses when no image is on trial is kept: the revert happens
\* once, and an update that was confirmed has nothing left to revert.
ChoiceKept ==
  [][chan' # chan /\ stage # "up" => ~picked \/ lost \/ lost']_vars

\* An image that can pass every gate is confirmed, unless a reset comes first, the store
\* does not mount or otadata does not take the write.
Earned ==
  (probation /\ Passes[flash[running]] = Gates)
    ~> (~probation \/ watch # "watching" \/ (stage = "up" /\ "store" \notin gates))

\* What Firmware speaks of.
Kept == flash[IF OnTrial THEN Other(boot) ELSE boot]
Candidate == IF OnTrial THEN flash[boot] ELSE None
Healthful == {i \in Images : Passes[i] = Gates}

\* The slots, the bootloader and the watch task implement Firmware: an image is put on
\* trial only whole and as published, adopted only when it passed every gate, and the
\* one to come back to is never written over.
Abstract == INSTANCE Firmware WITH
  Published <- Images, Sound <- Healthful, kept <- Kept, candidate <- Candidate

ImplementsFirmware == Abstract!FwSpec
=============================================================================
