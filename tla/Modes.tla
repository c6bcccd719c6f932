-------------------------------- MODULE Modes --------------------------------
(***************************************************************************)
(* main/main.c: the button task, the B menu and the two modes behind it;   *)
(* main/webdump.c and main/ota_update.c as far as they take the radio.     *)
(*                                                                         *)
(* Readout mode and update mode run on the task that chose them: the       *)
(* button task from the menu, or the console.  Both shut BLE down through  *)
(* the capture task (CaptureApi), bring Wi-Fi up and paint the panel.      *)
(* Both wait for presses on the one button queue, which fills while nobody *)
(* reads it.                                                               *)
(*                                                                         *)
(* Where an image goes once it is downloaded is Ota's; what the server     *)
(* does when it runs, Readout's.  The driver, the join, the download and   *)
(* every time-out are a nondeterministic choice.                           *)
(***************************************************************************)
EXTENDS CaptureApi

CONSTANTS
  BtnQLen,     \* BTN_QUEUE_LEN
  Presses,     \* which presses the rider makes
  Cmds,        \* which commands are typed on the console
  OneAtATime,  \* one task at a time is in the menu or a mode, and no update is run in readout mode
  InTime       \* a shutdown that was queued is answered within 30 s

ASSUME ModesAssumption ==
  /\ QLen \in Nat \ {0} /\ BtnQLen \in Nat \ {0}
  /\ OneAtATime \in BOOLEAN /\ InTime \in BOOLEAN

VARIABLES
  power,     \* whether the board runs
  btnq,      \* s_btn_q
  panel,     \* s_msg: which message screen is up, or "none"
  pc,        \* where each task is
  mode,      \* the mode each task is in, or "none"
  sel,       \* sel of menu_run(), 1 outside it
  spent,     \* s_ble_spent
  web,       \* webdump.c: s_running, s_wifi_inited and s_netif, s_server
  ota,       \* ota_update.c: s_running, s_wifi_inited and s_netif, s_events
  drv,       \* the Wi-Fi driver: whether it is initialised, and what it runs as
  late       \* history: a shutdown was not answered in time

radioVars == <<web, ota, drv>>
vars     == <<capVars, power, btnq, panel, pc, mode, sel, spent, radioVars, late>>

Tasks == {"buttons", "console"}

AllPresses == [btn : {"A", "B", "PWR"}, long : BOOLEAN]
AllCmds == {"scan_start", "scan_stop", "rec_start", "rec_stop", "wifi_on", "wifi_off",
            "ota_check", "ota_install"}

ASSUME ModesInputs == Presses \subseteq AllPresses /\ Cmds \subseteq AllCmds

Off     == [run |-> FALSE, inited |-> FALSE, extra |-> FALSE]
NoRadio == [init |-> FALSE, as |-> "none"]

Booted(rolledBack) ==
  /\ power = "on" /\ btnq = <<>> /\ spent = FALSE /\ late = FALSE
  /\ panel = IF rolledBack THEN "rolled" ELSE "none"
  /\ pc = [t \in Tasks |-> IF t = "console" THEN "prompt"
                           ELSE IF rolledBack THEN "rolled" ELSE "loop"]
  /\ mode = [t \in Tasks |-> "none"] /\ sel = 1
  /\ web = Off /\ ota = Off /\ drv = NoRadio

\* A boot after a rollback shows a screen first (ota_health_rolled_back()).
Init == CapInit /\ \E r \in BOOLEAN : Booted(r)

-----------------------------------------------------------------------------
(***************************************************************************)
(* Helpers.                                                                *)
(***************************************************************************)
Goto(t, l) == pc' = [pc EXCEPT ![t] = l]
Rest(t)    == IF t = "buttons" THEN "loop" ELSE "prompt"
Step(t, l) == Goto(t, l) /\ UNCHANGED mode
Return(t)  == Goto(t, Rest(t)) /\ mode' = [mode EXCEPT ![t] = "none"]
Other(t)   == IF t = "buttons" THEN "console" ELSE "buttons"

\* Who may go into the menu or a mode.
Alone(t) == OneAtATime => pc[Other(t)] \in {Rest(Other(t)), "parked"}

\* board_btn_wait() returned a press: the oldest one, whenever it was made.
Pressed == btnq # <<>> /\ btnq' = Tail(btnq)
evt     == Head(btnq)
TimedOut == btnq = <<>> /\ UNCHANGED btnq
AnyKey  == Pressed \/ TimedOut

Is(b, long) == evt.btn = b /\ evt.long = long

\* web_teardown() and teardown(): each undoes what its own flags say.
Undone(d, m) == IF m.inited THEN NoRadio ELSE d
WebTeardown == web' = Off /\ drv' = Undone(drv, web) /\ UNCHANGED ota
OtaTeardown == ota' = Off /\ drv' = Undone(drv, ota) /\ UNCHANGED web

\* History: whether a press was made on the offer, and accepts it.
Answers(p) == panel = "offer" /\ p.btn = "A" /\ ~p.long

\* btn_task(): a press is dropped when nobody drains the queue.
Press(p) ==
  /\ power = "on" /\ p \in Presses
  /\ btnq' = IF Len(btnq) < BtnQLen
             THEN Append(btnq, [btn |-> p.btn, long |-> p.long, answer |-> Answers(p)])
             ELSE btnq
  /\ UNCHANGED <<capVars, power, panel, pc, mode, sel, spent, radioVars, late>>

\* board_power_off(): on battery the board is off; on USB the task stays there.
PowerOff(t) ==
  \/ power' = "off" /\ UNCHANGED pc
  \/ Goto(t, "parked") /\ UNCHANGED power

-----------------------------------------------------------------------------
(***************************************************************************)
(* button_task()                                                           *)
(***************************************************************************)
At(t, l) == power = "on" /\ pc[t] = l

ButtonsOnly == UNCHANGED <<mode, spent, radioVars, late>>

\* Nothing here outlives a restart: the next boot is Init again.
Ended == power = "off" /\ UNCHANGED vars

RolledScreen ==
  /\ At("buttons", "rolled") /\ AnyKey
  /\ panel' = "none" /\ Goto("buttons", "loop")
  /\ UNCHANGED <<capVars, power, sel>> /\ ButtonsOnly

\* Readout mode: "the only useful action left" is a restart, on A.
LoopReadout ==
  /\ web.run
  /\ power' = IF evt.btn = "A" THEN "off" ELSE "on"
  /\ UNCHANGED <<capVars, panel, pc, sel>>

\* BLE is gone: A restarts instead of starting a capture.
LoopSpent ==
  /\ ~web.run /\ spent /\ evt.btn = "A"
  /\ power' = IF evt.long THEN "on" ELSE "off"
  /\ UNCHANGED <<capVars, panel, pc, sel>>

\* What a short A means to the capture, by cap_state().
LoopCapture ==
  /\ ~web.run /\ ~spent /\ evt.btn = "A"
  /\ CASE evt.long \/ state = "stopping"    -> UNCHANGED capVars
       [] state = "armed" /\ ble = "up"      -> Post("rec_start")
       [] Capturing                      -> Post("rec_stop")
       [] state = "scanning"                 -> Post("scan_stop")
       [] state \in {"idle", "done", "error"} /\ ble = "up" -> Post("scan_start")
       [] OTHER                              -> UNCHANGED capVars
  /\ UNCHANGED <<power, panel, pc, sel>>

\* Held B is the menu; a short one writes a marker while recording.
LoopB ==
  /\ ~web.run /\ evt.btn = "B"
  /\ IF ~evt.long THEN UNCHANGED <<panel, pc>>
     ELSE /\ Alone("buttons")
          /\ IF Capturing THEN panel' = "busy" /\ Goto("buttons", "busy")
                              ELSE panel' = "menu" /\ Goto("buttons", "menu")
  /\ UNCHANGED <<capVars, power, sel>>

\* cap_record_stop() and off; a short PWR flips the live screen.
LoopPwr ==
  /\ ~web.run /\ evt.btn = "PWR"
  /\ IF evt.long THEN Post("rec_stop") /\ PowerOff("buttons")
                 ELSE UNCHANGED <<capVars, power, pc>>
  /\ UNCHANGED <<panel, sel>>

Loop ==
  /\ At("buttons", "loop") /\ Pressed
  /\ LoopReadout \/ LoopSpent \/ LoopCapture \/ LoopB \/ LoopPwr
  /\ ButtonsOnly

-----------------------------------------------------------------------------
(***************************************************************************)
(* menu_run(), whose entries are READOUT, UPDATE and INFO.                 *)
(***************************************************************************)
InMenu == At("buttons", "menu") /\ UNCHANGED <<capVars, spent, radioVars, late>>

\* Mutation of MenuIdle: the menu waits for as long as it takes.
MenuIdleNever ==
  /\ InMenu /\ FALSE
  /\ UNCHANGED <<power, btnq, panel, pc, mode, sel>>

\* "idle: leave, rather than trap the rider"
MenuIdle ==
  /\ InMenu /\ TimedOut
  /\ panel' = "none" /\ Goto("buttons", "loop") /\ sel' = 1
  /\ UNCHANGED <<power, mode>>

MenuNext ==
  /\ InMenu /\ Pressed
  /\ \/ Is("B", FALSE) /\ sel' = IF sel = 3 THEN 1 ELSE sel + 1
     \/ Is("A", TRUE) /\ UNCHANGED sel
  /\ UNCHANGED <<power, panel, pc, mode>>

\* Held B, and a short PWR.
MenuLeave ==
  /\ InMenu /\ Pressed
  /\ Is("B", TRUE) \/ Is("PWR", FALSE)
  /\ panel' = "none" /\ Goto("buttons", "loop") /\ sel' = 1
  /\ UNCHANGED <<power, mode>>

MenuPower ==
  /\ At("buttons", "menu") /\ Pressed /\ Is("PWR", TRUE)
  /\ Post("rec_stop") /\ PowerOff("buttons")
  /\ UNCHANGED <<panel, mode, sel, spent, radioVars, late>>

\* The menu is over, but for the page that comes back to it.
MenuPick ==
  /\ InMenu /\ Pressed /\ Is("A", FALSE)
  /\ IF sel = 3
     THEN Goto("buttons", "info") /\ panel' = "info" /\ UNCHANGED <<mode, sel>>
     ELSE /\ mode' = [mode EXCEPT !["buttons"] = IF sel = 1 THEN "readout" ELSE "update"]
          /\ Goto("buttons", "enter") /\ sel' = 1 /\ UNCHANGED panel
  /\ UNCHANGED power

\* app_info_enter(): dismissed, the menu is back; left alone, it is not.
Info ==
  /\ At("buttons", "info")
  /\ \/ Pressed /\ panel' = "menu" /\ Goto("buttons", "menu") /\ UNCHANGED sel
     \/ TimedOut /\ panel' = "none" /\ Goto("buttons", "loop") /\ sel' = 1
  /\ UNCHANGED <<capVars, power>> /\ ButtonsOnly

BusyScreen ==
  /\ At("buttons", "busy") /\ AnyKey
  /\ panel' = "none" /\ Goto("buttons", "loop")
  /\ UNCHANGED <<capVars, power, sel>> /\ ButtonsOnly

-----------------------------------------------------------------------------
(***************************************************************************)
(* app_readout_enter() and app_update_run(), up to the end of BLE.         *)
(***************************************************************************)
\* A mode is refused while a capture runs; readout mode that runs is entered already.
Enter(t) ==
  /\ At(t, "enter")
  /\ IF (mode[t] = "readout" /\ web.run) \/ Capturing
     THEN Return(t) /\ UNCHANGED panel
     ELSE panel' = (IF mode[t] = "readout" THEN "wifi" ELSE "update") /\ Step(t, "shut")
  /\ UNCHANGED <<capVars, power, btnq, sel, spent, radioVars, late>>

Begin(t) == Step(t, IF mode[t] = "readout" THEN "webstart" ELSE "check")

\* Mutation of Shut: the mode goes on while BLE goes down.
ShutNoWait(t) ==
  /\ At(t, "shut")
  /\ IF ble # "up" THEN UNCHANGED capVars ELSE Post("shutdown")
  /\ Begin(t) /\ spent' = TRUE
  /\ UNCHANGED <<power, btnq, panel, sel, radioVars, late>>

\* cap_ble_shutdown()
Shut(t) ==
  /\ At(t, "shut")
  /\ IF ble # "up"
     THEN Begin(t) /\ spent' = TRUE /\ UNCHANGED capVars
     ELSE Post("shutdown") /\ Step(t, "join") /\ UNCHANGED spent
  /\ UNCHANGED <<power, btnq, panel, sel, radioVars, late>>

\* Whether the answer is still to come.
Coming == sem = 1 \/ busy \in {"stopspend", "spend", "give"}
            \/ \E k \in DOMAIN capq : capq[k] = "shutdown"

\* The answer, or 30 s: the mode goes on either way.
Join(t) ==
  /\ At(t, "join")
  /\ \/ TakeSem /\ UNCHANGED late
     \/ (InTime => ~Coming) /\ late' = TRUE /\ UNCHANGED capVars
  /\ spent' = TRUE /\ Begin(t)
  /\ UNCHANGED <<power, btnq, panel, sel, radioVars>>

-----------------------------------------------------------------------------
(***************************************************************************)
(* web_start() and web_stop().                                             *)
(***************************************************************************)
modeOnly == <<capVars, power, sel, spent, late>>

WebFails(t) == WebTeardown /\ panel' = "wififail" /\ Return(t)

\* Up to esp_wifi_init(), which is content with a driver that is initialised.
WebStart(t) ==
  /\ At(t, "webstart")
  /\ IF web.run THEN panel' = "wififail" /\ Return(t) /\ UNCHANGED radioVars
     ELSE \/ WebFails(t)
          \/ /\ web' = [web EXCEPT !.inited = TRUE]
             /\ drv' = [drv EXCEPT !.init = TRUE]
             /\ Step(t, "webup") /\ UNCHANGED <<ota, panel>>
  /\ UNCHANGED <<btnq, modeOnly>>

\* esp_wifi_set_mode() and esp_wifi_start(): the access point.
WebUp(t) ==
  /\ At(t, "webup")
  /\ \/ WebFails(t)
     \/ drv.init /\ drv' = [drv EXCEPT !.as = "ap"] /\ Step(t, "webserve")
        /\ UNCHANGED <<web, ota, panel>>
  /\ UNCHANGED <<btnq, modeOnly>>

\* httpd_start(), s_running and the screen that says where to connect.
WebServe(t) ==
  /\ At(t, "webserve")
  /\ \/ WebFails(t)
     \/ /\ web' = [web EXCEPT !.run = TRUE, !.extra = TRUE]
        /\ panel' = "readout" /\ Return(t)
        /\ UNCHANGED <<ota, drv>>
  /\ UNCHANGED <<btnq, modeOnly>>

-----------------------------------------------------------------------------
(***************************************************************************)
(* otaup_check(), and the screens of app_update_run().                     *)
(***************************************************************************)
\* The message, then a press or 10 s.
Shows(t, screen, l) == panel' = screen /\ Step(t, l)

Check(t) ==
  /\ At(t, "check")
  /\ \/ Shows(t, "result", "result") /\ UNCHANGED radioVars     \* OTAUP_ERR_STATE, or no task
     \/ ~ota.run /\ OtaTeardown /\ Shows(t, "result", "result") \* no networks, or wifi_up() failed
     \/ /\ ~ota.run
        /\ ota' = [ota EXCEPT !.inited = TRUE, !.extra = TRUE]
        /\ drv' = [drv EXCEPT !.init = TRUE]
        /\ Step(t, "checkup") /\ UNCHANGED <<web, panel>>
  /\ UNCHANGED <<btnq, modeOnly>>

\* The rest of wifi_up(), as a station; run_check() then sets s_running.
CheckUp(t) ==
  /\ At(t, "checkup")
  /\ \/ OtaTeardown /\ Shows(t, "result", "result")
     \/ /\ drv.init /\ drv' = [drv EXCEPT !.as = "sta"]
        /\ ota' = [ota EXCEPT !.run = TRUE]
        /\ Step(t, "joinnet") /\ UNCHANGED <<web, panel>>
  /\ UNCHANGED <<btnq, modeOnly>>

\* The scan, the strongest network that is known, the join.
CheckJoin(t) ==
  /\ At(t, "joinnet")
  /\ \/ OtaTeardown /\ Shows(t, "result", "result")
     \/ Step(t, "fetch") /\ UNCHANGED <<panel, radioVars>>
  /\ UNCHANGED <<btnq, modeOnly>>

\* fetch_manifest() and the comparison: a version that differs is on offer.
Fetch(t) ==
  /\ At(t, "fetch")
  /\ \/ OtaTeardown /\ Shows(t, "result", "result")
     \/ Shows(t, "result", "result") /\ UNCHANGED radioVars              \* up to date
     \/ /\ Shows(t, "offer", IF mode[t] = "install" THEN "install" ELSE "offer")
        /\ UNCHANGED radioVars
  /\ UNCHANGED <<btnq, modeOnly>>

\* update_confirmed(): a short A installs.
Confirm(t) ==
  /\ At(t, "offer") /\ Pressed /\ Is("A", FALSE)
  /\ Step(t, "install")
  /\ UNCHANGED <<panel, radioVars, modeOnly>>

OtaStop == IF ota = Off THEN UNCHANGED radioVars ELSE OtaTeardown

\* Mutation of Decline: the link outlives the screen.
DeclineKeepsLink(t) ==
  /\ At(t, "offer")
  /\ TimedOut \/ (Pressed /\ ~Is("A", FALSE))
  /\ panel' = "none" /\ Return(t)
  /\ UNCHANGED <<radioVars, modeOnly>>

\* Any other press, or nobody there.
Decline(t) ==
  /\ At(t, "offer")
  /\ TimedOut \/ (Pressed /\ ~Is("A", FALSE))
  /\ panel' = "none" /\ OtaStop /\ Return(t)
  /\ UNCHANGED modeOnly

\* otaup_install() through the link that is up, or not.
Install(t) ==
  /\ At(t, "install")
  /\ Shows(t, "install", "download")
  /\ UNCHANGED <<btnq, radioVars, modeOnly>>

Download(t) ==
  /\ At(t, "download")
  /\ \/ Shows(t, "instfail", "result") /\ (OtaTeardown \/ UNCHANGED radioVars)
     \/ ota.run /\ Shows(t, "done", "reboot") /\ UNCHANGED radioVars
  /\ UNCHANGED <<btnq, modeOnly>>

Reboot(t) ==
  /\ At(t, "reboot") /\ power' = "off"
  /\ UNCHANGED <<capVars, btnq, panel, pc, mode, sel, spent, radioVars, late>>

\* A screen with "any: BACK" under it; the link goes down with it.
Result(t) ==
  /\ At(t, "result") /\ AnyKey
  /\ panel' = "none" /\ OtaStop /\ Return(t)
  /\ UNCHANGED modeOnly

-----------------------------------------------------------------------------
(***************************************************************************)
(* cmd_cap(), cmd_wifi() and cmd_ota() on the console.                     *)
(***************************************************************************)
CmdCap(c) ==
  /\ At("console", "prompt") /\ c \in Cmds \cap Commands
  /\ c \in {"scan_start", "rec_start"} => ble = "up"
  /\ c = "rec_start" => state = "armed"
  /\ Post(c)
  /\ UNCHANGED <<power, btnq, panel, pc, mode, sel, spent, radioVars, late>>

CmdMode(c, m) ==
  /\ At("console", "prompt") /\ c \in Cmds /\ Alone("console")
  /\ OneAtATime /\ m # "readout" => ~web.run
  /\ mode' = [mode EXCEPT !["console"] = m] /\ Goto("console", "enter")
  /\ UNCHANGED <<capVars, power, btnq, panel, sel, spent, radioVars, late>>

\* web_stop() and ui_message_clear()
CmdWifiOff ==
  /\ At("console", "prompt") /\ "wifi_off" \in Cmds /\ Alone("console")
  /\ IF web = Off THEN UNCHANGED radioVars ELSE WebTeardown
  /\ panel' = "none"
  /\ UNCHANGED <<capVars, power, btnq, pc, mode, sel, spent, late>>

-----------------------------------------------------------------------------
CapTask == power = "on" /\ CapStep
           /\ UNCHANGED <<power, btnq, panel, pc, mode, sel, spent, radioVars, late>>

ModeStep(t) ==
  \/ Enter(t) \/ Shut(t) \/ Join(t)
  \/ WebStart(t) \/ WebUp(t) \/ WebServe(t)
  \/ Check(t) \/ CheckUp(t) \/ CheckJoin(t) \/ Fetch(t) \/ Confirm(t) \/ Decline(t)
  \/ Install(t) \/ Download(t) \/ Reboot(t) \/ Result(t)

ButtonStep ==
  \/ RolledScreen \/ Loop \/ MenuIdle \/ MenuNext \/ MenuLeave \/ MenuPower \/ MenuPick
  \/ Info \/ BusyScreen

Console ==
  \/ \E c \in Cmds : CmdCap(c)
  \/ CmdMode("wifi_on", "readout") \/ CmdMode("ota_check", "update")
  \/ CmdMode("ota_install", "install") \/ CmdWifiOff

Next ==
  \/ \E p \in Presses : Press(p)
  \/ ButtonStep \/ Console \/ CapTask \/ Ended
  \/ \E t \in Tasks : ModeStep(t)

Spec == Init /\ [][Next]_vars

\* Tasks are scheduled, and waits with a time-out end.
Fairness ==
  /\ WF_vars(ButtonStep) /\ \A t \in Tasks : WF_vars(ModeStep(t))
  /\ WF_vars(CapTask)

FairSpec == Spec /\ Fairness

-----------------------------------------------------------------------------
(***************************************************************************)
(* Properties.                                                             *)
(***************************************************************************)
Screens == {"none", "menu", "busy", "info", "rolled", "wifi", "wififail", "readout",
            "update", "result", "offer", "install", "instfail", "done"}

Waits == {"loop", "rolled", "menu", "info", "busy", "offer", "result"}

Pcs == Waits \cup {"prompt", "parked", "enter", "shut", "join", "webstart", "webup", "webserve",
                   "check", "checkup", "joinnet", "fetch", "install", "download", "reboot"}

Events == [btn : {"A", "B", "PWR"}, long : BOOLEAN, answer : BOOLEAN]

\* Every variable holds a value of its kind.
TypeOK ==
  /\ CapTypeOK
  /\ power \in {"on", "off"} /\ btnq \in Seq(Events) /\ Len(btnq) <= BtnQLen
  /\ panel \in Screens /\ pc \in [Tasks -> Pcs]
  /\ mode \in [Tasks -> {"none", "readout", "update", "install"}] /\ sel \in 1 .. 3
  /\ spent \in BOOLEAN /\ late \in BOOLEAN
  /\ web \in [run : BOOLEAN, inited : BOOLEAN, extra : BOOLEAN]
  /\ ota \in [run : BOOLEAN, inited : BOOLEAN, extra : BOOLEAN]
  /\ drv \in [init : BOOLEAN, as : {"none", "ap", "sta"}]

InMode(t) == pc[t] \in {"webstart", "webup", "webserve", "check", "checkup", "joinnet", "fetch",
                        "offer", "install", "download", "reboot", "result"}

\* "NimBLE and Wi-Fi do not fit in RAM together": unless a shutdown was not
\* answered in time, the host has stopped before the Wi-Fi driver comes up, also
\* for a mode that finds BLE spent by the one before it.
OneRadio == drv.init => ble = "down" \/ late

\* With no mode under way, Wi-Fi is up just as the readout server needs it, or not
\* at all: whichever step of a mode fails, everything it brought up goes down
\* again, and only its own ("every failure has already torn the radio back down").
RadioReleased ==
  (\A t \in Tasks : ~InMode(t)) =>
    /\ ota = Off
    /\ IF web.run THEN web.inited /\ web.extra /\ drv = [init |-> TRUE, as |-> "ap"]
                  ELSE web = Off /\ drv = NoRadio

\* Once BLE is on its way out, button A knows: it never offers a capture that can
\* no longer be started, however the mode that took BLE down has ended.
SpentKnown ==
  ble # "up" /\ (\A t \in Tasks : pc[t] \notin {"shut", "join"}) => spent

\* "Idle: leave, rather than trap the rider": with the buttons left alone, the
\* button task comes back to its loop from every screen and every mode.
Settles == (<>[](btnq = <<>>)) => []<>(pc["buttons"] \in {"loop", "parked"} \/ power = "off")

-----------------------------------------------------------------------------
(***************************************************************************)
(* What a comment of the code says, and the code does not do.              *)
(***************************************************************************)
\* main.c: "Nothing installs without this. [...] the rider chose update mode, and
\* now chooses the image."  The press that installs was made on the offer.
ChosenOnOffer ==
  [][\A t \in Tasks : pc[t] = "offer" /\ pc'[t] = "install" => evt.answer]_vars
=============================================================================
