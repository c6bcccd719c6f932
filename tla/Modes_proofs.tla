----------------------------- MODULE Modes_proofs -----------------------------
(***************************************************************************)
(* One radio at a time, for any lengths of the queues, any presses and     *)
(* commands.  What makes it inductive is who waits for a shutdown: as long *)
(* as none went unanswered, at most one is under way, and its caller is in *)
(* the join.                                                               *)
(***************************************************************************)
EXTENDS Modes, TLAPS

USE ModesAssumption, ModesInputs

-----------------------------------------------------------------------------
(***************************************************************************)
(* Types.                                                                  *)
(***************************************************************************)
LEMMA QueueType ==
  ASSUME NEW S, NEW q \in Seq(S), q # <<>>
  PROVE  Tail(q) \in Seq(S) /\ Head(q) \in S
  OBVIOUS

LEMMA PostType ==
  ASSUME CapTypeOK, NEW m \in Commands, Post(m)
  PROVE  CapTypeOK'
  BY DEF CapTypeOK, Post

LEMMA TakeSemType == CapTypeOK /\ TakeSem => CapTypeOK'
  BY DEF CapTypeOK, TakeSem

LEMMA CapStepType ==
  ASSUME CapTypeOK, CapStep
  PROVE  CapTypeOK'
<1> USE DEF CapTypeOK
<1>1. CASE Ignore \/ IgnoreStop \/ StartScan \/ StopScan \/ StartRecord \/ TakeStop \/ TakeShutdown
  <2>1. capq' \in Seq(Commands)
    BY <1>1, QueueType DEF Ignore, IgnoreStop, StartScan, StopScan, StartRecord, TakeStop,
       TakeShutdown, Took
  <2> QED
    BY <1>1, <2>1 DEF Ignore, IgnoreStop, StartScan, StopScan, StartRecord, TakeStop,
       TakeShutdown, Took
<1>2. CASE ScanStep \/ Started \/ StopsItself \/ Spending \/ Giving
  BY <1>2 DEF ScanStep, Started, StopsItself, Spending, Giving
<1>3. CASE Stopping
  BY <1>3 DEF Stopping, Stopped, Capturing
<1> QED BY <1>1, <1>2, <1>3 DEF CapStep

LEMMA GotoFact ==
  ASSUME pc \in [Tasks -> Pcs], NEW t \in Tasks, NEW l \in Pcs, Goto(t, l)
  PROVE  /\ pc' \in [Tasks -> Pcs] /\ pc'[t] = l
         /\ \A u \in Tasks : u # t => pc'[u] = pc[u]
  BY DEF Goto

LEMMA StepFact ==
  ASSUME TypeOK, NEW t \in Tasks, NEW l \in Pcs, Step(t, l)
  PROVE  /\ pc' \in [Tasks -> Pcs] /\ pc'[t] = l /\ mode' = mode
         /\ \A u \in Tasks : u # t => pc'[u] = pc[u]
  BY GotoFact DEF Step, TypeOK

LEMMA ReturnFact ==
  ASSUME TypeOK, NEW t \in Tasks, Return(t)
  PROVE  /\ pc' \in [Tasks -> Pcs] /\ pc'[t] = Rest(t)
         /\ mode' \in [Tasks -> {"none", "readout", "update", "install"}]
         /\ \A u \in Tasks : u # t => pc'[u] = pc[u]
<1>1. Rest(t) \in Pcs
  BY DEF Rest, Pcs, Waits
<1> QED BY <1>1, GotoFact DEF Return, TypeOK

LEMMA PressedType ==
  ASSUME TypeOK, Pressed
  PROVE  btnq' \in Seq(Events) /\ Len(btnq') <= BtnQLen /\ evt \in Events
  BY QueueType DEF TypeOK, Pressed, evt

LEMMA ButtonType ==
  ASSUME TypeOK, ButtonStep
  PROVE  TypeOK'
<1> USE GotoFact DEF TypeOK, ButtonsOnly, radioVars, Tasks, Pcs, Waits, Screens
<1>1. ASSUME Pressed \/ TimedOut PROVE btnq' \in Seq(Events) /\ Len(btnq') <= BtnQLen
  BY <1>1, PressedType DEF TimedOut
<1>2. CASE RolledScreen \/ BusyScreen
  <2>1. Goto("buttons", "loop") /\ CapTypeOK' /\ btnq' \in Seq(Events) /\ Len(btnq') <= BtnQLen
    BY <1>1, <1>2 DEF RolledScreen, BusyScreen, AnyKey, capVars, CapTypeOK
  <2> QED BY <1>2, <2>1 DEF RolledScreen, BusyScreen
<1>3. CASE Info
  <2>1. CapTypeOK' /\ btnq' \in Seq(Events) /\ Len(btnq') <= BtnQLen
    BY <1>1, <1>3 DEF Info, capVars, CapTypeOK
  <2> QED BY <1>3, <2>1 DEF Info
<1>4. CASE Loop
  <2>1. btnq' \in Seq(Events) /\ Len(btnq') <= BtnQLen
    BY <1>1, <1>4 DEF Loop
  <2>2. CASE LoopReadout \/ LoopSpent
    BY <1>4, <2>1, <2>2 DEF Loop, LoopReadout, LoopSpent, capVars, CapTypeOK
  <2>3. CASE LoopCapture
    <3>1. CapTypeOK'
      BY <2>3, PostType DEF LoopCapture, Commands, capVars, CapTypeOK
    <3> QED BY <1>4, <2>1, <2>3, <3>1 DEF Loop, LoopCapture
  <2>4. CASE LoopB
    <3>1. CapTypeOK'
      BY <2>4 DEF LoopB, capVars, CapTypeOK
    <3> QED BY <1>4, <2>1, <2>4, <3>1 DEF Loop, LoopB
  <2>5. CASE LoopPwr
    <3>1. CapTypeOK'
      BY <2>5, PostType DEF LoopPwr, Commands, capVars, CapTypeOK
    <3> QED BY <1>4, <2>1, <2>5, <3>1 DEF Loop, LoopPwr, PowerOff
  <2> QED BY <1>4, <2>2, <2>3, <2>4, <2>5 DEF Loop
<1>5. CASE MenuIdle \/ MenuNext \/ MenuLeave \/ MenuPick
  <2>1. CapTypeOK' /\ btnq' \in Seq(Events) /\ Len(btnq') <= BtnQLen
    BY <1>1, <1>5 DEF MenuIdle, MenuNext, MenuLeave, MenuPick, InMenu, capVars, CapTypeOK
  <2>2. CASE MenuIdle \/ MenuLeave
    <3>1. sel' \in 1 .. 3 /\ pc' \in [Tasks -> Pcs] /\ panel' \in Screens
      BY <2>2 DEF MenuIdle, MenuLeave, Is
    <3>2. UNCHANGED <<power, mode, spent, late, web, ota, drv>>
      BY <2>2 DEF MenuIdle, MenuLeave, InMenu
    <3> QED BY <2>1, <3>1, <3>2
  <2>3. CASE MenuNext
    <3>1. sel' \in 1 .. 3
      BY <2>3 DEF MenuNext, Is
    <3>2. UNCHANGED <<power, panel, pc, mode, spent, late, web, ota, drv>>
      BY <2>3 DEF MenuNext, InMenu
    <3> QED BY <2>1, <3>1, <3>2
  <2>4. CASE MenuPick
    <3>1. mode' \in [Tasks -> {"none", "readout", "update", "install"}]
      BY <2>4 DEF MenuPick
    <3>2. sel' \in 1 .. 3 /\ pc' \in [Tasks -> Pcs] /\ panel' \in Screens
      BY <2>4 DEF MenuPick
    <3>3. UNCHANGED <<power, spent, late, web, ota, drv>>
      BY <2>4 DEF MenuPick, InMenu
    <3> QED BY <2>1, <3>1, <3>2, <3>3
  <2> QED BY <1>5, <2>2, <2>3, <2>4
<1>6. CASE MenuPower
  <2>1. CapTypeOK' /\ btnq' \in Seq(Events) /\ Len(btnq') <= BtnQLen
    BY <1>1, <1>6, PostType DEF MenuPower, Commands
  <2> QED BY <1>6, <2>1 DEF MenuPower, PowerOff
<1> QED BY <1>2, <1>3, <1>4, <1>5, <1>6 DEF ButtonStep

\* What the steps of a mode do to the variables of Modes, all but the queues.
LEMMA ModeTypes ==
  ASSUME TypeOK, NEW t \in Tasks, ModeStep(t)
  PROVE  /\ pc' \in [Tasks -> Pcs]
         /\ mode' \in [Tasks -> {"none", "readout", "update", "install"}]
         /\ panel' \in Screens
<1> USE StepFact, ReturnFact DEF TypeOK, Pcs, Waits, Screens, modeOnly
<1>1. CASE Enter(t)
  BY <1>1 DEF Enter
<1>2. CASE Shut(t) \/ Join(t)
  BY <1>2 DEF Shut, Join, Begin
<1>3. CASE WebStart(t) \/ WebUp(t) \/ WebServe(t)
  BY <1>3 DEF WebStart, WebUp, WebServe, WebFails
<1>4. CASE Check(t) \/ CheckUp(t) \/ CheckJoin(t)
  BY <1>4 DEF Check, CheckUp, CheckJoin, Shows
<1>5. CASE Fetch(t)
  BY <1>5 DEF Fetch, Shows
<1>6. CASE Confirm(t) \/ Install(t) \/ Download(t)
  BY <1>6 DEF Confirm, Install, Download, Shows
<1>7. CASE Decline(t) \/ Result(t)
  BY <1>7 DEF Decline, Result
<1>8. CASE Reboot(t)
  BY <1>8 DEF Reboot
<1> QED BY <1>1, <1>2, <1>3, <1>4, <1>5, <1>6, <1>7, <1>8 DEF ModeStep

LEMMA ModeRadioTypes ==
  ASSUME TypeOK, NEW t \in Tasks, ModeStep(t)
  PROVE  /\ web' \in [run : BOOLEAN, inited : BOOLEAN, extra : BOOLEAN]
         /\ ota' \in [run : BOOLEAN, inited : BOOLEAN, extra : BOOLEAN]
         /\ drv' \in [init : BOOLEAN, as : {"none", "ap", "sta"}]
<1> USE DEF TypeOK, radioVars
<1>1. /\ Off \in [run : BOOLEAN, inited : BOOLEAN, extra : BOOLEAN]
      /\ NoRadio \in [init : BOOLEAN, as : {"none", "ap", "sta"}]
  BY DEF Off, NoRadio
<1>2. CASE WebTeardown \/ OtaTeardown
  BY <1>1, <1>2 DEF WebTeardown, OtaTeardown, Undone
<1>3. CASE UNCHANGED radioVars
  BY <1>3
<1>4. CASE Enter(t) \/ Shut(t) \/ Join(t) \/ Confirm(t) \/ Install(t) \/ Reboot(t)
  BY <1>3, <1>4 DEF Enter, Shut, Join, Confirm, Install, Reboot
<1>5. CASE WebStart(t) \/ WebUp(t) \/ WebServe(t)
  BY <1>2, <1>3, <1>5 DEF WebStart, WebUp, WebServe, WebFails
<1>6. CASE Check(t) \/ CheckUp(t)
  BY <1>2, <1>3, <1>6 DEF Check, CheckUp
<1>7. CASE CheckJoin(t) \/ Fetch(t) \/ Download(t)
  BY <1>2, <1>3, <1>7 DEF CheckJoin, Fetch, Download
<1>8. CASE Decline(t) \/ Result(t)
  BY <1>2, <1>3, <1>8 DEF Decline, Result, OtaStop
<1> QED BY <1>4, <1>5, <1>6, <1>7, <1>8 DEF ModeStep

LEMMA ModeType ==
  ASSUME TypeOK, NEW t \in Tasks, ModeStep(t)
  PROVE  TypeOK'
<1>1. CapTypeOK'
  <2>1. CASE UNCHANGED capVars
    BY <2>1 DEF capVars, CapTypeOK, TypeOK
  <2>2. CASE Shut(t) \/ Join(t)
    BY <2>1, <2>2, PostType, TakeSemType DEF Shut, Join, Commands, TypeOK
  <2> QED
    BY <2>1, <2>2 DEF ModeStep, Enter, WebStart, WebUp, WebServe, Check, CheckUp, CheckJoin,
       Fetch, Confirm, Decline, Install, Download, Reboot, Result, modeOnly
<1>2. btnq' \in Seq(Events) /\ Len(btnq') <= BtnQLen
  <2>1. CASE UNCHANGED btnq
    BY <2>1 DEF TypeOK
  <2>2. CASE Confirm(t) \/ Decline(t) \/ Result(t)
    BY <2>1, <2>2, PressedType DEF Confirm, Decline, Result, AnyKey, TimedOut
  <2> QED
    BY <2>1, <2>2 DEF ModeStep, Enter, Shut, Join, WebStart, WebUp, WebServe, Check, CheckUp,
       CheckJoin, Fetch, Install, Download, Reboot
<1>3. power' \in {"on", "off"} /\ sel' \in 1 .. 3 /\ spent' \in BOOLEAN /\ late' \in BOOLEAN
  <2>1. CASE UNCHANGED <<power, sel, spent, late>>
    BY <2>1 DEF TypeOK
  <2>2. CASE Shut(t) \/ Join(t)
    BY <2>2 DEF Shut, Join, TypeOK
  <2>3. CASE Reboot(t)
    BY <2>3 DEF Reboot, TypeOK
  <2> QED
    BY <2>1, <2>2, <2>3 DEF ModeStep, Enter, WebStart, WebUp, WebServe, Check, CheckUp,
       CheckJoin, Fetch, Confirm, Decline, Install, Download, Result, modeOnly
<1> QED BY <1>1, <1>2, <1>3, ModeTypes, ModeRadioTypes DEF TypeOK

LEMMA ConsoleType ==
  ASSUME TypeOK, Console
  PROVE  TypeOK'
<1> USE DEF TypeOK
<1>1. ASSUME NEW c \in Cmds, CmdCap(c) PROVE TypeOK'
  <2>1. CapTypeOK'
    BY <1>1, PostType DEF CmdCap
  <2> QED BY <1>1, <2>1 DEF CmdCap, radioVars
<1>2. ASSUME NEW c, NEW m \in {"readout", "update", "install"}, CmdMode(c, m) PROVE TypeOK'
  <2>1. pc' \in [Tasks -> Pcs]
    BY <1>2, GotoFact DEF CmdMode, Pcs, Tasks
  <2>2. CapTypeOK'
    BY <1>2 DEF CmdMode, capVars, CapTypeOK
  <2>3. mode' \in [Tasks -> {"none", "readout", "update", "install"}]
    BY <1>2 DEF CmdMode
  <2>4. UNCHANGED <<power, btnq, panel, sel, spent, late, web, ota, drv>>
    BY <1>2 DEF CmdMode, radioVars
  <2> QED BY <2>1, <2>2, <2>3, <2>4
<1>3. CASE CmdWifiOff
  <2>1. CapTypeOK'
    BY <1>3 DEF CmdWifiOff, capVars, CapTypeOK
  <2>2. /\ web' \in [run : BOOLEAN, inited : BOOLEAN, extra : BOOLEAN]
        /\ ota' \in [run : BOOLEAN, inited : BOOLEAN, extra : BOOLEAN]
        /\ drv' \in [init : BOOLEAN, as : {"none", "ap", "sta"}]
    <3>1. /\ Off \in [run : BOOLEAN, inited : BOOLEAN, extra : BOOLEAN]
          /\ NoRadio \in [init : BOOLEAN, as : {"none", "ap", "sta"}]
      BY DEF Off, NoRadio
    <3>2. UNCHANGED radioVars \/ WebTeardown
      BY <1>3 DEF CmdWifiOff
    <3> QED BY <3>1, <3>2 DEF WebTeardown, Undone, radioVars
  <2>3. panel' \in Screens /\ UNCHANGED <<power, btnq, pc, mode, sel, spent, late>>
    BY <1>3 DEF CmdWifiOff, Screens
  <2> QED BY <2>1, <2>2, <2>3
<1> QED BY <1>1, <1>2, <1>3 DEF Console

LEMMA InitType == Init => TypeOK
<1> SUFFICES ASSUME Init PROVE TypeOK
  OBVIOUS
<1>1. CapTypeOK
  BY DEF Init, CapInit, CapTypeOK
<1>2. btnq = <<>> /\ btnq \in Seq(Events) /\ Len(btnq) <= BtnQLen
  BY DEF Init, Booted
<1>3. PICK r \in BOOLEAN : Booted(r)
  BY DEF Init
<1>4. pc \in [Tasks -> Pcs] /\ mode \in [Tasks -> {"none", "readout", "update", "install"}]
  BY <1>3 DEF Booted, Pcs, Waits
<1>5. /\ web \in [run : BOOLEAN, inited : BOOLEAN, extra : BOOLEAN]
      /\ ota \in [run : BOOLEAN, inited : BOOLEAN, extra : BOOLEAN]
      /\ drv \in [init : BOOLEAN, as : {"none", "ap", "sta"}]
  BY <1>3 DEF Booted, Off, NoRadio
<1>6. power = "on" /\ sel = 1 /\ spent = FALSE /\ late = FALSE
  BY <1>3, Zenon DEF Booted
<1>7. panel \in Screens
  BY <1>3 DEF Booted, Screens
<1>8. power \in {"on", "off"} /\ sel \in 1 .. 3
  BY <1>6
<1>9. spent \in BOOLEAN /\ late \in BOOLEAN
  BY <1>6
<1> QED BY <1>1, <1>2, <1>4, <1>5, <1>7, <1>8, <1>9 DEF TypeOK

LEMMA TypeStep == TypeOK /\ [Next]_vars => TypeOK'
<1> SUFFICES ASSUME TypeOK, [Next]_vars PROVE TypeOK'
  OBVIOUS
<1>1. ASSUME NEW p \in Presses, Press(p) PROVE TypeOK'
  <2>1. [btn |-> p.btn, long |-> p.long, answer |-> Answers(p)] \in Events
    BY DEF Events, AllPresses, Answers
  <2>2. btnq' \in Seq(Events) /\ Len(btnq') <= BtnQLen
    BY <1>1, <2>1 DEF Press, TypeOK
  <2> QED BY <1>1, <2>2 DEF Press, TypeOK, capVars, radioVars, CapTypeOK
<1>2. CASE CapTask
  BY <1>2, CapStepType DEF CapTask, TypeOK, radioVars
<1>3. CASE UNCHANGED vars
  BY <1>3 DEF vars, capVars, radioVars, TypeOK, CapTypeOK
<1> QED
  BY <1>1, <1>2, <1>3, ButtonType, ConsoleType, ModeType DEF Next, Ended

\* The queues, the flags and every task are always where the code can take them.
THEOREM WellTyped == Spec => []TypeOK
  BY InitType, TypeStep, PTL DEF Spec

-----------------------------------------------------------------------------
(***************************************************************************)
(* The invariant.                                                          *)
(***************************************************************************)
InCapq    == \E k \in DOMAIN capq : capq[k] = "shutdown"
UnderWay  == busy \in {"stopspend", "spend", "give"}
Joining   == \E t \in Tasks : pc[t] = "join"
Unique    == \A j, k \in DOMAIN capq : capq[j] = "shutdown" /\ capq[k] = "shutdown" => j = k
Free(t)   == pc[t] \in {Rest(t), "parked"}

\* One task at a time is anywhere but where it started from.
OneBusy == \E t \in Tasks : Free(t)

\* The capture task answers when the host has stopped, and is not disturbed before.
Answered ==
  /\ sem = 1 \/ busy = "give" => ble = "down"
  /\ ble = "spent" => busy = "spend"

\* A shutdown that is under way has its caller in the join, unless one went unanswered.
Owned == ~late /\ Coming => Joining

\* It is the only one.
OnlyOne ==
  ~late =>
    /\ sem = 1 => ~UnderWay /\ ~InCapq
    /\ UnderWay => ~InCapq
    /\ Unique

\* In a mode, and wherever Wi-Fi is up, BLE is down.
Parted == (\E t \in Tasks : InMode(t)) \/ drv.init => ble = "down" \/ late

RadioInv == TypeOK /\ OneBusy /\ Answered /\ Owned /\ OnlyOne /\ Parted

\* Button A knows as soon as the caller of the shutdown does.
Known == ble # "up" \/ Coming => spent \/ Joining

-----------------------------------------------------------------------------
LEMMA ComingIs == Coming = (sem = 1 \/ UnderWay \/ InCapq)
  BY DEF Coming, UnderWay, InCapq

LEMMA TookQueue ==
  ASSUME CapTypeOK, NEW m, Took(m)
  PROVE  /\ InCapq' => InCapq
         /\ m = "shutdown" => InCapq
         /\ Unique => Unique' /\ (m = "shutdown" => ~InCapq')
<1>1. /\ capq \in Seq(Commands) /\ capq # <<>> /\ capq' = Tail(capq)
      /\ capq[1] = m
  BY DEF CapTypeOK, Took
<1>2. /\ DOMAIN capq = 1 .. Len(capq) /\ Len(capq) \in Nat \ {0}
      /\ DOMAIN capq' = 1 .. (Len(capq) - 1)
      /\ \A k \in DOMAIN capq' : k + 1 \in DOMAIN capq /\ k + 1 # 1 /\ capq'[k] = capq[k + 1]
  BY <1>1
<1>3. 1 \in DOMAIN capq /\ \A j, k \in DOMAIN capq' : j + 1 = k + 1 => j = k
  BY <1>2
<1> QED BY <1>1, <1>2, <1>3 DEF InCapq, Unique

LEMMA PostQueue ==
  ASSUME CapTypeOK, NEW m \in Commands, Post(m)
  PROVE  /\ InCapq' => InCapq \/ m = "shutdown"
         /\ Unique /\ (m # "shutdown" \/ ~InCapq) => Unique'
<1>1. CASE capq' = capq
  BY <1>1 DEF InCapq, Unique
<1>2. CASE capq' = Append(capq, m)
  <2>1. /\ DOMAIN capq = 1 .. Len(capq) /\ Len(capq) \in Nat
        /\ DOMAIN capq' = 1 .. (Len(capq) + 1)
        /\ \A k \in DOMAIN capq' :
             \/ k = Len(capq) + 1 /\ capq'[k] = m
             \/ k \in DOMAIN capq /\ capq'[k] = capq[k]
    BY <1>2 DEF CapTypeOK
  <2> QED BY <2>1 DEF InCapq, Unique
<1> QED BY <1>1, <1>2 DEF Post

\* What a step of the capture task may do to a shutdown: carry it on.
LEMMA CapCarries ==
  ASSUME CapTypeOK, Answered, CapStep
  PROVE  /\ Answered' /\ (ble = "down" => ble' = "down")
         /\ (ble' # "up" => ble # "up" \/ UnderWay)
         /\ (sem' = 1 \/ UnderWay' \/ InCapq' => sem = 1 \/ UnderWay \/ InCapq)
         /\ (sem = 1 => ~UnderWay /\ ~InCapq) /\ (UnderWay => ~InCapq) /\ Unique =>
              (sem = 1 => ~UnderWay /\ ~InCapq)' /\ (UnderWay => ~InCapq)' /\ Unique'
<1> USE DEF Answered, UnderWay, CapTypeOK
<1>1. CASE Ignore \/ IgnoreStop \/ StartScan \/ StopScan \/ StartRecord \/ TakeStop
  <2>1. \E m : Took(m)
    BY <1>1 DEF Ignore, IgnoreStop, StartScan, StopScan, StartRecord, TakeStop
  <2>2. UNCHANGED <<ble, sem>> /\ busy = "no" /\ busy' \in {"no", "start", "stop"}
    BY <1>1 DEF Ignore, IgnoreStop, StartScan, StopScan, StartRecord, TakeStop, Took
  <2> QED BY <2>1, <2>2, TookQueue
<1>2. CASE ScanStep \/ Started \/ StopsItself
  <2>1. UNCHANGED <<capq, ble, sem>> /\ busy \in {"no", "start"} /\ busy' \in {"no", "stop"}
    BY <1>2 DEF ScanStep, Started, StopsItself
  <2> QED BY <2>1 DEF InCapq, Unique
<1>3. CASE TakeShutdown
  <2>1. /\ Took("shutdown") /\ busy = "no" /\ ble' = ble
        /\ \/ ble = "up" /\ busy' = "stopspend" /\ sem' = sem
           \/ ble # "up" /\ busy' = "no" /\ sem' = 1
    BY <1>3 DEF TakeShutdown, Took
  <2> QED BY <2>1, TookQueue
<1>4. CASE Stopping
  <2>1. /\ UNCHANGED <<capq, ble, sem>> /\ busy \in {"stop", "stopspend"}
        /\ \/ busy' = busy
           \/ busy = "stop" /\ busy' = "no"
           \/ busy = "stopspend" /\ busy' = "spend"
    BY <1>4 DEF Stopping, Stopped, Capturing
  <2> QED BY <2>1 DEF InCapq, Unique
<1>5. CASE Spending \/ Giving
  <2>1. UNCHANGED capq
    BY <1>5 DEF Spending, Giving
  <2>2. CASE Spending
    BY <2>1, <2>2 DEF Spending, InCapq, Unique
  <2>3. CASE Giving
    BY <2>1, <2>3 DEF Giving, InCapq, Unique
  <2> QED BY <1>5, <2>2, <2>3
<1> QED BY <1>1, <1>2, <1>3, <1>4, <1>5 DEF CapStep

LEMMA CapTaskInv ==
  ASSUME RadioInv, Known, CapTask
  PROVE  RadioInv' /\ Known'
<1>1. CapStep /\ UNCHANGED <<pc, drv, spent, late>> /\ TypeOK'
  BY TypeStep DEF CapTask, radioVars, Next, RadioInv
<1>2. Joining' = Joining /\ OneBusy' = OneBusy /\ \A t \in Tasks : InMode(t)' = InMode(t)
  BY <1>1 DEF Joining, OneBusy, Free, Rest, InMode
<1>3. CapTypeOK
  BY DEF RadioInv, TypeOK
<1>4. Coming' = (sem' = 1 \/ UnderWay' \/ InCapq')
  BY DEF Coming, UnderWay, InCapq
<1>5. Answered' /\ Owned' /\ OnlyOne'
  BY <1>1, <1>2, <1>3, <1>4, ComingIs, CapCarries DEF RadioInv, Owned, OnlyOne
<1>6. Parted'
  BY <1>1, <1>2, <1>3, CapCarries DEF RadioInv, Parted
<1>7. Known'
  BY <1>1, <1>2, <1>3, <1>4, ComingIs, CapCarries DEF RadioInv, Known
<1> QED BY <1>1, <1>2, <1>5, <1>6, <1>7 DEF RadioInv

\* A step of a task that is not in the shutdown, nor on its way into the radio.
LEMMA AsideStep ==
  ASSUME RadioInv, Known, TypeOK', OneAtATime, NEW t \in Tasks,
         \A u \in Tasks : u # t => pc'[u] = pc[u],
         ~Free(t) \/ Free(t)' \/ Alone(t),
         UNCHANGED capVars \/ \E m \in Commands \ {"shutdown"} : Post(m),
         pc[t] # "join", pc'[t] # "join", late' = late, spent' = spent,
         InMode(t)' \/ drv'.init => InMode(t) \/ drv.init
  PROVE  RadioInv' /\ Known'
<1>1. OneBusy'
  BY DEF RadioInv, OneBusy, Free, Rest, Alone, Other, Tasks
<1>2. Joining' = Joining
  BY DEF Joining
<1>3. UNCHANGED <<ble, sem, busy>>
  BY DEF capVars, Post
<1>4. /\ InCapq' => InCapq
      /\ Unique => Unique'
  BY PostQueue DEF capVars, InCapq, Unique, RadioInv, TypeOK
<1>5. Coming' => Coming
  BY <1>3, <1>4 DEF Coming, InCapq
<1>6. (\E u \in Tasks : InMode(u)') \/ drv'.init => (\E u \in Tasks : InMode(u)) \/ drv.init
  BY DEF InMode
<1>7. Answered' /\ Owned' /\ OnlyOne' /\ Parted' /\ Known'
  BY <1>2, <1>3, <1>4, <1>5, <1>6
     DEF RadioInv, Answered, Owned, OnlyOne, Parted, Known, UnderWay
<1> QED BY <1>1, <1>7 DEF RadioInv

LEMMA ButtonInv ==
  ASSUME RadioInv, Known, TypeOK', OneAtATime, ButtonStep
  PROVE  RadioInv' /\ Known'
<1> USE DEF Tasks, Free, Rest, InMode
<1>1. TypeOK /\ "buttons" \in Tasks
  BY DEF RadioInv
<1>2. UNCHANGED <<late, spent, drv>>
  BY DEF ButtonStep, RolledScreen, Loop, MenuIdle, MenuNext, MenuLeave, MenuPower, MenuPick, Info,
     BusyScreen, InMenu, ButtonsOnly, radioVars
<1>3. UNCHANGED capVars \/ \E m \in Commands \ {"shutdown"} : Post(m)
  <2>1. CASE Loop
    BY <2>1 DEF Loop, LoopReadout, LoopSpent, LoopCapture, LoopB, LoopPwr, Commands
  <2> QED
    BY <2>1 DEF ButtonStep, RolledScreen, MenuIdle, MenuNext, MenuLeave, MenuPower, MenuPick, Info,
       BusyScreen, InMenu, Commands
<1>4. /\ \A u \in Tasks : u # "buttons" => pc'[u] = pc[u]
      /\ pc["buttons"] # "join" /\ ~InMode("buttons")
      /\ pc'["buttons"] # "join" /\ ~InMode("buttons")'
      /\ ~Free("buttons") \/ Free("buttons")' \/ Alone("buttons")
  <2> USE <1>1, GotoFact DEF TypeOK, Pcs, Waits, At, PowerOff
  <2>1. CASE RolledScreen \/ Info \/ BusyScreen
    BY <2>1 DEF RolledScreen, Info, BusyScreen
  <2>2. CASE Loop
    <3>1. /\ pc["buttons"] = "loop"
          /\ \/ UNCHANGED pc
             \/ Goto("buttons", "parked")
             \/ Alone("buttons") /\ (Goto("buttons", "busy") \/ Goto("buttons", "menu"))
      <4>1. LoopReadout \/ LoopSpent \/ LoopCapture => UNCHANGED pc
        BY DEF LoopReadout, LoopSpent, LoopCapture
      <4> QED BY <2>2, <4>1 DEF Loop, LoopB, LoopPwr
    <3>2. CASE UNCHANGED pc
      BY <3>1, <3>2
    <3>3. CASE Goto("buttons", "parked")
      BY <3>1, <3>3
    <3>4. CASE Alone("buttons") /\ (Goto("buttons", "busy") \/ Goto("buttons", "menu"))
      BY <3>1, <3>4
    <3> QED BY <3>1, <3>2, <3>3, <3>4
  <2>3. CASE MenuIdle \/ MenuNext \/ MenuLeave
    <3>1. pc["buttons"] = "menu" /\ (UNCHANGED pc \/ Goto("buttons", "loop"))
      BY <2>3 DEF MenuIdle, MenuNext, MenuLeave, InMenu, Is
    <3> QED BY <3>1
  <2>4. CASE MenuPower
    <3>1. pc["buttons"] = "menu" /\ (UNCHANGED pc \/ Goto("buttons", "parked"))
      BY <2>4 DEF MenuPower
    <3> QED BY <3>1
  <2>5. CASE MenuPick
    <3>1. pc["buttons"] = "menu" /\ (Goto("buttons", "info") \/ Goto("buttons", "enter"))
      BY <2>5 DEF MenuPick, InMenu
    <3> QED BY <3>1
  <2> QED BY <2>1, <2>2, <2>3, <2>4, <2>5 DEF ButtonStep
<1> HIDE DEF Tasks, Free, Rest, InMode
<1> QED BY <1>1, <1>2, <1>3, <1>4, AsideStep

LEMMA ConsoleInv ==
  ASSUME RadioInv, Known, TypeOK', OneAtATime, Console
  PROVE  RadioInv' /\ Known'
<1>1. TypeOK /\ "console" \in Tasks
  BY DEF RadioInv, Tasks
<1>2. UNCHANGED <<late, spent>> /\ (drv'.init => drv.init)
  <2>1. CASE CmdWifiOff
    BY <2>1 DEF CmdWifiOff, radioVars, WebTeardown, Undone, NoRadio
  <2> QED BY <2>1 DEF Console, CmdCap, CmdMode, radioVars
<1>3. UNCHANGED capVars \/ \E m \in Commands \ {"shutdown"} : Post(m)
  <2>1. ASSUME NEW c \in Cmds, CmdCap(c) PROVE c \in Commands \ {"shutdown"} /\ Post(c)
    BY <2>1 DEF CmdCap, Commands, AllCmds
  <2> QED BY <2>1 DEF Console, CmdMode, CmdWifiOff
<1>4. /\ \A u \in Tasks : u # "console" => pc'[u] = pc[u]
      /\ pc["console"] # "join" /\ pc'["console"] # "join" /\ ~InMode("console")'
      /\ ~Free("console") \/ Free("console")' \/ Alone("console")
  <2> USE <1>1, GotoFact DEF TypeOK, Pcs, Waits, At, Free, Rest, InMode, Tasks
  <2>1. CASE UNCHANGED pc /\ pc["console"] = "prompt"
    BY <2>1
  <2>2. ASSUME NEW c, NEW m, CmdMode(c, m)
        PROVE Goto("console", "enter") /\ Alone("console") /\ pc["console"] = "prompt"
    BY <2>2 DEF CmdMode
  <2>3. CASE Goto("console", "enter") /\ Alone("console") /\ pc["console"] = "prompt"
    BY <2>3
  <2> QED BY <2>1, <2>2, <2>3 DEF Console, CmdCap, CmdWifiOff
<1> QED BY <1>1, <1>2, <1>3, <1>4, AsideStep

\* A task that is in a mode has it to itself.
LEMMA ToItself ==
  ASSUME RadioInv, NEW t \in Tasks, ~Free(t)
  PROVE  \A u \in Tasks : u # t => Free(u) /\ pc[u] # "join" /\ ~InMode(u)
  BY DEF RadioInv, OneBusy, Free, Rest, InMode, Tasks

LEMMA ShutInv ==
  ASSUME RadioInv, Known, TypeOK', NEW t \in Tasks, Shut(t)
  PROVE  RadioInv' /\ Known'
<1>1. TypeOK /\ pc[t] = "shut" /\ ~Free(t) /\ drv' = drv /\ late' = late
  BY DEF RadioInv, Shut, At, Free, Rest, radioVars
<1>2. \A u \in Tasks : u # t => Free(u) /\ pc[u] # "join" /\ ~InMode(u)
  BY <1>1, ToItself
<1>3. ~late => ~Coming
  BY <1>1, <1>2 DEF RadioInv, Owned, Joining
<1>4. \A u \in Tasks : u # t => pc'[u] = pc[u]
  BY <1>1, StepFact DEF Shut, Begin, Pcs
<1>5. OneBusy'
  BY <1>2, <1>4 DEF OneBusy, Free, Rest, Tasks
<1>6. CASE ble # "up"
  <2>1. UNCHANGED <<ble, sem, busy, capq>> /\ spent'
    BY <1>6 DEF Shut, capVars
  <2>2. ble = "down" \/ late
    BY <1>3, <1>6 DEF RadioInv, TypeOK, CapTypeOK, Answered, Coming
  <2>3. Answered' /\ OnlyOne' /\ Coming' = Coming /\ Parted' /\ Known'
    BY <1>1, <2>1, <2>2 DEF RadioInv, Answered, OnlyOne, UnderWay, InCapq, Unique, Coming, Parted,
       Known
  <2> QED BY <1>1, <1>3, <1>5, <2>3 DEF RadioInv, Owned
<1>7. CASE ble = "up"
  <2>1. Post("shutdown") /\ pc'[t] = "join" /\ UNCHANGED <<ble, sem, busy>>
    BY <1>1, <1>7, StepFact DEF Shut, Post, Pcs
  <2>2. Joining'
    BY <2>1 DEF Joining
  <2>3. Answered' /\ Owned' /\ Known'
    BY <2>1, <2>2 DEF RadioInv, Answered, Owned, Known
  <2>4. OnlyOne'
    <3>1. ~late => Unique'
      BY <1>3, <2>1, PostQueue, ComingIs DEF RadioInv, TypeOK, OnlyOne, Commands
    <3> QED BY <1>1, <1>3, <2>1, <3>1, ComingIs DEF OnlyOne, UnderWay
  <2>5. Parted'
    BY <1>1, <1>2, <1>4, <2>1 DEF RadioInv, Parted, InMode
  <2> QED BY <1>5, <2>3, <2>4, <2>5 DEF RadioInv
<1> QED BY <1>6, <1>7

LEMMA JoinInv ==
  ASSUME RadioInv, Known, TypeOK', NEW t \in Tasks, Join(t)
  PROVE  RadioInv' /\ Known'
<1>1. TypeOK /\ pc[t] = "join" /\ ~Free(t) /\ drv' = drv /\ spent'
  BY DEF RadioInv, Join, At, Free, Rest, radioVars
<1>2. OneBusy'
  <2>1. \A u \in Tasks : u # t => Free(u)
    BY <1>1, ToItself
  <2>2. \A u \in Tasks : u # t => pc'[u] = pc[u]
    BY <1>1, StepFact DEF Join, Begin, Pcs
  <2> QED BY <2>1, <2>2 DEF OneBusy, Free, Rest, Tasks
<1>3. CASE late' = TRUE /\ UNCHANGED capVars
  BY <1>1, <1>2, <1>3 DEF RadioInv, Answered, Owned, OnlyOne, Parted, Known, capVars
<1>4. CASE TakeSem /\ late' = late
  <2>1. sem = 1 /\ sem' = 0 /\ UNCHANGED <<ble, busy, capq>> /\ ble = "down"
    BY <1>4 DEF TakeSem, RadioInv, Answered
  <2>2. OnlyOne' /\ (~late => ~UnderWay' /\ ~InCapq')
    BY <1>4, <2>1 DEF RadioInv, OnlyOne, UnderWay, InCapq, Unique
  <2>3. ~late' => ~Coming'
    BY <1>4, <2>1, <2>2 DEF Coming, UnderWay, InCapq
  <2>4. Answered' /\ Owned' /\ Parted' /\ Known'
    BY <1>1, <2>1, <2>3 DEF RadioInv, Answered, Owned, Parted, Known
  <2> QED BY <1>2, <2>2, <2>4 DEF RadioInv
<1> QED BY <1>3, <1>4 DEF Join

LEMMA ModeInv ==
  ASSUME RadioInv, Known, TypeOK', OneAtATime, NEW t \in Tasks, ModeStep(t)
  PROVE  RadioInv' /\ Known'
<1>1. CASE Shut(t) \/ Join(t)
  BY <1>1, ShutInv, JoinInv
<1>2. CASE Enter(t)
  <2>1. TypeOK /\ pc[t] = "enter" /\ UNCHANGED <<capVars, late, spent, drv>>
    BY <1>2 DEF RadioInv, Enter, At, radioVars
  <2>2. /\ \A u \in Tasks : u # t => pc'[u] = pc[u]
        /\ pc'[t] \in {Rest(t), "shut"}
    BY <1>2, <2>1, StepFact, ReturnFact DEF Enter, Pcs
  <2>3. pc[t] # "join" /\ pc'[t] # "join" /\ ~Free(t) /\ ~InMode(t)'
    BY <2>1, <2>2 DEF Free, Rest, InMode
  <2> QED BY <2>1, <2>2, <2>3, AsideStep
<1>3. CASE ~Enter(t) /\ ~Shut(t) /\ ~Join(t)
  <2> DEFINE Steps == WebStart(t) \/ WebUp(t) \/ WebServe(t) \/ Check(t) \/ CheckUp(t)
                      \/ CheckJoin(t) \/ Fetch(t) \/ Confirm(t) \/ Decline(t) \/ Install(t)
                      \/ Download(t) \/ Reboot(t) \/ Result(t)
  <2>1. Steps
    BY <1>3 DEF ModeStep
  <2>2. TypeOK /\ UNCHANGED <<capVars, late, spent>>
    BY <2>1 DEF RadioInv, WebStart, WebUp, WebServe, Check, CheckUp, CheckJoin, Fetch, Confirm,
       Decline, Install, Download, Reboot, Result, modeOnly
  <2>3. InMode(t)
    BY <2>1 DEF InMode, At, WebStart, WebUp, WebServe, Check, CheckUp, CheckJoin, Fetch, Confirm,
       Decline, Install, Download, Reboot, Result
  <2>4. pc[t] # "join" /\ ~Free(t)
    BY <2>3 DEF InMode, Free, Rest
  <2>5. (\A u \in Tasks : u # t => pc'[u] = pc[u]) /\ pc'[t] # "join"
    <3> USE <2>2, StepFact, ReturnFact DEF Rest, Pcs, Waits, Shows
    <3>1. CASE WebStart(t) \/ WebUp(t) \/ WebServe(t)
      BY <3>1 DEF WebStart, WebUp, WebServe, WebFails
    <3>2. CASE Check(t) \/ CheckUp(t) \/ CheckJoin(t) \/ Fetch(t)
      BY <3>2 DEF Check, CheckUp, CheckJoin, Fetch
    <3>3. CASE Confirm(t) \/ Install(t) \/ Download(t)
      BY <3>3 DEF Confirm, Is, Install, Download
    <3>5. CASE Decline(t) \/ Result(t)
      <4>1. Return(t)
        BY <3>5 DEF Decline, Result
      <4> QED BY <4>1, ReturnFact, <2>2 DEF Rest
    <3>4. CASE Reboot(t)
      BY <2>4, <3>4 DEF Reboot
    <3> QED BY <2>1, <3>1, <3>2, <3>3, <3>4, <3>5
  <2> QED BY <2>2, <2>3, <2>4, <2>5, AsideStep
<1> QED BY <1>1, <1>2, <1>3

LEMMA InvInit == Init => RadioInv /\ Known
<1> SUFFICES ASSUME Init PROVE RadioInv /\ Known
  OBVIOUS
<1>1. TypeOK
  BY InitType
<1>2. PICK r \in BOOLEAN : Booted(r)
  BY DEF Init
<1>3. /\ sem = 0 /\ busy = "no" /\ ble = "up" /\ capq = <<>>
      /\ drv = NoRadio /\ pc["console"] = "prompt" /\ pc["buttons"] \in {"loop", "rolled"}
  BY <1>2 DEF Init, CapInit, Booted, Tasks
<1>4. ~Coming /\ ~InCapq /\ ~UnderWay /\ Unique
  BY <1>3 DEF Coming, InCapq, UnderWay, Unique
<1>5. OneBusy /\ Answered /\ Parted
  BY <1>3 DEF OneBusy, Answered, Parted, Free, Rest, Tasks, InMode, NoRadio
<1> QED BY <1>1, <1>3, <1>4, <1>5 DEF RadioInv, Owned, OnlyOne, Known

LEMMA InvStep == OneAtATime /\ RadioInv /\ Known /\ [Next]_vars => (RadioInv /\ Known)'
<1> SUFFICES ASSUME OneAtATime, RadioInv, Known, [Next]_vars PROVE (RadioInv /\ Known)'
  OBVIOUS
<1>1. TypeOK'
  BY TypeStep DEF RadioInv
<1>2. CASE UNCHANGED <<capVars, pc, drv, spent, late>>
  BY <1>1, <1>2 DEF capVars, RadioInv, Known, OneBusy, Answered, Owned, OnlyOne, Parted, Coming,
     InCapq, UnderWay, Joining, Unique, Free, InMode
<1> QED
  BY <1>1, <1>2, ButtonInv, ConsoleInv, ModeInv, CapTaskInv
     DEF Next, Press, Ended, vars, radioVars

LEMMA Invariant ==
  ASSUME OneAtATime
  PROVE  Spec => [](RadioInv /\ Known)
  BY InvInit, InvStep, PTL DEF Spec

\* With one task at a time in the modes, Wi-Fi does not come up beside a host that
\* still runs, unless a shutdown was not answered in time.
THEOREM OneRadioHolds ==
  ASSUME OneAtATime
  PROVE  Spec => []OneRadio
<1>1. RadioInv => OneRadio
  BY DEF RadioInv, Parted, OneRadio
<1> QED BY <1>1, Invariant, PTL

\* ... and button A is told of every shutdown, the unanswered ones too.
THEOREM SpentKnownHolds ==
  ASSUME OneAtATime
  PROVE  Spec => []SpentKnown
<1>1. Known => SpentKnown
  BY DEF Known, Joining, SpentKnown
<1> QED BY <1>1, Invariant, PTL

-----------------------------------------------------------------------------
(***************************************************************************)
(* What is up of the two sides of Wi-Fi, wherever a task may be.           *)
(***************************************************************************)
Calm ==
  /\ ota = Off
  /\ IF web.run THEN web.inited /\ web.extra /\ drv = [init |-> TRUE, as |-> "ap"]
                ELSE web = Off /\ drv = NoRadio

Updating == [run |-> TRUE, inited |-> TRUE, extra |-> TRUE]

Radio(l) ==
  /\ l \in {"webstart", "check"} => web = Off /\ ota = Off /\ drv = NoRadio
  /\ l \in {"webup", "webserve"} =>
       web = [run |-> FALSE, inited |-> TRUE, extra |-> FALSE] /\ ota = Off
  /\ l = "webserve" => drv = [init |-> TRUE, as |-> "ap"]
  /\ l \in {"checkup", "joinnet", "fetch", "offer", "install", "download", "result"} => web = Off
  /\ l = "checkup" => ota = [run |-> FALSE, inited |-> TRUE, extra |-> TRUE]
  /\ l \in {"joinnet", "fetch", "offer", "install", "download"} => ota = Updating
  /\ l = "result" => ota = Updating \/ (ota = Off /\ drv = NoRadio)

Stage(t) ==
  /\ pc[t] \in {"rolled", "menu", "info", "busy", "shut", "join"}
     \/ (pc[t] = "enter" /\ mode[t] # "readout") => ~web.run
  /\ Radio(pc[t])

Calmed   == (\A t \in Tasks : ~InMode(t)) => Calm
Staged   == \A t \in Tasks : Stage(t)
StageInv == Calmed /\ Staged

LEMMA FreeStage ==
  ASSUME NEW t \in Tasks, Free(t)
  PROVE  Stage(t)
  BY DEF Free, Rest, Stage, Radio

LEMMA ButtonStage ==
  ASSUME RadioInv, StageInv, ButtonStep
  PROVE  StageInv'
<1> USE DEF Tasks, Pcs, Waits, At
<1>1. TypeOK /\ UNCHANGED radioVars /\ "buttons" \in Tasks
  BY DEF RadioInv, ButtonStep, RolledScreen, Loop, MenuIdle, MenuNext, MenuLeave, MenuPower,
     MenuPick, Info, BusyScreen, InMenu, ButtonsOnly
<1>2. CASE UNCHANGED <<pc, mode>>
  BY <1>1, <1>2 DEF StageInv, Calmed, Staged, Calm, Stage, Radio, InMode, radioVars
<1>3. ASSUME NEW l \in {"loop", "parked", "menu", "busy", "info", "enter"}, Goto("buttons", l),
             ~InMode("buttons"), l \in {"loop", "parked"} \/ ~web.run,
             mode'["console"] = mode["console"]
      PROVE  StageInv'
  <2>1. pc'["buttons"] = l /\ pc'["console"] = pc["console"]
    BY <1>1, <1>3 DEF TypeOK, Goto
  <2>2. Stage("buttons")' /\ Stage("console")'
    BY <1>1, <1>3, <2>1 DEF StageInv, Staged, Stage, Radio, radioVars
  <2>3. Calmed'
    BY <1>1, <1>3, <2>1 DEF StageInv, Calmed, Calm, InMode, radioVars
  <2> QED BY <2>2, <2>3 DEF StageInv, Staged
<1>4. CASE RolledScreen \/ BusyScreen \/ MenuIdle \/ MenuLeave \/ MenuNext
  <2>1. /\ UNCHANGED mode /\ pc["buttons"] \in {"rolled", "busy", "menu"}
        /\ UNCHANGED pc \/ Goto("buttons", "loop")
    BY <1>4 DEF RolledScreen, BusyScreen, MenuIdle, MenuLeave, MenuNext, InMenu, ButtonsOnly, Is
  <2> QED BY <1>2, <1>3, <2>1 DEF InMode
<1>5. CASE MenuPower \/ Loop
  <2>1. UNCHANGED mode /\ pc["buttons"] \in {"menu", "loop"}
    BY <1>5 DEF MenuPower, Loop, ButtonsOnly
  <2>2. CASE MenuPower
    <3>1. UNCHANGED pc \/ Goto("buttons", "parked")
      BY <2>2 DEF MenuPower, PowerOff
    <3> QED BY <1>2, <1>3, <2>1, <3>1 DEF InMode
  <2>3. CASE Loop
    <3>1. \/ UNCHANGED pc
          \/ Goto("buttons", "parked")
          \/ ~web.run /\ (Goto("buttons", "busy") \/ Goto("buttons", "menu"))
      <4>1. LoopReadout \/ LoopSpent \/ LoopCapture => UNCHANGED pc
        BY DEF LoopReadout, LoopSpent, LoopCapture
      <4> QED BY <2>3, <4>1 DEF Loop, LoopB, LoopPwr, PowerOff
    <3> QED BY <1>2, <1>3, <2>1, <3>1 DEF InMode
  <2> QED BY <1>5, <2>2, <2>3
<1>6. CASE MenuPick \/ Info
  <2>1. /\ pc["buttons"] \in {"menu", "info"} /\ mode'["console"] = mode["console"]
        /\ \E l \in {"loop", "menu", "info", "enter"} : Goto("buttons", l)
    <3>1. CASE Info
      BY <3>1 DEF Info, ButtonsOnly
    <3>2. CASE MenuPick
      <4>1. mode'["console"] = mode["console"]
        BY <1>1, <3>2 DEF MenuPick, TypeOK
      <4> QED BY <3>2, <4>1 DEF MenuPick, InMenu
    <3> QED BY <1>6, <3>1, <3>2
  <2>2. ~web.run /\ ~InMode("buttons")
    BY <2>1 DEF StageInv, Staged, Stage, Radio, InMode
  <2> QED BY <1>3, <2>1, <2>2
<1> QED BY <1>4, <1>5, <1>6 DEF ButtonStep

LEMMA ConsoleStage ==
  ASSUME RadioInv, StageInv, OneAtATime, Console
  PROVE  StageInv'
<1> USE DEF Tasks
<1>1. TypeOK /\ pc["console"] = "prompt" /\ ~InMode("console")
  BY DEF RadioInv, Console, CmdCap, CmdMode, CmdWifiOff, At, InMode
<1>2. ASSUME NEW c \in Cmds, CmdCap(c) PROVE StageInv'
  BY <1>2 DEF CmdCap, StageInv, Calmed, Staged, Calm, Stage, Radio, InMode, radioVars
<1>3. ASSUME NEW c, NEW m, CmdMode(c, m) PROVE StageInv'
  <2>1. /\ pc'["console"] = "enter" /\ mode'["console"] = m /\ UNCHANGED radioVars
        /\ pc'["buttons"] = pc["buttons"] /\ mode'["buttons"] = mode["buttons"]
        /\ m # "readout" => ~web.run
    BY <1>1, <1>3 DEF CmdMode, Goto, TypeOK
  <2>2. Stage("console")' /\ Stage("buttons")' /\ Calmed'
    BY <1>1, <2>1 DEF StageInv, Staged, Stage, Radio, Calmed, Calm, InMode, radioVars
  <2> QED BY <2>2 DEF StageInv, Staged
<1>4. CASE CmdWifiOff
  <2>1. /\ Free("buttons") /\ Free("console") /\ UNCHANGED pc
        /\ UNCHANGED radioVars \/ WebTeardown
    BY <1>1, <1>4 DEF CmdWifiOff, Alone, Other, Free, Rest
  <2>2. Staged'
    BY <2>1 DEF Staged, Stage, Radio, Free, Rest
  <2>3. Calm
    BY <2>1 DEF StageInv, Calmed, InMode, Free, Rest
  <2>4. Calm'
    BY <2>1, <2>3 DEF Calm, WebTeardown, Undone, radioVars, Off, NoRadio
  <2> QED BY <2>2, <2>4 DEF StageInv, Calmed
<1> QED BY <1>2, <1>3, <1>4 DEF Console

LEMMA ModeStage ==
  ASSUME RadioInv, StageInv, NEW t \in Tasks, ModeStep(t)
  PROVE  StageInv'
<1>1. TypeOK /\ ~Free(t) /\ Stage(t)
  BY DEF RadioInv, StageInv, Staged, ModeStep, Free, Rest, At, Enter, Shut, Join, WebStart, WebUp,
     WebServe, Check, CheckUp, CheckJoin, Fetch, Confirm, Decline, Install, Download, Reboot, Result
<1>2. \A u \in Tasks : u # t => Free(u) /\ ~InMode(u)
  BY <1>1, ToItself
<1>3. ASSUME Stage(t)', InMode(t)' \/ Calm', \A u \in Tasks : u # t => pc'[u] = pc[u]
      PROVE  StageInv'
  <2>1. \A u \in Tasks : u # t => Stage(u)'
    BY <1>2, <1>3 DEF Stage, Radio, Free, Rest
  <2> QED BY <1>3, <2>1 DEF StageInv, Staged, Calmed
<1>4. ~InMode(t) => Calm
  BY <1>2 DEF StageInv, Calmed
<1>5. ASSUME NEW l \in Pcs, Step(t, l)
      PROVE  /\ pc'[t] = l /\ mode' = mode /\ \A u \in Tasks : u # t => pc'[u] = pc[u]
  BY <1>1, <1>5, StepFact
<1>6. ASSUME Return(t)
      PROVE  Stage(t)' /\ pc'[t] = Rest(t) /\ \A u \in Tasks : u # t => pc'[u] = pc[u]
  BY <1>1, <1>6, ReturnFact DEF Stage, Radio, Rest
<1>7. ASSUME NEW l \in {"webstart", "webup", "webserve", "check", "checkup", "joinnet", "fetch",
                        "offer", "install", "download", "reboot", "result"},
             Step(t, l), Radio(l)'
      PROVE  StageInv'
  <2>1. pc'[t] = l /\ \A u \in Tasks : u # t => pc'[u] = pc[u]
    BY <1>5, <1>7 DEF Pcs, Waits
  <2> QED BY <1>3, <1>7, <2>1 DEF Stage, Radio, InMode
<1>8. ASSUME Return(t), Calm' PROVE StageInv'
  BY <1>3, <1>6, <1>8
<1> USE DEF At
<1>9. CASE Enter(t)
  <2>1. pc[t] = "enter" /\ Calm /\ Calm'
    BY <1>4, <1>9 DEF Enter, InMode, Calm, radioVars
  <2>2. CASE Step(t, "shut")
    <3>1. ~web.run /\ ~web'.run
      BY <1>1, <1>9, <2>1, <2>2, <1>5, <1>6 DEF Enter, Stage, Radio, radioVars, Rest, Pcs
    <3> QED BY <1>3, <1>5, <2>1, <2>2, <3>1 DEF Stage, Radio, Pcs
  <2> QED BY <1>8, <1>9, <2>1, <2>2 DEF Enter
<1>10. CASE Shut(t) \/ Join(t)
  <2>1. /\ pc[t] \in {"shut", "join"} /\ UNCHANGED radioVars
        /\ \E l \in {"join", "webstart", "check"} : Step(t, l)
    BY <1>10 DEF Shut, Join, Begin
  <2>2. web = Off /\ ota = Off /\ drv = NoRadio /\ ~web.run /\ Calm'
    BY <1>1, <1>4, <2>1 DEF Stage, Radio, Calm, InMode, radioVars
  <2>3. CASE Step(t, "join")
    BY <1>3, <1>5, <2>1, <2>2, <2>3 DEF Stage, Radio, Pcs, radioVars
  <2>4. CASE Step(t, "webstart") \/ Step(t, "check")
    BY <1>7, <2>1, <2>2, <2>4 DEF Radio, radioVars
  <2> QED BY <2>1, <2>3, <2>4
<1>11. CASE WebStart(t) \/ WebUp(t) \/ WebServe(t)
  <2>1. pc[t] \in {"webstart", "webup", "webserve"}
    BY <1>11 DEF WebStart, WebUp, WebServe
  <2>2. /\ ota = Off
        /\ pc[t] = "webstart" => web = Off /\ drv = NoRadio
        /\ pc[t] # "webstart" => web.inited
    <3>1. CASE pc[t] = "webstart"
      BY <1>1, <3>1 DEF Stage, Radio, Off
    <3>2. CASE pc[t] \in {"webup", "webserve"}
      BY <1>1, <3>2 DEF Stage, Radio
    <3> QED BY <2>1, <3>1, <3>2
  <2>3. CASE WebFails(t)
    <3>1. web' = Off /\ ota' = Off /\ drv' = NoRadio
      BY <2>2, <2>3 DEF WebFails, WebTeardown, Undone, Off
    <3> QED BY <1>8, <2>3, <3>1 DEF WebFails, Calm, Off
  <2>4. CASE WebStart(t) /\ ~WebFails(t)
    <3>1. /\ web' = [web EXCEPT !.inited = TRUE] /\ ota' = ota /\ Step(t, "webup")
          /\ web = [run |-> FALSE, inited |-> FALSE, extra |-> FALSE] /\ ~web.run
      BY <2>2, <2>4 DEF WebStart, Off
    <3>2. web' = [run |-> FALSE, inited |-> TRUE, extra |-> FALSE]
      BY <3>1
    <3> QED BY <1>7, <2>2, <3>1, <3>2 DEF Radio
  <2>5. CASE WebUp(t) /\ ~WebFails(t)
    <3>1. /\ drv.init /\ drv' = [drv EXCEPT !.as = "ap"] /\ UNCHANGED <<web, ota>>
          /\ Step(t, "webserve") /\ drv \in [init : BOOLEAN, as : {"none", "ap", "sta"}]
          /\ web = [run |-> FALSE, inited |-> TRUE, extra |-> FALSE]
      BY <1>1, <2>5 DEF WebUp, Stage, Radio, TypeOK
    <3>2. drv' = [init |-> TRUE, as |-> "ap"]
      BY <3>1
    <3> QED BY <1>7, <2>2, <3>1, <3>2 DEF Radio
  <2>6. CASE WebServe(t) /\ ~WebFails(t)
    <3>1. /\ web' = [web EXCEPT !.run = TRUE, !.extra = TRUE] /\ UNCHANGED <<ota, drv>> /\ Return(t)
          /\ web = [run |-> FALSE, inited |-> TRUE, extra |-> FALSE]
          /\ drv = [init |-> TRUE, as |-> "ap"]
      BY <1>1, <2>6 DEF WebServe, Stage, Radio
    <3> QED BY <1>8, <2>2, <3>1 DEF Calm
  <2> QED BY <1>11, <2>3, <2>4, <2>5, <2>6
<1>12. ASSUME pc[t] \in {"check", "checkup", "joinnet", "fetch", "download", "offer", "result"},
              OtaTeardown
       PROVE  web' = Off /\ ota' = Off /\ drv' = NoRadio /\ ~Off.run
  BY <1>1, <1>12 DEF Stage, Radio, OtaTeardown, Undone, Updating, Off
<1>13. CASE OtaTeardown /\ Step(t, "result")
            /\ pc[t] \in {"check", "checkup", "joinnet", "fetch", "download"}
  BY <1>7, <1>12, <1>13 DEF Radio
<1>14. CASE Check(t)
  <2>1. pc[t] = "check" /\ web = Off /\ ota = Off /\ drv = NoRadio
    BY <1>1, <1>14 DEF Check, Stage, Radio
  <2>2. CASE UNCHANGED radioVars /\ Step(t, "result")
    BY <1>7, <2>1, <2>2 DEF Radio, radioVars
  <2>3. CASE ota' = [ota EXCEPT !.inited = TRUE, !.extra = TRUE] /\ web' = web /\ Step(t, "checkup")
    <3>1. ota' = [run |-> FALSE, inited |-> TRUE, extra |-> TRUE]
      BY <2>1, <2>3 DEF Off
    <3> QED BY <1>7, <2>1, <2>3, <3>1 DEF Radio
  <2> QED BY <1>13, <1>14, <2>1, <2>2, <2>3 DEF Check, Shows
<1>15. CASE CheckUp(t)
  <2>1. pc[t] = "checkup" /\ web = Off
        /\ ota = [run |-> FALSE, inited |-> TRUE, extra |-> TRUE]
    BY <1>1, <1>15 DEF CheckUp, Stage, Radio
  <2>2. CASE ota' = [ota EXCEPT !.run = TRUE] /\ web' = web /\ Step(t, "joinnet")
    <3>1. ota' = Updating
      BY <2>1, <2>2 DEF Updating
    <3> QED BY <1>7, <2>1, <2>2, <3>1 DEF Radio
  <2> QED BY <1>13, <1>15, <2>1, <2>2 DEF CheckUp, Shows
<1>16. CASE CheckJoin(t) \/ Fetch(t) \/ Confirm(t) \/ Install(t) \/ Download(t)
  <2>1. /\ pc[t] \in {"joinnet", "fetch", "offer", "install", "download"}
        /\ web = Off /\ ota = Updating
    BY <1>1, <1>16 DEF CheckJoin, Fetch, Confirm, Install, Download, Stage, Radio
  <2>2. ASSUME UNCHANGED radioVars, NEW l \in {"fetch", "offer", "install", "download", "result",
                                               "reboot"},
               Step(t, l)
        PROVE  StageInv'
    BY <1>7, <2>1, <2>2 DEF Radio, radioVars
  <2>3. CASE CheckJoin(t) \/ Fetch(t)
    BY <1>13, <2>1, <2>2, <2>3 DEF CheckJoin, Fetch, Shows
  <2>4. CASE Confirm(t) \/ Install(t)
    BY <2>2, <2>4 DEF Confirm, Is, Install, Shows
  <2>5. CASE Download(t)
    BY <1>13, <2>1, <2>2, <2>5 DEF Download, Shows
  <2> QED BY <1>16, <2>3, <2>4, <2>5
<1>17. CASE Decline(t) \/ Result(t)
  <2>1. OtaStop /\ Return(t) /\ pc[t] \in {"offer", "result"}
    BY <1>17 DEF Decline, Result
  <2>2. web = Off /\ (ota = Updating \/ (ota = Off /\ drv = NoRadio)) /\ Updating # Off /\ ~Off.run
    BY <1>1, <2>1 DEF Stage, Radio, Updating, Off
  <2>3. web' = Off /\ ota' = Off /\ drv' = NoRadio
    BY <1>12, <2>1, <2>2 DEF OtaStop, radioVars
  <2> QED BY <1>8, <2>1, <2>2, <2>3 DEF Calm
<1>18. CASE Reboot(t)
  BY <1>1, <1>3, <1>18 DEF Reboot, Stage, Radio, InMode, radioVars
<1> QED BY <1>9, <1>10, <1>11, <1>14, <1>15, <1>16, <1>17, <1>18 DEF ModeStep

\* Between two modes Wi-Fi is up as the readout server needs it, or not at all.
THEOREM RadioReleasedHolds ==
  ASSUME OneAtATime
  PROVE  Spec => []RadioReleased
<1>1. Init => StageInv
  BY DEF Init, Booted, StageInv, Calmed, Staged, Calm, Stage, Radio, Tasks, Off
<1>2. RadioInv /\ StageInv /\ [Next]_vars => StageInv'
  <2> SUFFICES ASSUME RadioInv, StageInv, [Next]_vars PROVE StageInv'
    OBVIOUS
  <2>1. CASE UNCHANGED <<pc, mode, radioVars>>
    BY <2>1 DEF radioVars, StageInv, Calmed, Staged, Calm, Stage, Radio, InMode
  <2> QED
    BY <2>1, ButtonStage, ConsoleStage, ModeStage DEF Next, Press, Ended, CapTask, vars
<1>3. StageInv => RadioReleased
  BY DEF StageInv, Calmed, Calm, RadioReleased
<1> QED BY <1>1, <1>2, <1>3, Invariant, PTL DEF Spec
=============================================================================
