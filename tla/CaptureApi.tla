----------------------------- MODULE CaptureApi -----------------------------
(***************************************************************************)
(* The capture task as its callers see it: the state that cap_state()      *)
(* publishes, the commands that wait in the queue, and how far BLE has been *)
(* shut down.  Capture implements this, Modes is built on it.              *)
(*                                                                         *)
(* No links, scan reports or callbacks: what they cause is a choice here.  *)
(***************************************************************************)
EXTENDS Integers, Sequences

CONSTANT QLen      \* CAP_QUEUE_LEN

VARIABLES
  state,   \* s_pub.state
  capq,    \* the commands in s_queue
  ble,     \* NimBLE: "up", "spent" once s_ble_down is set, "down" once the host has stopped
  sem,     \* tokens in s_down_sem
  busy     \* what the capture task is in the middle of

capVars == <<state, capq, ble, sem, busy>>

Commands == {"scan_start", "scan_stop", "rec_start", "rec_stop", "shutdown"}

\* What capture_busy() in main.c refuses a mode for.
Capturing == state \in {"recording", "connecting"}

CapInit == state = "idle" /\ capq = <<>> /\ ble = "up" /\ sem = 0 /\ busy = "no"

-----------------------------------------------------------------------------
(***************************************************************************)
(* The callers.                                                            *)
(***************************************************************************)
\* The queue may be full, with messages of the callbacks too: the command is lost.
Post(m) ==
  /\ \/ Len(capq) < QLen /\ capq' = Append(capq, m)
     \/ capq' = capq
  /\ UNCHANGED <<state, ble, sem, busy>>

TakeSem == sem = 1 /\ sem' = 0 /\ UNCHANGED <<state, capq, ble, busy>>

-----------------------------------------------------------------------------
(***************************************************************************)
(* The task.                                                               *)
(***************************************************************************)
Took(m) == busy = "no" /\ capq # <<>> /\ Head(capq) = m /\ capq' = Tail(capq)

\* A command that has nothing to do: BLE is spent, or the state is not its own.
Ignore ==
  /\ \E m \in Commands \ {"shutdown", "rec_stop"} :
       /\ Took(m)
       /\ \/ ble # "up"
          \/ m = "scan_start" /\ state \in {"connecting", "recording", "stopping"}
          \/ m = "scan_stop" /\ state \notin {"scanning", "armed"}
          \/ m = "rec_start" /\ state # "armed"
  /\ UNCHANGED <<state, ble, sem, busy>>

IgnoreStop == Took("rec_stop") /\ ble # "up" /\ UNCHANGED <<state, ble, sem, busy>>

StartScan ==
  /\ Took("scan_start") /\ ble = "up"
  /\ state \notin {"connecting", "recording", "stopping"}
  /\ state' = "scanning" /\ UNCHANGED <<ble, sem, busy>>

StopScan ==
  /\ Took("scan_stop") /\ ble = "up" /\ state \in {"scanning", "armed"}
  /\ state' = "idle" /\ UNCHANGED <<ble, sem, busy>>

\* Both devices were seen, or the discovery would not start.
ScanStep ==
  /\ busy = "no"
  /\ \/ state = "scanning" /\ state' = "armed"
     \/ state \in {"scanning", "armed"} /\ state' = "idle"
  /\ UNCHANGED <<capq, ble, sem, busy>>

StartRecord ==
  /\ Took("rec_start") /\ ble = "up" /\ state = "armed"
  /\ state' = "connecting" /\ busy' = "start" /\ UNCHANGED <<ble, sem>>

\* No link came up, no file could be opened, or the capture runs.
Started ==
  /\ busy = "start"
  /\ state' \in {"recording", "scanning", "error"} /\ busy' = "no"
  /\ UNCHANGED <<capq, ble, sem>>

TakeStop == Took("rec_stop") /\ ble = "up" /\ busy' = "stop" /\ UNCHANGED <<state, ble, sem>>

\* Low battery, or a full partition.
StopsItself ==
  /\ busy = "no" /\ state = "recording"
  /\ busy' = "stop" /\ UNCHANGED <<state, capq, ble, sem>>

TakeShutdown ==
  /\ Took("shutdown")
  /\ IF ble = "up" THEN busy' = "stopspend" /\ UNCHANGED sem
                   ELSE sem' = 1 /\ UNCHANGED busy
  /\ UNCHANGED <<state, ble>>

Stopped == busy' = IF busy = "stop" THEN "no" ELSE "spend"

Stopping ==
  /\ busy \in {"stop", "stopspend"}
  /\ CASE Capturing          -> state' = "stopping" /\ UNCHANGED busy
       [] state = "stopping" -> state' = "done" /\ Stopped
       [] OTHER              -> Stopped /\ UNCHANGED state
  /\ UNCHANGED <<capq, ble, sem>>

Spending ==
  /\ busy = "spend"
  /\ \/ ble = "up" /\ ble' = "spent" /\ state' = "idle" /\ UNCHANGED busy
     \/ ble = "spent" /\ ble' = "down" /\ busy' = "give" /\ UNCHANGED state
  /\ UNCHANGED <<capq, sem>>

Giving == busy = "give" /\ sem' = 1 /\ busy' = "no" /\ UNCHANGED <<state, capq, ble>>

CapStep ==
  \/ Ignore \/ IgnoreStop \/ StartScan \/ StopScan \/ ScanStep \/ StartRecord \/ Started
  \/ TakeStop \/ StopsItself \/ TakeShutdown \/ Stopping \/ Spending \/ Giving

CapNext == CapStep \/ TakeSem \/ \E m \in Commands : Post(m)

CapSpec == CapInit /\ [][CapNext]_capVars

\* Every variable holds a value of its kind.
CapTypeOK ==
  /\ state \in {"idle", "scanning", "armed", "connecting", "recording", "stopping", "done",
                "error"}
  /\ capq \in Seq(Commands) /\ ble \in {"up", "spent", "down"} /\ sem \in {0, 1}
  /\ busy \in {"no", "start", "stop", "stopspend", "spend", "give"}
=============================================================================
