------------------------------- MODULE Capture -------------------------------
(***************************************************************************)
(* main/capture.c: the capture task, its command queue and its callers.    *)
(*                                                                         *)
(* The buttons, the console and the NimBLE host task post messages; one    *)
(* task works through them and does the periodic work in between.  Its     *)
(* handlers block for long (a rescan, a connect, the join of the writer),  *)
(* so a handler is several steps here, between which callers post, look at *)
(* the published state and set s_abort, and the host task runs callbacks.  *)
(*                                                                         *)
(* Of a connection this module knows whether the task holds a handle to    *)
(* it; CapLink has the GATT operations, CaptureStore the file, BmsPoll the *)
(* requests.  Timers are a nondeterministic choice.                        *)
(***************************************************************************)
EXTENDS Integers, SequencesExt

CONSTANTS
  NLinks,     \* CAP_LINK_COUNT
  Callers,    \* tasks that call the cap_*() functions
  QLen,       \* CAP_QUEUE_LEN
  MaxCalls,   \* bound: calls of cap_*() functions
  MaxFaults   \* bound: disconnects, host resets and failing operations

ASSUME CaptureAssumption ==
  NLinks \in Nat \ {0} /\ QLen \in Nat \ {0} /\ MaxCalls \in Nat /\ MaxFaults \in Nat

Links == 1 .. NLinks

VARIABLES
  state,     \* s_pub.state
  lk,        \* s_link[] and s_pub.link[]
  queue,     \* s_queue
  abort,     \* s_abort
  recOn,     \* s_rec_on
  bleDown,   \* s_ble_down
  downSem,   \* tokens in s_down_sem
  scanning,  \* s_scanning
  store,     \* whether a capture file is open
  tpc,       \* where the capture task is
  cur,       \* i of the loop it is in
  up,        \* `up` of do_record_start()
  ret,       \* where link_bring_up() or do_record_stop() returns to
  scanRet,   \* where the task goes on when scan_begin() has succeeded
  radio,     \* the host: whether a discovery runs, whether the report that one
             \* ended is on its way, and whether NimBLE is still up
  cpc,       \* what each caller is doing
  calls, faults   \* bounds

taskVars == <<tpc, cur, up, ret, scanRet>>
bounds   == <<calls, faults>>
vars     == <<state, lk, queue, abort, recOn, bleDown, downSem, scanning, store,
              taskVars, radio, cpc, bounds>>

-----------------------------------------------------------------------------
(***************************************************************************)
(* Messages and helpers.                                                   *)
(***************************************************************************)
Commands == {"scan_start", "scan_stop", "rec_start", "rec_stop", "shutdown"}
Messages == Commands \cup {"disconnect", "disc_complete"}

\* post_msg(): never blocks, a message that does not fit is dropped.
Post(q, m) == IF Len(q) < QLen THEN Append(q, m) ELSE q

Fault == faults < MaxFaults /\ faults' = faults + 1

\* link_drop() of the links in S.
Drop(l, S) == [i \in Links |-> IF i \in S THEN [l[i] EXCEPT !.conn = FALSE, !.sub = FALSE]
                                          ELSE l[i]]

Unwanted(l) == [i \in Links |-> [l[i] EXCEPT !.want = FALSE]]

\* scan_end(), and the cancel in scan_begin(): only what s_scanning knows of.
Cancelled(r) == IF scanning THEN [r EXCEPT !.scan = FALSE] ELSE r

\* scan_begin(), up to the return of ble_gap_disc().  On success the task has yet
\* to set s_scanning (ScanFlag) and goes on at `to`; BLE_HS_EALREADY and a host
\* that has lost its address are failures, after which it goes on at `failed`.
ScanBegin(to, failed) ==
  LET r == Cancelled(radio) IN
  /\ scanning' = FALSE
  /\ \/ /\ ~r.scan
        /\ radio' = [r EXCEPT !.scan = TRUE]
        /\ tpc' = "scanflag" /\ scanRet' = to
        /\ UNCHANGED faults
     \/ /\ r.scan
        /\ radio' = r
        /\ tpc' = failed /\ UNCHANGED <<scanRet, faults>>
     \/ /\ Fault
        /\ radio' = r
        /\ tpc' = failed /\ UNCHANGED scanRet

ScanEnd == scanning' = FALSE /\ radio' = Cancelled(radio)

AtRest == tpc \in {"wait", "tick"}

Init ==
  /\ state = "idle"
  /\ lk = [i \in Links |-> [conn |-> FALSE, sub |-> FALSE, want |-> FALSE,
                            seen |-> FALSE, addr |-> FALSE, rx |-> FALSE]]
  /\ queue = <<>> /\ abort = FALSE /\ recOn = FALSE /\ bleDown = FALSE /\ downSem = 0
  /\ scanning = FALSE /\ store = "closed"
  /\ tpc = "wait" /\ cur = 1 /\ up = 0 /\ ret = "tick" /\ scanRet = "tick"
  /\ radio = [scan |-> FALSE, ended |-> FALSE, host |-> "up"]
  /\ cpc = [c \in Callers |-> "ready"]
  /\ calls = 0 /\ faults = 0

-----------------------------------------------------------------------------
(***************************************************************************)
(* cap_task() and handle_msg().                                            *)
(***************************************************************************)
Received(m) ==
  /\ tpc = "wait" /\ queue # <<>> /\ Head(queue) = m
  /\ queue' = Tail(queue)

\* "the radio is gone; only a reboot brings it back"
RecvAfterDown ==
  /\ bleDown
  /\ \E m \in Messages \ {"shutdown"} : Received(m)
  /\ UNCHANGED <<state, lk, abort, recOn, bleDown, downSem, scanning, store, taskVars,
                 radio, cpc, bounds>>

RecvScanStart ==
  /\ ~bleDown /\ Received("scan_start")
  /\ IF state \in {"connecting", "recording", "stopping"}
     THEN tpc' = "tick" /\ UNCHANGED <<state, lk, scanning, scanRet, radio, faults>>
     ELSE /\ lk' = [i \in Links |-> [lk[i] EXCEPT !.seen = FALSE]]
          /\ state' = "scanning"
          /\ ScanBegin("tick", "scanfail")
  /\ UNCHANGED <<abort, recOn, bleDown, downSem, store, cur, up, ret, cpc, calls>>

\* A scan that ended by itself is put back "if the state still wants one".
RecvDiscComplete ==
  /\ ~bleDown /\ Received("disc_complete")
  /\ IF state \in {"scanning", "armed"}
     THEN ScanBegin("tick", "scanfail")
     ELSE tpc' = "tick" /\ UNCHANGED <<scanning, scanRet, radio, faults>>
  /\ UNCHANGED <<state, lk, abort, recOn, bleDown, downSem, store, cur, up, ret, cpc, calls>>

ScanFail ==
  /\ tpc = "scanfail"
  /\ state' = "idle" /\ tpc' = "tick"
  /\ UNCHANGED <<lk, queue, abort, recOn, bleDown, downSem, scanning, store, cur, up, ret,
                 scanRet, radio, cpc, bounds>>

ScanFlag ==
  /\ tpc = "scanflag"
  /\ scanning' = TRUE /\ tpc' = scanRet
  /\ UNCHANGED <<state, lk, queue, abort, recOn, bleDown, downSem, store, cur, up, ret,
                 scanRet, radio, cpc, bounds>>

RecvScanStop ==
  /\ ~bleDown /\ Received("scan_stop")
  /\ tpc' = "tick"
  /\ IF state \in {"scanning", "armed"}
     THEN ScanEnd /\ state' = "idle"
     ELSE UNCHANGED <<state, scanning, radio>>
  /\ UNCHANGED <<lk, abort, recOn, bleDown, downSem, store, cur, up, ret, scanRet, cpc, bounds>>

\* do_record_start(), up to the first link_bring_up().
RecvRecStart ==
  /\ ~bleDown /\ Received("rec_start")
  /\ abort' = FALSE
  /\ IF state = "armed"
     THEN /\ state' = "connecting"
          /\ ScanEnd
          /\ cur' = 1 /\ up' = 0 /\ ret' = "start" /\ tpc' = "startlink"
     ELSE tpc' = "tick" /\ UNCHANGED <<state, scanning, radio, cur, up, ret>>
  /\ UNCHANGED <<lk, recOn, bleDown, downSem, store, scanRet, cpc, bounds>>

\* Mutation of RecvRecStop: a stop whose s_abort is gone is taken for handled.
RecvRecStopIfAbort ==
  /\ ~bleDown /\ Received("rec_stop")
  /\ abort' = FALSE
  /\ IF abort THEN tpc' = "stop" /\ ret' = "tick" ELSE tpc' = "tick" /\ UNCHANGED ret
  /\ UNCHANGED <<state, lk, recOn, bleDown, downSem, scanning, store, cur, up, scanRet,
                 radio, cpc, bounds>>

RecvRecStop ==
  /\ ~bleDown /\ Received("rec_stop")
  /\ abort' = FALSE
  /\ tpc' = "stop" /\ ret' = "tick"
  /\ UNCHANGED <<state, lk, recOn, bleDown, downSem, scanning, store, cur, up, scanRet,
                 radio, cpc, bounds>>

\* Only retry_at_ms, a time, changes.
RecvDisconnect ==
  /\ ~bleDown /\ Received("disconnect")
  /\ tpc' = "tick"
  /\ UNCHANGED <<state, lk, abort, recOn, bleDown, downSem, scanning, store, cur, up, ret,
                 scanRet, radio, cpc, bounds>>

\* Mutation of RecvShutdown: a shutdown whose s_abort is gone is taken for handled.
RecvShutdownIfAbort ==
  /\ Received("shutdown")
  /\ abort' = FALSE
  /\ IF bleDown THEN downSem' = 1 /\ tpc' = "tick" /\ UNCHANGED ret
     ELSE IF abort THEN tpc' = "stop" /\ ret' = "shutdown" /\ UNCHANGED downSem
     ELSE tpc' = "tick" /\ UNCHANGED <<ret, downSem>>
  /\ UNCHANGED <<state, lk, recOn, bleDown, scanning, store, cur, up, scanRet, radio, cpc,
                 bounds>>

RecvShutdown ==
  /\ Received("shutdown")
  /\ abort' = FALSE
  /\ IF bleDown THEN downSem' = 1 /\ tpc' = "tick" /\ UNCHANGED ret
                ELSE tpc' = "stop" /\ ret' = "shutdown" /\ UNCHANGED downSem
  /\ UNCHANGED <<state, lk, recOn, bleDown, scanning, store, cur, up, scanRet, radio, cpc,
                 bounds>>

QueueTimeout ==
  /\ tpc = "wait" /\ queue = <<>>
  /\ tpc' = "tick"
  /\ UNCHANGED <<state, lk, queue, abort, recOn, bleDown, downSem, scanning, store, cur, up,
                 ret, scanRet, radio, cpc, bounds>>

\* The periodic work: tick_scanning(), or tick_recording() up to its link loops.
\* The stale link watchdog drops the links in S.
Tick ==
  /\ tpc = "tick"
  /\ \/ /\ ~bleDown /\ state = "recording"
        /\ \E S \in SUBSET {i \in Links : lk[i].rx /\ lk[i].sub /\ lk[i].conn} :
             /\ lk' = Drop(lk, S)
             /\ IF S = {} THEN UNCHANGED faults ELSE Fault
        /\ cur' = 1 /\ tpc' = "reconnect"
        /\ UNCHANGED state
     \/ /\ ~bleDown /\ state = "scanning" /\ \A i \in Links : lk[i].seen
        /\ state' = "armed"
        /\ tpc' = "wait" /\ UNCHANGED <<lk, cur, faults>>
     \/ /\ bleDown \/ state # "recording"
        /\ ~(~bleDown /\ state = "scanning" /\ \A i \in Links : lk[i].seen)
        /\ tpc' = "wait" /\ UNCHANGED <<state, lk, cur, faults>>
  /\ UNCHANGED <<queue, abort, recOn, bleDown, downSem, scanning, store, up, ret, scanRet,
                 radio, cpc, calls>>

-----------------------------------------------------------------------------
(***************************************************************************)
(* tick_recording(): reconnects, then the checks that may stop the capture.*)
(***************************************************************************)
NeedsLink(i) == lk[i].want /\ ~lk[i].conn

\* Mutation of ReconnectTry: only a link whose address is known is tried.
ReconnectTryKnown ==
  /\ tpc = "reconnect" /\ cur <= NLinks /\ ~abort /\ NeedsLink(cur) /\ lk[cur].addr
  /\ ret' = "tick" /\ tpc' = "bringup"
  /\ UNCHANGED <<state, lk, queue, abort, recOn, bleDown, downSem, scanning, store, cur, up,
                 scanRet, radio, cpc, bounds>>

\* A link whose retry_at_ms has come.
ReconnectTry ==
  /\ tpc = "reconnect" /\ cur <= NLinks /\ ~abort /\ NeedsLink(cur)
  /\ ret' = "tick" /\ tpc' = "bringup"
  /\ UNCHANGED <<state, lk, queue, abort, recOn, bleDown, downSem, scanning, store, cur, up,
                 scanRet, radio, cpc, bounds>>

\* A link that is up or unwanted, or whose retry_at_ms has yet to come.
ReconnectSkip ==
  /\ tpc = "reconnect" /\ cur <= NLinks /\ ~abort
  /\ cur' = cur + 1
  /\ UNCHANGED <<state, lk, queue, abort, recOn, bleDown, downSem, scanning, store, tpc, up,
                 ret, scanRet, radio, cpc, bounds>>

ReconnectEnd ==
  /\ tpc = "reconnect" /\ (cur > NLinks \/ abort)
  /\ cur' = 1 /\ tpc' = "checks"
  /\ UNCHANGED <<state, lk, queue, abort, recOn, bleDown, downSem, scanning, store, up, ret,
                 scanRet, radio, cpc, bounds>>

\* Low battery or a full partition stops the capture.
Checks ==
  /\ tpc = "checks"
  /\ \/ tpc' = "wait" /\ UNCHANGED <<ret, faults>>
     \/ tpc' = "stop" /\ ret' = "wait" /\ Fault
  /\ UNCHANGED <<state, lk, queue, abort, recOn, bleDown, downSem, scanning, store, cur, up,
                 scanRet, radio, cpc, calls>>

-----------------------------------------------------------------------------
(***************************************************************************)
(* link_bring_up(): scan_for(), link_connect(), link_setup().              *)
(***************************************************************************)

\* The next link of do_record_start().
StartLink ==
  /\ tpc = "startlink"
  /\ lk' = [lk EXCEPT ![cur].rx = FALSE]
  /\ tpc' = "bringup"
  /\ UNCHANGED <<state, queue, abort, recOn, bleDown, downSem, scanning, store, cur, up, ret,
                 scanRet, radio, cpc, bounds>>

\* A rescan is asked for by a reconnect (rescan_first, or backoff_idx >= 2), and
\* needed without an address.
BringUp ==
  /\ tpc = "bringup"
  /\ \/ /\ ret = "tick" \/ ~lk[cur].addr
        /\ lk' = [lk EXCEPT ![cur].addr = FALSE, ![cur].seen = FALSE]
        /\ ScanBegin("scanwait", "bringfail")
     \/ /\ lk[cur].addr
        /\ tpc' = "checkabort"
        /\ UNCHANGED <<lk, scanning, scanRet, radio, faults>>
  /\ UNCHANGED <<state, queue, abort, recOn, bleDown, downSem, store, cur, up, ret, cpc, calls>>

ScanWait ==
  /\ tpc = "scanwait"
  /\ ScanEnd
  /\ \/ lk[cur].addr /\ tpc' = "checkabort"
     \/ tpc' = "bringfail"        \* s_abort, or CAP_RESCAN_MS before the report
  /\ UNCHANGED <<state, lk, queue, abort, recOn, bleDown, downSem, store, cur, up, ret,
                 scanRet, cpc, bounds>>

CheckAbort ==
  /\ tpc = "checkabort"
  /\ tpc' = IF abort THEN "bringfail" ELSE "connect"
  /\ UNCHANGED <<state, lk, queue, abort, recOn, bleDown, downSem, scanning, store, cur, up,
                 ret, scanRet, radio, cpc, bounds>>

Connect ==
  /\ tpc = "connect"
  /\ ScanEnd
  /\ \/ /\ lk' = [lk EXCEPT ![cur].conn = TRUE, ![cur].sub = FALSE]
        /\ tpc' = "setup" /\ UNCHANGED faults
     \/ tpc' = "bringfail" /\ Fault /\ UNCHANGED lk
  /\ UNCHANGED <<state, queue, abort, recOn, bleDown, downSem, store, cur, up, ret, scanRet,
                 cpc, calls>>

\* Every GATT operation up to the CCCD write; one of them fails on a link that is lost.
Setup ==
  /\ tpc = "setup"
  /\ \/ lk[cur].conn /\ tpc' = "commit" /\ UNCHANGED <<lk, faults>>
     \/ /\ IF lk[cur].conn THEN Fault ELSE UNCHANGED faults
        /\ lk' = Drop(lk, {cur})
        /\ tpc' = "bringfail"
  /\ UNCHANGED <<state, queue, abort, recOn, bleDown, downSem, scanning, store, cur, up, ret,
                 scanRet, radio, cpc, calls>>

\* The link may have been lost since the write was acknowledged.
Commit ==
  /\ tpc = "commit"
  /\ lk' = [lk EXCEPT ![cur].sub = TRUE]
  /\ tpc' = "brought"
  /\ UNCHANGED <<state, queue, abort, recOn, bleDown, downSem, scanning, store, cur, up, ret,
                 scanRet, radio, cpc, bounds>>

\* link_bring_up() has returned: do_record_start() wants the link either way.
BringUpDone ==
  /\ tpc \in {"brought", "bringfail"}
  /\ IF ret = "tick"
     THEN cur' = cur + 1 /\ tpc' = "reconnect" /\ UNCHANGED <<lk, up>>
     ELSE /\ lk' = [lk EXCEPT ![cur].want = TRUE]
          /\ up' = IF tpc = "brought" THEN up + 1 ELSE up
          /\ IF cur < NLinks THEN cur' = cur + 1 /\ tpc' = "startlink"
                             ELSE cur' = 1 /\ tpc' = "started"
  /\ UNCHANGED <<state, queue, abort, recOn, bleDown, downSem, scanning, store, ret, scanRet,
                 radio, cpc, bounds>>

-----------------------------------------------------------------------------
(***************************************************************************)
(* The end of do_record_start().                                           *)
(***************************************************************************)
\* Mutation of NoLinkUp: the links stay wanted.
NoLinkUpWanted ==
  /\ tpc = "started" /\ up = 0
  /\ lk' = Drop(lk, Links)
  /\ state' = "scanning"
  /\ ScanBegin("tick", "scanfail")
  /\ UNCHANGED <<queue, abort, recOn, bleDown, downSem, store, cur, up, ret, cpc, calls>>

NoLinkUp ==
  /\ tpc = "started" /\ up = 0
  /\ lk' = Drop(Unwanted(lk), Links)
  /\ state' = "scanning"
  /\ ScanBegin("tick", "scanfail")
  /\ UNCHANGED <<queue, abort, recOn, bleDown, downSem, store, cur, up, ret, cpc, calls>>

\* store_begin()
OpenFile ==
  /\ tpc = "started" /\ up > 0
  /\ \/ store' = "open" /\ tpc' = "recon" /\ UNCHANGED <<state, lk, faults>>
     \/ /\ Fault
        /\ lk' = Drop(Unwanted(lk), Links)
        /\ state' = "error" /\ tpc' = "tick"
        /\ UNCHANGED store
  /\ UNCHANGED <<queue, abort, recOn, bleDown, downSem, scanning, cur, up, ret, scanRet,
                 radio, cpc, calls>>

RecordOn ==
  /\ tpc = "recon"
  /\ recOn' = TRUE /\ tpc' = "recording"
  /\ UNCHANGED <<state, lk, queue, abort, bleDown, downSem, scanning, store, cur, up, ret,
                 scanRet, radio, cpc, bounds>>

Recording ==
  /\ tpc = "recording"
  /\ state' = "recording" /\ tpc' = "tick"
  /\ UNCHANGED <<lk, queue, abort, recOn, bleDown, downSem, scanning, store, cur, up, ret,
                 scanRet, radio, cpc, bounds>>

-----------------------------------------------------------------------------
(***************************************************************************)
(* do_record_stop() and do_ble_shutdown().                                 *)
(***************************************************************************)
Stop ==
  /\ tpc = "stop"
  /\ IF state \in {"recording", "connecting"}
     THEN /\ lk' = Unwanted(lk)
          /\ state' = "stopping"
          /\ tpc' = IF recOn THEN "quiesce" ELSE "drop"
     ELSE lk' = Drop(Unwanted(lk), Links) /\ tpc' = ret /\ UNCHANGED state
  /\ UNCHANGED <<queue, abort, recOn, bleDown, downSem, scanning, store, cur, up, ret,
                 scanRet, radio, cpc, bounds>>

\* Mutation of Quiesce: s_rec_on is cleared after the file was closed, or never.
QuiesceLate ==
  /\ tpc = "quiesce"
  /\ tpc' = "close"
  /\ UNCHANGED <<state, lk, queue, abort, recOn, bleDown, downSem, scanning, store, cur, up, ret,
                 scanRet, radio, cpc, bounds>>

\* s_rec_on is cleared, the IMU task is joined and 20 ms pass.
Quiesce ==
  /\ tpc = "quiesce"
  /\ recOn' = FALSE /\ tpc' = "close"
  /\ UNCHANGED <<state, lk, queue, abort, bleDown, downSem, scanning, store, cur, up, ret,
                 scanRet, radio, cpc, bounds>>

\* store_end()
CloseFile ==
  /\ tpc = "close"
  /\ store' = "closed" /\ tpc' = "drop"
  /\ UNCHANGED <<state, lk, queue, abort, recOn, bleDown, downSem, scanning, cur, up, ret,
                 scanRet, radio, cpc, bounds>>

DropAll ==
  /\ tpc = "drop"
  /\ lk' = Drop(lk, Links)
  /\ ScanEnd
  /\ tpc' = "done"
  /\ UNCHANGED <<state, queue, abort, recOn, bleDown, downSem, store, cur, up, ret, scanRet,
                 cpc, bounds>>

Done ==
  /\ tpc = "done"
  /\ state' = "done" /\ tpc' = ret
  /\ UNCHANGED <<lk, queue, abort, recOn, bleDown, downSem, scanning, store, cur, up, ret,
                 scanRet, radio, cpc, bounds>>

\* Mutation of Spend: the caller is answered before the host has stopped.
SpendGivesFirst ==
  /\ tpc = "shutdown"
  /\ lk' = Drop(Unwanted(lk), Links)
  /\ ScanEnd
  /\ bleDown' = TRUE /\ state' = "idle"
  /\ tpc' = "give"
  /\ UNCHANGED <<queue, abort, recOn, downSem, store, cur, up, ret, scanRet, cpc, bounds>>

Spend ==
  /\ tpc = "shutdown"
  /\ lk' = Drop(Unwanted(lk), Links)
  /\ ScanEnd
  /\ bleDown' = TRUE /\ state' = "idle"
  /\ tpc' = "hoststop"
  /\ UNCHANGED <<queue, abort, recOn, downSem, store, cur, up, ret, scanRet, cpc, bounds>>

\* nimble_port_stop() and nimble_port_deinit()
HostStop ==
  /\ tpc = "hoststop"
  /\ radio' = [scan |-> FALSE, ended |-> FALSE, host |-> "down"]
  /\ tpc' = "give"
  /\ UNCHANGED <<state, lk, queue, abort, recOn, bleDown, downSem, scanning, store, cur, up,
                 ret, scanRet, cpc, bounds>>

Give ==
  /\ tpc = "give"
  /\ downSem' = 1 /\ tpc' = "tick"
  /\ UNCHANGED <<state, lk, queue, abort, recOn, bleDown, scanning, store, cur, up, ret,
                 scanRet, radio, cpc, bounds>>

-----------------------------------------------------------------------------
(***************************************************************************)
(* Callbacks on the NimBLE host task, and what drives them.                *)
(***************************************************************************)
callbackOnly == <<state, abort, recOn, bleDown, downSem, store, taskVars, cpc, calls>>

\* scan_report()
Report(i) ==
  /\ radio.scan
  /\ lk' = [lk EXCEPT ![i].addr = TRUE, ![i].seen = TRUE]
  /\ UNCHANGED <<queue, scanning, radio, faults, callbackOnly>>

\* notify_sink(): what the watchdog is armed by.
Notify(i) ==
  /\ radio.host = "up" /\ lk[i].conn
  /\ lk' = [lk EXCEPT ![i].rx = TRUE]
  /\ UNCHANGED <<queue, scanning, radio, faults, callbackOnly>>

\* A lost link, or the end of one the task terminated, however late.
OnDisconnect(i) ==
  /\ radio.host = "up" /\ Fault
  /\ lk' = Drop(lk, {i})
  /\ queue' = Post(queue, "disconnect")
  /\ UNCHANGED <<scanning, radio, callbackOnly>>

\* A host reset ends the discovery; on_disc_event() reports it a moment later.
DiscEnds ==
  /\ radio.scan /\ ~radio.ended /\ Fault
  /\ radio' = [radio EXCEPT !.scan = FALSE, !.ended = TRUE]
  /\ UNCHANGED <<lk, queue, scanning, callbackOnly>>

OnDiscComplete ==
  /\ radio.ended
  /\ radio' = [radio EXCEPT !.ended = FALSE]
  /\ scanning' = FALSE
  /\ queue' = Post(queue, "disc_complete")
  /\ UNCHANGED <<lk, faults, callbackOnly>>

-----------------------------------------------------------------------------
(***************************************************************************)
(* The public functions, on the button task and the console task.          *)
(***************************************************************************)
callOnly == <<state, lk, recOn, bleDown, scanning, store, taskVars, radio, faults>>

Called(c) == cpc[c] = "ready" /\ calls < MaxCalls /\ calls' = calls + 1

CapScanStart(c) ==
  /\ Called(c) /\ ~bleDown
  /\ ~(~scanning /\ radio.scan)            \* "ble_explorer is scanning"
  /\ queue' = Post(queue, "scan_start")
  /\ UNCHANGED <<abort, downSem, cpc, callOnly>>

CapScanStop(c) ==
  /\ Called(c)
  /\ queue' = Post(queue, "scan_stop")
  /\ UNCHANGED <<abort, downSem, cpc, callOnly>>

CapRecordStart(c) ==
  /\ Called(c) /\ ~bleDown /\ state = "armed"
  /\ queue' = Post(queue, "rec_start")
  /\ UNCHANGED <<abort, downSem, cpc, callOnly>>

\* cap_record_stop(), by itself or before board_power_off() (a long PWR press).
CapRecordStop(c) ==
  /\ Called(c)
  /\ abort' = TRUE
  /\ \E then \in {"stop", "poweroff"} : cpc' = [cpc EXCEPT ![c] = then]
  /\ UNCHANGED <<queue, downSem, callOnly>>

PostStop(c) ==
  /\ cpc[c] \in {"stop", "poweroff"}
  /\ queue' = Post(queue, "rec_stop")
  /\ cpc' = [cpc EXCEPT ![c] = IF @ = "stop" THEN "ready" ELSE "off"]
  /\ UNCHANGED <<abort, downSem, calls, callOnly>>

\* cap_ble_shutdown(), as app_readout_enter() and app_update_run() call it: not
\* while a capture runs.
CapBleShutdown(c) ==
  /\ Called(c) /\ state \notin {"connecting", "recording"}
  /\ IF bleDown
     THEN cpc' = [cpc EXCEPT ![c] = "spent"] /\ UNCHANGED abort
     ELSE abort' = TRUE /\ cpc' = [cpc EXCEPT ![c] = "shutdown"]
  /\ UNCHANGED <<queue, downSem, callOnly>>

PostShutdown(c) ==
  /\ cpc[c] = "shutdown"
  /\ queue' = Post(queue, "shutdown")
  /\ cpc' = [cpc EXCEPT ![c] = "joining"]
  /\ UNCHANGED <<abort, downSem, calls, callOnly>>

\* The take of s_down_sem; after 30 s it gives up and the caller may try again.
JoinShutdown(c) ==
  /\ cpc[c] = "joining"
  /\ \/ downSem = 1 /\ downSem' = 0 /\ cpc' = [cpc EXCEPT ![c] = "spent"]
     \/ cpc' = [cpc EXCEPT ![c] = "ready"] /\ UNCHANGED downSem
  /\ UNCHANGED <<queue, abort, calls, callOnly>>

-----------------------------------------------------------------------------
TaskStep ==
  \/ RecvAfterDown \/ RecvScanStart \/ RecvDiscComplete \/ ScanFail \/ ScanFlag
  \/ RecvScanStop \/ RecvRecStart \/ RecvRecStop \/ RecvDisconnect \/ RecvShutdown
  \/ QueueTimeout \/ Tick
  \/ ReconnectTry \/ ReconnectSkip \/ ReconnectEnd \/ Checks
  \/ StartLink \/ BringUp \/ ScanWait \/ CheckAbort \/ Connect \/ Setup \/ Commit
  \/ BringUpDone \/ NoLinkUp \/ OpenFile \/ RecordOn \/ Recording
  \/ Stop \/ Quiesce \/ CloseFile \/ DropAll \/ Done \/ Spend \/ HostStop \/ Give

HostStep ==
  \/ \E i \in Links : Report(i) \/ Notify(i) \/ OnDisconnect(i)
  \/ DiscEnds \/ OnDiscComplete

CallerStep(c) ==
  \/ CapScanStart(c) \/ CapScanStop(c) \/ CapRecordStart(c) \/ CapRecordStop(c)
  \/ PostStop(c) \/ CapBleShutdown(c) \/ PostShutdown(c) \/ JoinShutdown(c)

Next == TaskStep \/ HostStep \/ \E c \in Callers : CallerStep(c)

Spec == Init /\ [][Next]_vars

\* The capture task is never starved and its waits end.  A retry that is due is
\* taken: the retry_at_ms of each link comes at most 5 s after a failed attempt.
Fairness == WF_vars(TaskStep) /\ \A i \in Links : SF_vars(cur = i /\ ReconnectTry)

FairSpec == Spec /\ Fairness

-----------------------------------------------------------------------------
(***************************************************************************)
(* Properties.                                                             *)
(***************************************************************************)
States == {"idle", "scanning", "armed", "connecting", "recording", "stopping", "done", "error"}

TaskPcs == {"wait", "tick", "scanflag", "scanfail", "reconnect", "checks", "startlink",
            "bringup", "scanwait", "checkabort", "connect", "setup", "commit", "brought",
            "bringfail", "started", "recon", "recording", "stop", "quiesce", "close", "drop",
            "done", "shutdown", "hoststop", "give"}

CallerPcs == {"ready", "stop", "poweroff", "off", "shutdown", "joining", "spent"}

\* Every variable holds a value of its kind, and the queue its length.
TypeOK ==
  /\ state \in States
  /\ lk \in [Links -> [conn : BOOLEAN, sub : BOOLEAN, want : BOOLEAN,
                       seen : BOOLEAN, addr : BOOLEAN, rx : BOOLEAN]]
  /\ queue \in Seq(Messages) /\ Len(queue) <= QLen
  /\ abort \in BOOLEAN /\ recOn \in BOOLEAN /\ bleDown \in BOOLEAN
  /\ downSem \in {0, 1} /\ scanning \in BOOLEAN /\ store \in {"open", "closed"}
  /\ tpc \in TaskPcs /\ cur \in 1 .. NLinks + 1 /\ up \in 0 .. NLinks
  /\ ret \in {"tick", "wait", "start", "shutdown"} /\ scanRet \in {"tick", "scanwait"}
  /\ radio \in [scan : BOOLEAN, ended : BOOLEAN, host : {"up", "down"}]
  /\ cpc \in [Callers -> CallerPcs] /\ calls \in Nat /\ faults \in Nat

\* Notifications go to the store only while it has a file open, and a file is
\* open only in a state that will close it: no way through the handlers leaves
\* one open behind.
RecordsIntoFile ==
  /\ recOn => store = "open"
  /\ store = "open" => state \in {"connecting", "recording", "stopping"}

\* Whenever the task is back at its queue, the state it published tells the
\* truth: a capture records if and only if the state says so, the two states
\* that are passed through are over, and without a capture no link is held.
StateTruthful ==
  AtRest =>
    /\ (state = "recording") = recOn
    /\ state \notin {"connecting", "stopping"}
    /\ \A i \in Links : lk[i].conn \/ lk[i].want => state = "recording"

\* A stop that is in the queue ends the capture it finds, whatever else the task
\* is in the middle of.
StopHonoured ==
  (recOn /\ \E k \in DOMAIN queue : queue[k] = "rec_stop") ~> ~recOn

\* A shutdown that is in the queue takes the host down.
ShutdownHonoured ==
  (\E k \in DOMAIN queue : queue[k] = "shutdown") ~> (radio.host = "down")

\* While a capture records and no stop is under way, a link that is wanted and
\* down is tried again.
KeepsTrying ==
  \A i \in Links :
    (state = "recording" /\ NeedsLink(i))
      ~> (state # "recording" \/ ~NeedsLink(i) \/ abort \/ (tpc = "bringup" /\ cur = i))

-----------------------------------------------------------------------------
(***************************************************************************)
(* The task as CaptureApi has it.                                          *)
(***************************************************************************)
Busy ==
  CASE tpc \in {"stop", "quiesce", "close", "drop", "done"} ->
         IF ret = "shutdown" THEN "stopspend" ELSE "stop"
    [] tpc \in {"shutdown", "hoststop"} -> "spend"
    [] tpc = "give"                     -> "give"
    [] OTHER                            -> IF state = "connecting" THEN "start" ELSE "no"

\* How far BLE has been shut down.
Ble == IF radio.host = "down" THEN "down" ELSE IF bleDown THEN "spent" ELSE "up"

\* The commands in the queue q, in order.
CommandsIn(q) ==
  LET upTo[i \in 0 .. Len(q)] ==
        IF i = 0 THEN <<>>
        ELSE IF q[i] \in Commands THEN Append(upTo[i - 1], q[i]) ELSE upTo[i - 1]
  IN  upTo[Len(q)]

Api == INSTANCE CaptureApi WITH
  capq <- CommandsIn(queue),
  ble  <- Ble,
  sem  <- downSem,
  busy <- Busy

\* Whatever links, scan reports, callbacks and failing operations do to the task,
\* the buttons and the console see the commands, the states and the shutdown of
\* CaptureApi: no state is skipped or shown out of turn, a shutdown is answered
\* only when the host is down, and nothing is obeyed while a handler is at work.
ImplementsApi == Api!CapSpec

=============================================================================
