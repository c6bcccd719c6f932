------------------------------- MODULE Explorer -------------------------------
(***************************************************************************)
(* main/ble_explorer.c, and the commands of main/cmd_ble.c that drive it.  *)
(*                                                                         *)
(* The console task starts one procedure of the NimBLE host after the      *)
(* other, and waits on s_op_sem for its callback, on the host task, to     *)
(* give it.  There is one semaphore for all procedures, a wait ends after  *)
(* 5 to 17 s, and the host may take 30: what was given up on completes     *)
(* later, into the tables, the buffer and the semaphore of whatever runs   *)
(* then.  The console is one task, so s_api_mtx is always free.            *)
(*                                                                         *)
(* The capture task uses the same host.  It sees the explorer through      *)
(* blex_connected() and ble_gap_disc_active() when a scan is asked for,    *)
(* and the explorer sees it not at all.                                    *)
(*                                                                         *)
(* blex_disconnect() asks for what may happen at any time and is not an    *)
(* action; nor is a reset of the host, which breaks its links first.       *)
(***************************************************************************)
EXTENDS Integers, Sequences, FiniteSets

CONSTANTS
  Peers,      \* devices
  Gatt,       \* the database of each: its characteristics, in the order of their
              \* handles, with the service they are in and their CCCD, or 0
  Ends,       \* the last handle of each service of each device
  Requests,   \* of "read", "write", "mtu", "sec": the commands typed
  None,       \* BLE_HS_CONN_HANDLE_NONE
  MaxProcs    \* bound: procedures started

Service == [svc : Nat, end : Nat]
Characteristic == [svc : Nat, def : Nat, val : Nat, cccd : Nat]

\* Handles grow from one characteristic to the next, and from service to service.
ASSUME ExplorerAssumption ==
  /\ None \notin Peers
  /\ \A p \in Peers :
       /\ Ends[p] \in Seq(Nat) /\ Gatt[p] \in Seq(Characteristic)
       /\ \A k \in DOMAIN Gatt[p] :
            LET x == Gatt[p][k] IN
              /\ x.svc \in DOMAIN Ends[p] /\ 0 < x.def /\ x.def < x.val
              /\ x.val <= Ends[p][x.svc] /\ x.cccd <= Ends[p][x.svc]
              /\ x.cccd # 0 => x.val < x.cccd
              /\ \A i \in DOMAIN Ends[p] : i < x.svc => Ends[p][i] < x.def
              /\ \A m \in DOMAIN Gatt[p] : m < k =>
                   /\ Gatt[p][m].svc <= x.svc
                   /\ Gatt[p][m].val < x.def /\ Gatt[p][m].cccd < x.def
  /\ Requests \subseteq {"read", "write", "mtu", "sec"}
  /\ MaxProcs \in Nat

VARIABLES
  disc,        \* the host: whose discovery runs
  attempt,     \* the host: the device it is connecting to, or None
  links,       \* the host: the devices it is connected to
  lost,        \* the host: the device whose BLE_GAP_EVENT_DISCONNECT is due, or None
  jobs,        \* the host: GATT procedures under way, each with its number
  sem, rc,     \* s_op_sem, s_op_rc
  connected, connHandle,                \* s_connected, s_conn_handle
  discovered, svcs, table,      \* s_discovered, s_svcs, s_chrs
  svcIdx, chrIdx,               \* s_disc_svc_idx, s_disc_chr_idx
  buf,                          \* the handle whose value s_read_buf holds, or 0
  pc, op, target, res,          \* the console task: where it is, and in what
  capScan, capMsg,              \* capture.c: s_scanning, and MSG_SCAN_START queued
  id,          \* history: the number of the procedure last started
  by,          \* history: the procedure that gave s_op_sem last
  clean,       \* history: nothing else was under way when it was started, and nothing
               \* but itself gives the semaphore
  ofPeer,      \* history: the device that was connected when discovery began
  torn,        \* history: the link went while that discovery ran
  sound,       \* history: clean, for every procedure of that discovery
  gaveUp       \* history: a connect timed out, and the host has not been without an
               \* attempt, a link and a disconnect to report since

hostVars == <<disc, attempt, links, lost, jobs>>
opVars == <<sem, rc>>
connVars == <<connected, connHandle>>
dbVars == <<discovered, svcs, table, svcIdx, chrIdx>>
consoleVars == <<pc, op, target, res>>
capVars == <<capScan, capMsg>>
history == <<id, by, clean, ofPeer, torn, sound, gaveUp>>
blexVars == <<hostVars, opVars, connVars, dbVars, buf, consoleVars, capVars, history>>

Discovery == {"svcs", "chrs", "dscs"}

BlexInit ==
  /\ disc = "none" /\ attempt = None /\ links = {} /\ lost = None /\ jobs = {}
  /\ sem = FALSE /\ rc = "ok"
  /\ connected = FALSE /\ connHandle = None
  /\ discovered = FALSE /\ svcs = <<>> /\ table = <<>> /\ svcIdx = 0 /\ chrIdx = 0
  /\ buf = 0
  /\ pc = "idle" /\ op = "none" /\ target = 0 /\ res = "ok"
  /\ capScan = FALSE /\ capMsg = FALSE
  /\ id = 0 /\ by = 0 /\ clean = TRUE /\ ofPeer = None /\ torn = FALSE /\ sound = FALSE
  /\ gaveUp = FALSE

\* No procedure of the explorer is under way.
Quiet == jobs = {} /\ attempt = None /\ disc # "explorer"

-----------------------------------------------------------------------------
(***************************************************************************)
(* The commands, as far as the procedure they start first.                 *)
(***************************************************************************)

\* blex_read(), blex_write(), blex_exchange_mtu(), blex_security()
Request(k) ==
  /\ pc = "idle" /\ connected /\ id < MaxProcs
  /\ op' = k /\ pc' = "start"
  /\ target' \in UNION {{Gatt[p][i].val : i \in DOMAIN Gatt[p]} : p \in Peers}
  /\ UNCHANGED <<hostVars, opVars, connVars, dbVars, buf, res, capVars, history>>

\* blex_discover(), as far as the services
BlexDiscover ==
  /\ pc = "idle" /\ connected /\ id < MaxProcs
  /\ svcs' = <<>> /\ table' = <<>> /\ discovered' = FALSE
  /\ op' = "svcs" /\ pc' = "start"
  /\ ofPeer' = connHandle /\ torn' = FALSE /\ sound' = Quiet
  /\ UNCHANGED <<hostVars, opVars, connVars, svcIdx, chrIdx, buf, target, res, capVars,
                 id, by, clean, gaveUp>>

\* blex_scan()
BlexScan ==
  /\ pc = "idle" /\ id < MaxProcs
  /\ op' = "scan" /\ pc' = "start"
  /\ UNCHANGED <<hostVars, opVars, connVars, dbVars, buf, target, res, capVars, history>>

\* Mutation of BlexConnect: a second connection may be opened.
BlexConnectAgain ==
  /\ pc = "idle" /\ id < MaxProcs
  /\ disc' = "none"
  /\ op' = "connect" /\ pc' = "start"
  /\ UNCHANGED <<attempt, links, lost, jobs, opVars, connVars, dbVars, buf, target, res, capVars,
                 id, by, clean, ofPeer, torn, sound, gaveUp>>

\* blex_connect(), up to the mutex: whatever discovery runs is cancelled.
BlexConnect ==
  /\ pc = "idle" /\ ~connected /\ id < MaxProcs
  /\ disc' = "none"
  /\ op' = "connect" /\ pc' = "start"
  /\ UNCHANGED <<attempt, links, lost, jobs, opVars, connVars, dbVars, buf, target, res, capVars,
                 id, by, clean, ofPeer, torn, sound, gaveUp>>

-----------------------------------------------------------------------------
(***************************************************************************)
(* Starting a procedure, and waiting for it.                               *)
(***************************************************************************)

Services(p) == [i \in DOMAIN Ends[p] |-> [svc |-> i, end |-> Ends[p][i]]]

\* How many characteristics services 1 to i of p have: the one number.
Until(p, i) == {n \in 0 .. Len(Gatt[p]) : \A k \in DOMAIN Gatt[p] : Gatt[p][k].svc <= i <=> k <= n}

\* The characteristics of service i of p.
Chars(p, i) == {SubSeq(Gatt[p], n + 1, m) : n \in Until(p, i - 1), m \in Until(p, i)}

\* The handles in S, from the lowest up.
Upwards(S) ==
  {l \in [1 .. Cardinality(S) -> S] : \A i, j \in DOMAIN l : i < j => l[i] < l[j]}

Cccds(p, from, to) ==
  {h \in {Gatt[p][k].cccd : k \in DOMAIN Gatt[p]} : from < h /\ h <= to}

\* What a procedure will report, one callback each, before it is done: the one list
\* of it.
Reports(p) ==
  CASE op = "svcs" -> {Services(p)}
    [] op = "chrs" -> Chars(p, svcs[svcIdx].svc)
    [] op = "dscs" -> Upwards(Cccds(p, table[chrIdx].val, table[chrIdx].end))
    [] OTHER -> {<<target>>}

\* The host takes the procedure on.
Accepted ==
  CASE op = "scan" ->
         /\ disc = "none" /\ attempt = None
         /\ disc' = "explorer" /\ UNCHANGED <<attempt, links, lost, jobs>>
    [] op = "connect" ->
         /\ disc = "none" /\ attempt = None
         /\ attempt' \in Peers \ links /\ UNCHANGED <<disc, links, lost, jobs>>
    [] OTHER ->
         /\ connHandle \in links
         /\ \E l \in Reports(connHandle) :
              jobs' = jobs \cup {[op |-> op, id |-> id', to |-> connHandle, left |-> l]}
         /\ UNCHANGED <<disc, attempt, links, lost>>

\* Mutation of Start: a stale completion is not dropped.
StartStale ==
  /\ pc = "start"
  /\ id' = id + 1
  /\ clean' = Quiet
  /\ sound' = IF op \in Discovery THEN sound /\ Quiet ELSE sound
  /\ gaveUp' = (gaveUp /\ (attempt # None \/ links # {} \/ lost # None))
  /\ buf' = IF op = "read" THEN 0 ELSE buf
  /\ \/ Accepted /\ pc' = "wait" /\ UNCHANGED res
     \/ pc' = "done" /\ res' = "failed" /\ UNCHANGED hostVars
  /\ UNCHANGED <<opVars, connVars, dbVars, op, target, capVars,
                 by, ofPeer, torn>>

\* "drop a stale completion, if any", and the call, which the host may refuse.
Start ==
  /\ pc = "start"
  /\ id' = id + 1
  /\ clean' = Quiet
  /\ sound' = IF op \in Discovery THEN sound /\ Quiet ELSE sound
  /\ gaveUp' = (gaveUp /\ (attempt # None \/ links # {} \/ lost # None))
  /\ buf' = IF op = "read" THEN 0 ELSE buf
  /\ sem' = FALSE
  /\ \/ Accepted /\ pc' = "wait" /\ UNCHANGED res
     \/ pc' = "done" /\ res' = "failed" /\ UNCHANGED hostVars
  /\ UNCHANGED <<rc, connVars, dbVars, op, target, capVars,
                 by, ofPeer, torn>>

\* The semaphore is there: "waits on s_op_sem for the matching callback"
Take ==
  /\ pc = "wait" /\ sem
  /\ sem' = FALSE /\ res' = rc /\ pc' = "done"
  /\ UNCHANGED <<hostVars, rc, connVars, dbVars, buf, op, target, capVars, history>>

\* It is not there in time.  A discovery is cancelled, a connection attempt asked to
\* be, and a GATT procedure goes on.
TimesOut ==
  /\ pc = "wait" /\ ~sem
  /\ res' = "failed" /\ pc' = "done"
  /\ sound' = (sound /\ op \notin Discovery)
  /\ disc' = IF op = "scan" THEN "none" ELSE disc
  /\ gaveUp' = (gaveUp \/ op = "connect")
  /\ UNCHANGED <<attempt, links, lost, jobs, opVars, connVars, dbVars, buf, op, target, capVars,
                 id, by, clean, ofPeer, torn>>

-----------------------------------------------------------------------------
(***************************************************************************)
(* What a command does with the result.                                    *)
(***************************************************************************)

\* Mutation of Bounded: a characteristic is taken to own the rest of the service.
BoundedByService(t) ==
  [k \in DOMAIN t |->
     IF t[k].svc # svcIdx THEN t[k] ELSE [t[k] EXCEPT !.end = svcs[svcIdx].end]]

\* "A characteristic owns every handle up to the next definition, or up to the end
\* of the service for the last one in it."
Bounded(t) ==
  [k \in DOMAIN t |->
     IF t[k].svc # svcIdx THEN t[k]
     ELSE [t[k] EXCEPT !.end = IF k < Len(t) THEN t[k + 1].def - 1
                                             ELSE svcs[svcIdx].end]]

\* The characteristics from k on whose descriptors are asked for.
Room(t, k) == {c \in k .. Len(t) : t[c].svc = svcIdx /\ t[c].val < t[c].end}

\* The next characteristic of the service, the next service, or the end.
Proceed(t, k) ==
  LET room == Room(t, k) IN
    \/ /\ room # {}
       /\ chrIdx' \in {c \in room : \A d \in room : c <= d}
       /\ op' = "dscs" /\ pc' = "start"
       /\ UNCHANGED <<svcIdx, discovered>>
    \/ /\ room = {} /\ svcIdx < Len(svcs)
       /\ svcIdx' = svcIdx + 1
       /\ op' = "chrs" /\ pc' = "start"
       /\ UNCHANGED <<chrIdx, discovered>>
    \/ /\ room = {} /\ svcIdx >= Len(svcs)
       /\ discovered' = TRUE
       /\ op' = "none" /\ pc' = "idle"
       /\ UNCHANGED <<svcIdx, chrIdx>>

Returns ==
  /\ pc = "done"
  /\ op \notin Discovery \/ (op # "dscs" /\ res = "failed")
  /\ op' = "none" /\ pc' = "idle"
  /\ UNCHANGED <<hostVars, opVars, connVars, dbVars, buf, target, res, capVars, history>>

HaveServices ==
  /\ pc = "done" /\ op = "svcs" /\ res = "ok"
  /\ svcIdx' = 1
  /\ IF svcs # <<>>
     THEN op' = "chrs" /\ pc' = "start" /\ UNCHANGED discovered
     ELSE op' = "none" /\ pc' = "idle" /\ discovered' = TRUE
  /\ UNCHANGED <<hostVars, opVars, connVars, svcs, table, chrIdx, buf, target, res, capVars,
                 history>>

HaveCharacteristics ==
  /\ pc = "done" /\ op = "chrs" /\ res = "ok"
  /\ table' = Bounded(table)
  /\ Proceed(Bounded(table), 1)
  /\ UNCHANGED <<hostVars, opVars, connVars, svcs, buf, target, res, capVars, history>>

\* "One characteristic refusing its descriptors is not a reason to lose the rest of
\* the database."
HaveDescriptors ==
  /\ pc = "done" /\ op = "dscs"
  /\ Proceed(table, chrIdx + 1)
  /\ UNCHANGED <<hostVars, opVars, connVars, svcs, table, buf, target, res, capVars, history>>

-----------------------------------------------------------------------------
(***************************************************************************)
(* The callbacks, on the host task.                                        *)
(***************************************************************************)
Give(outcome, n) == sem' = TRUE /\ rc' = outcome /\ by' = n

\* The host has one GATT procedure on the air, the oldest.
Oldest(j) == \A k \in jobs : j.id <= k.id

\* on_disc_svc(), on_disc_chr(), on_disc_dsc() with an item, on_read() with a value
Report(j) ==
  /\ lost = None /\ Oldest(j) /\ j.left # <<>>
  /\ LET x == Head(j.left)
     IN  /\ jobs' = (jobs \ {j}) \cup {[j EXCEPT !.left = Tail(@)]}
         /\ svcs' = IF j.op = "svcs" THEN Append(svcs, x) ELSE svcs
         /\ table' =
              CASE j.op = "chrs" ->
                     Append(table, [svc |-> svcIdx, def |-> x.def, val |-> x.val,
                                    end |-> 0, cccd |-> 0])
                [] j.op = "dscs" /\ chrIdx \in DOMAIN table ->
                     [table EXCEPT ![chrIdx].cccd = x]
                [] OTHER -> table
         /\ buf' = IF j.op = "read" THEN x ELSE buf
  /\ UNCHANGED <<disc, attempt, links, lost, opVars, connVars, discovered, svcIdx, chrIdx,
                 consoleVars, capVars, history>>

\* The same with BLE_HS_EDONE or the status of a request, or with an error, which may
\* come before everything was reported.
Complete(j) ==
  /\ lost = None /\ Oldest(j)
  /\ \/ j.left = <<>> /\ Give("ok", j.id)
     \/ Give("failed", j.id)
  /\ jobs' = jobs \ {j}
  /\ UNCHANGED <<disc, attempt, links, lost, connVars, dbVars, buf, consoleVars, capVars,
                 id, clean, ofPeer, torn, sound, gaveUp>>

\* BLE_GAP_EVENT_ENC_CHANGE, for a pairing the peer asked for
PeerPairs ==
  /\ links # {} /\ lost = None /\ "sec" \in Requests
  /\ clean' = FALSE /\ sound' = (sound /\ op \notin Discovery)
  /\ \E outcome \in {"ok", "failed"} : Give(outcome, 0)
  /\ UNCHANGED <<hostVars, connVars, dbVars, buf, consoleVars, capVars,
                 id, ofPeer, torn, gaveUp>>

\* BLE_GAP_EVENT_DISC_COMPLETE of the explorer's discovery
DiscComplete ==
  /\ disc = "explorer" /\ lost = None
  /\ disc' = "none" /\ Give("ok", id)
  /\ UNCHANGED <<attempt, links, lost, jobs, connVars, dbVars, buf, consoleVars, capVars,
                 id, clean, ofPeer, torn, sound, gaveUp>>

\* BLE_GAP_EVENT_CONNECT
GapConnect ==
  /\ attempt # None /\ lost = None
  /\ attempt' = None
  /\ \/ /\ links' = links \cup {attempt}
        /\ connected' = TRUE /\ connHandle' = attempt
        /\ Give("ok", IF op = "connect" THEN id ELSE 0)
     \/ /\ connected' = FALSE /\ connHandle' = None
        /\ Give("failed", IF op = "connect" THEN id ELSE 0)
        /\ UNCHANGED links
  /\ UNCHANGED <<disc, lost, jobs, dbVars, buf, consoleVars, capVars,
                 id, clean, ofPeer, torn, sound, gaveUp>>

\* A link is lost, or ended by blex_disconnect(): its procedures fail, and only then
\* BLE_GAP_EVENT_DISCONNECT is delivered.
LinkLost ==
  \E p \in links :
    /\ lost = None /\ lost' = p
    /\ links' = links \ {p}
    /\ LET gone == {j \in jobs : j.to = p} IN
         /\ jobs' = jobs \ gone
         /\ \/ gone = {} /\ UNCHANGED <<sem, rc, by>>
            \/ \E j \in gone : (\A k \in gone : k.id <= j.id) /\ Give("failed", j.id)
    /\ torn' = (torn \/ op \in Discovery)
    /\ UNCHANGED <<disc, attempt, connVars, dbVars, buf, consoleVars, capVars,
                   id, clean, ofPeer, sound, gaveUp>>

\* Mutation of GapDisconnect: the database outlives the connection.
GapDisconnectKeeps ==
  /\ lost # None /\ lost' = None
  /\ connected' = FALSE /\ connHandle' = None
  /\ UNCHANGED <<disc, attempt, links, jobs, opVars, dbVars, buf, consoleVars, capVars, history>>

GapDisconnect ==
  /\ lost # None /\ lost' = None
  /\ connected' = FALSE /\ connHandle' = None
  /\ discovered' = FALSE
  /\ UNCHANGED <<disc, attempt, links, jobs, opVars, svcs, table, svcIdx, chrIdx, buf,
                 consoleVars, capVars, history>>

-----------------------------------------------------------------------------
(***************************************************************************)
(* The scan of the capture task.                                           *)
(***************************************************************************)

\* cap_scan_start(), on the button or console task
CapScanStart ==
  /\ ~capMsg
  /\ ~connected
  /\ capScan \/ disc = "none"
  /\ capMsg' = TRUE
  /\ UNCHANGED <<hostVars, opVars, connVars, dbVars, buf, consoleVars, capScan, history>>

\* scan_begin(): its own discovery is cancelled first, and the host takes the new one
\* unless there is another, or a connection attempt.
CapScanBegin ==
  /\ capMsg
  /\ capMsg' = FALSE
  /\ LET d == IF capScan THEN "none" ELSE disc
         taken == d = "none" /\ attempt = None
     IN  disc' = (IF taken THEN "capture" ELSE d) /\ capScan' = taken
  /\ UNCHANGED <<attempt, links, lost, jobs, opVars, connVars, dbVars, buf, consoleVars,
                 id, by, clean, ofPeer, torn, sound, gaveUp>>

\* scan_end()
CapScanEnd ==
  /\ capScan
  /\ disc' = "none" /\ capScan' = FALSE
  /\ UNCHANGED <<attempt, links, lost, jobs, opVars, connVars, dbVars, buf, consoleVars, capMsg,
                 id, by, clean, ofPeer, torn, sound, gaveUp>>

\* BLE_GAP_EVENT_DISC_COMPLETE of the capture task's discovery
CapDiscComplete ==
  /\ disc = "capture"
  /\ disc' = "none" /\ capScan' = FALSE
  /\ UNCHANGED <<attempt, links, lost, jobs, opVars, connVars, dbVars, buf, consoleVars, capMsg,
                 id, by, clean, ofPeer, torn, sound, gaveUp>>

-----------------------------------------------------------------------------
Console ==
  \/ \E k \in Requests : Request(k)
  \/ BlexDiscover \/ BlexScan \/ BlexConnect
  \/ Start \/ Take \/ TimesOut
  \/ Returns \/ HaveServices \/ HaveCharacteristics \/ HaveDescriptors

Host ==
  \/ \E j \in jobs : Report(j) \/ Complete(j)
  \/ PeerPairs \/ DiscComplete
  \/ GapConnect \/ LinkLost \/ GapDisconnect

CaptureTask == CapScanStart \/ CapScanBegin \/ CapScanEnd \/ CapDiscComplete

BlexNext == Console \/ Host \/ CaptureTask

BlexSpec == BlexInit /\ [][BlexNext]_blexVars

-----------------------------------------------------------------------------
\* A result the console acts upon is the one of the procedure it started, and what
\* was read is the value of the handle it asked for, however many procedures were
\* given up on before: as long as all of them had come to an end when it was started.
OwnResult ==
  pc = "done" /\ clean /\ res = "ok" =>
    /\ by = id
    /\ op = "read" => buf = target

\* A database that was discovered with no procedure given up on and the link there
\* throughout is the device's: every characteristic is in its service, and the
\* handle a subscription will be written to is its own CCCD, or none.
DatabaseTrue ==
  discovered /\ sound /\ ~torn /\ ~gaveUp =>
    /\ Len(table) = Len(Gatt[ofPeer])
    /\ \A k \in DOMAIN table :
         LET x == Gatt[ofPeer][k] IN
           /\ svcs[table[k].svc].svc = x.svc /\ table[k].def = x.def /\ table[k].val = x.val
           /\ table[k].cccd \in {x.cccd, 0}

\* What "gatt", "readall", "sub all" and "daly" go by is the database of the device
\* they talk to, also after reconnecting, unless the link went while it was being
\* discovered, or a connect that was given up on came up late.
DatabaseCurrent == discovered /\ ~torn /\ ~gaveUp => connected /\ connHandle = ofPeer

\* Every connection can be ended from the console, unless a connect was given up on.
LinkOwned == ~gaveUp => \A p \in links : connected /\ connHandle = p

=============================================================================
