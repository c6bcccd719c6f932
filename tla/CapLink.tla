------------------------------- MODULE CapLink -------------------------------
(***************************************************************************)
(* main/capture.c: how the capture task brings a link up and drops it.     *)
(*                                                                         *)
(* The task starts one operation of the NimBLE host at a time and waits on *)
(* s_op_sem, with a timeout, for the callback that completes it.  The      *)
(* callback says nothing of which operation it is for: it leaves a result  *)
(* in s_op_rc (and s_op_conn_handle) and gives the semaphore.  A wait that *)
(* timed out leaves the operation behind, to complete later; a connection  *)
(* the task terminated is gone only when the host has reported so.         *)
(*                                                                         *)
(* The host is external, modelled as this code uses it: connects one at a  *)
(* time, never twice to an address; fails what is pending on a connection  *)
(* that breaks, and then reports the disconnect to the link it was made    *)
(* for.                                                                    *)
(***************************************************************************)
EXTENDS Integers, FiniteSets

CONSTANTS
  Links,      \* CAP_LINK_MCU, CAP_LINK_BMS
  Polled,     \* the links that are polled: a failed MTU exchange is fatal there
  Rotating,   \* the links whose address rotates (rescan_first)
  Handles,    \* connection handles of the controller
  NoHandle,   \* BLE_HS_CONN_HANDLE_NONE
  NOps        \* the GATT operations of link_setup(), the MTU exchange first

ASSUME LinkAssumption ==
  /\ Polled \subseteq Links /\ Rotating \subseteq Links
  /\ NoHandle \notin Handles
  /\ NOps \in Nat /\ NOps >= 2

VARIABLES
  hd,       \* s_link[].conn_handle
  sub,      \* s_pub.link[].subscribed
  sem,      \* tokens in s_op_sem
  rc,       \* s_op_rc is 0
  opConn,   \* s_op_conn_handle
  tpc,      \* where the task is
  cur,      \* the link it is at
  op,       \* the number of the GATT operation it is at
  local,    \* `conn` of link_setup()
  attempt,  \* the host: the links of connects under way
  conns,    \* the host: every handle's connection
  pending,  \* the host: GATT operations not completed
  late      \* history: something was left behind that had not completed when the
            \* next connect began

taskVars == <<hd, sub, tpc, cur, op, local>>
opVars   == <<sem, rc, opConn>>
hostVars == <<attempt, conns, pending>>
vars     == <<taskVars, opVars, hostVars, late>>

-----------------------------------------------------------------------------
\* A connection is up, being terminated by the task, broken (to be reported) or
\* not there; `link` is the cb_arg it was made with.
Conn == [st : {"none", "up", "closing", "broken"}, link : Links]

\* A GATT operation; the set-up of a connection does each once.
Pending == [conn : Handles, op : 1 .. NOps]

Live(c) == conns[c].st \in {"up", "closing", "broken"}

\* ble_gap_terminate()
Terminated(c) == IF c \in Handles /\ conns[c].st = "up"
                 THEN [conns EXCEPT ![c].st = "closing"] ELSE conns

\* What the host has yet to report of an earlier link.
LeftBehind ==
  attempt # {} \/ pending # {} \/ \E c \in Handles : conns[c].st \in {"closing", "broken"}

\* A callback completes an operation.
Complete(ok) == rc' = ok /\ sem' = 1

Init ==
  /\ hd = [i \in Links |-> NoHandle] /\ sub = [i \in Links |-> FALSE]
  /\ sem = 0 /\ rc = TRUE /\ opConn = NoHandle
  /\ tpc = "idle" /\ cur \in Links /\ op = 1 /\ local = NoHandle
  /\ attempt = {} /\ pending = {} /\ late = FALSE
  /\ \E i \in Links : conns = [c \in Handles |-> [st |-> "none", link |-> i]]

-----------------------------------------------------------------------------
(***************************************************************************)
(* link_connect()                                                          *)
(***************************************************************************)

\* A stale token is taken, the attempt begins - unless the host refuses it, which
\* has an attempt or, to an address that does not rotate, a connection already.
ConnectStart(i) ==
  /\ tpc = "idle" /\ hd[i] = NoHandle
  /\ sem' = 0 /\ opConn' = NoHandle
  /\ cur' = i
  /\ IF attempt # {} \/ (i \notin Rotating /\ \E c \in Handles : Live(c) /\ conns[c].link = i)
     THEN UNCHANGED <<attempt, tpc>>
     ELSE attempt' = {i} /\ tpc' = "connecting"
  /\ late' = (late \/ LeftBehind)
  /\ UNCHANGED <<hd, sub, op, local, rc, conns, pending>>

\* wait_op() has a token, whoever gave it.
ConnectTake ==
  /\ tpc = "connecting" /\ sem = 1
  /\ sem' = 0
  /\ IF rc
     THEN /\ hd' = [hd EXCEPT ![cur] = opConn]
          /\ sub' = [sub EXCEPT ![cur] = FALSE]
          /\ tpc' = "setup"
     ELSE tpc' = "idle" /\ UNCHANGED <<hd, sub>>
  /\ UNCHANGED <<cur, op, local, rc, opConn, hostVars, late>>

\* The wait timed out: the attempt is cancelled, which the host reports.
ConnectTimeout ==
  /\ tpc = "connecting" /\ sem = 0
  /\ tpc' = "cancelled"
  /\ UNCHANGED <<hd, sub, cur, op, local, opVars, hostVars, late>>

\* Mutation of CancelTake: the race is not looked for.
CancelTakeBlind ==
  /\ tpc = "cancelled" /\ sem = 1
  /\ sem' = 0
  /\ tpc' = "idle"
  /\ UNCHANGED <<hd, sub, cur, op, local, rc, opConn, hostVars, late>>

\* "If it raced us and did connect, the link is terminated rather than leaked."
CancelTake ==
  /\ tpc = "cancelled" /\ sem = 1
  /\ sem' = 0
  /\ conns' = IF rc THEN Terminated(opConn) ELSE conns
  /\ tpc' = "idle"
  /\ UNCHANGED <<hd, sub, cur, op, local, rc, opConn, attempt, pending, late>>

\* The second wait, of one second, timed out as well.
CancelTimeout ==
  /\ tpc = "cancelled" /\ sem = 0
  /\ tpc' = "idle" /\ late' = TRUE
  /\ UNCHANGED <<hd, sub, cur, op, local, opVars, hostVars>>

-----------------------------------------------------------------------------
(***************************************************************************)
(* link_setup() and link_drop()                                            *)
(***************************************************************************)
SetupStart ==
  /\ tpc = "setup"
  /\ local' = hd[cur] /\ op' = 1
  /\ tpc' = IF hd[cur] = NoHandle THEN "drop" ELSE "gatt"
  /\ UNCHANGED <<hd, sub, cur, opVars, hostVars, late>>

\* A failed operation fails the set-up, but for the MTU exchange of a link that is
\* not polled.
GattFailed ==
  IF op = 1 /\ cur \notin Polled
  THEN /\ op' = op + 1 /\ tpc' = IF op = NOps THEN "commit" ELSE "gatt"
  ELSE tpc' = "drop" /\ UNCHANGED op

\* A stale token is taken and the operation starts, if there is a connection.
GattStart ==
  /\ tpc = "gatt"
  /\ sem' = 0
  /\ IF conns[local].st \in {"up", "closing"}
     THEN /\ pending' = pending \cup {[conn |-> local, op |-> op]}
          /\ tpc' = "gattwait" /\ UNCHANGED op
     ELSE GattFailed /\ UNCHANGED pending
  /\ UNCHANGED <<hd, sub, cur, local, rc, opConn, attempt, conns, late>>

GattTake ==
  /\ tpc = "gattwait" /\ sem = 1
  /\ sem' = 0
  /\ IF rc
     THEN op' = op + 1 /\ tpc' = IF op = NOps THEN "commit" ELSE "gatt"
     ELSE GattFailed
  /\ UNCHANGED <<hd, sub, cur, local, rc, opConn, hostVars, late>>

GattTimeout ==
  /\ tpc = "gattwait" /\ sem = 0
  /\ GattFailed
  /\ UNCHANGED <<hd, sub, cur, local, opVars, hostVars, late>>

\* The link counts as subscribed.
Commit ==
  /\ tpc = "commit"
  /\ sub' = [sub EXCEPT ![cur] = TRUE]
  /\ tpc' = "idle"
  /\ UNCHANGED <<hd, cur, op, local, opVars, hostVars, late>>

LinkDrop(i) ==
  /\ conns' = Terminated(hd[i])
  /\ hd' = [hd EXCEPT ![i] = NoHandle]
  /\ sub' = [sub EXCEPT ![i] = FALSE]
  /\ UNCHANGED <<cur, op, local, opVars, attempt, pending, late>>

\* The set-up failed; or the watchdog, or the end of the capture, drops a link.
SetupFailed == tpc = "drop" /\ tpc' = "idle" /\ LinkDrop(cur)

DropIdle(i) == tpc = "idle" /\ hd[i] # NoHandle /\ UNCHANGED tpc /\ LinkDrop(i)

-----------------------------------------------------------------------------
(***************************************************************************)
(* The NimBLE host and its callbacks.                                      *)
(***************************************************************************)

\* BLE_GAP_EVENT_CONNECT, late
OnConnect ==
  /\ \E i \in attempt, c \in Handles :
       /\ conns[c].st = "none"
       /\ conns' = [conns EXCEPT ![c] = [st |-> "up", link |-> i]]
       /\ opConn' = c
  /\ attempt' = {}
  /\ Complete(TRUE)
  /\ UNCHANGED <<taskVars, pending, late>>

\* The attempt timed out, or its cancellation went through.
OnConnectFailed ==
  /\ attempt # {}
  /\ attempt' = {} /\ opConn' = NoHandle
  /\ Complete(FALSE)
  /\ UNCHANGED <<taskVars, conns, pending, late>>

\* on_mtu(), on_disc_svc(), on_disc_chr(), on_disc_dsc(), on_write()
OnGatt ==
  /\ \E p \in pending : conns[p.conn].st = "up" /\ pending' = pending \ {p}
  /\ \E ok \in BOOLEAN : Complete(ok)
  /\ UNCHANGED <<taskVars, opConn, attempt, conns, late>>

\* A connection breaks, by itself or because it was terminated; what is pending on
\* it completes with BLE_HS_ENOTCONN.
Broken(c) ==
  /\ conns[c].st \in {"up", "closing"}
  /\ conns' = [conns EXCEPT ![c].st = "broken"]
  /\ pending' = {p \in pending : p.conn # c}
  /\ IF pending' = pending THEN UNCHANGED <<sem, rc>> ELSE Complete(FALSE)
  /\ UNCHANGED <<taskVars, opConn, attempt, late>>

\* Mutation of OnDisconnect: the link keeps its handle.
OnDisconnectKeeps(c) ==
  /\ conns[c].st = "broken"
  /\ conns' = [conns EXCEPT ![c].st = "none"]
  /\ sub' = [sub EXCEPT ![conns[c].link] = FALSE]
  /\ UNCHANGED <<hd, tpc, cur, op, local, opVars, attempt, pending, late>>

\* BLE_GAP_EVENT_DISCONNECT: it clears the link the connection was made for.
OnDisconnect(c) ==
  /\ conns[c].st = "broken"
  /\ conns' = [conns EXCEPT ![c].st = "none"]
  /\ hd' = [hd EXCEPT ![conns[c].link] = NoHandle]
  /\ sub' = [sub EXCEPT ![conns[c].link] = FALSE]
  /\ UNCHANGED <<tpc, cur, op, local, opVars, attempt, pending, late>>

-----------------------------------------------------------------------------
TaskStep ==
  \/ \E i \in Links : ConnectStart(i) \/ DropIdle(i)
  \/ ConnectTake \/ ConnectTimeout \/ CancelTake \/ CancelTimeout
  \/ SetupStart \/ GattStart \/ GattTake \/ GattTimeout \/ Commit \/ SetupFailed

HostStep ==
  \/ OnConnect \/ OnConnectFailed \/ OnGatt
  \/ \E c \in Handles : Broken(c) \/ OnDisconnect(c)

Next == TaskStep \/ HostStep

Spec == Init /\ [][Next]_vars

-----------------------------------------------------------------------------
TaskPcs == {"idle", "connecting", "cancelled", "setup", "gatt", "gattwait", "commit", "drop"}

\* Every variable holds a value of its kind, and the host one attempt at most.
TypeOK ==
  /\ hd \in [Links -> Handles \cup {NoHandle}] /\ sub \in [Links -> BOOLEAN]
  /\ sem \in {0, 1} /\ rc \in BOOLEAN /\ opConn \in Handles \cup {NoHandle}
  /\ tpc \in TaskPcs /\ cur \in Links /\ op \in 1 .. NOps + 1
  /\ local \in Handles \cup {NoHandle}
  /\ attempt \in SUBSET Links /\ Cardinality(attempt) <= 1
  /\ conns \in [Handles -> Conn] /\ pending \subseteq Pending /\ late \in BOOLEAN

\* The link whose completion the task is about to take.
Taking(c) ==
  tpc \in {"connecting", "cancelled"} /\ sem = 1 /\ rc /\ opConn = c

\* A connection that is up is one the task holds a handle of, under the link it was
\* made for, or whose CONNECT event it is about to take.
Owned(c) == hd[conns[c].link] = c \/ Taking(c)

\* None is leaked, whichever way a connect, its cancellation and a disconnect race -
\* as long as what an operation left behind completes before the next connect.  Nor
\* does the host have an attempt under way when the task believes it has none.
NoneLeaked ==
  ~late =>
    /\ \A c \in Handles : conns[c].st = "up" => Owned(c)
    /\ attempt # {} => tpc \in {"connecting", "cancelled"}

\* A handle the task holds is that of a connection of this link: never a free
\* one, never one of the other link's, also after completions were taken for those
\* of other operations.  Only the link that is being set up may have been lost
\* before its handle was stored, which the first operation finds out.
OwnHandle ==
  \A i \in Links :
    hd[i] # NoHandle /\ (tpc = "idle" \/ i # cur) => Live(hd[i]) /\ conns[hd[i]].link = i

=============================================================================
