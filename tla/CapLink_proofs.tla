---------------------------- MODULE CapLink_proofs ----------------------------
(***************************************************************************)
(* No connection is leaked, and no link holds another's, for any number of *)
(* links and handles and any number of GATT operations in a set-up.        *)
(***************************************************************************)
EXTENDS CapLink, TLAPS, FiniteSetTheorems

Connecting == tpc \in {"connecting", "cancelled"}
SettingUp == tpc \in {"setup", "gatt", "gattwait", "commit", "drop"}

\* The operations of a set-up work on the handle the link was given, which only its
\* disconnect takes away.
LocalInv ==
  tpc \in {"gatt", "gattwait"} =>
    local \in Handles /\ hd[cur] \in {local, NoHandle} /\ op <= NOps

\* A connection that is gone before its handle was stored: the task has not come past
\* the second operation, the first that may not fail.
Early == tpc \in {"setup", "drop"} \/ (tpc = "gatt" /\ op <= 2)

\* The connect under way is for the link the task is at, and what it has led to is
\* nobody else's.
ConnectInv ==
  /\ Connecting => /\ hd[cur] = NoHandle
                   /\ attempt \subseteq {cur}
                   /\ opConn # NoHandle => attempt = {} /\ conns[opConn].link = cur
  /\ SettingUp /\ hd[cur] # NoHandle =>
       /\ attempt = {} /\ conns[hd[cur]].link = cur
       /\ Live(hd[cur]) \/ Early

Inv == TypeOK /\ LocalInv /\ ConnectInv /\ OwnHandle

-----------------------------------------------------------------------------
\* What terminating a connection leaves alone.
LEMMA TerminatedKeeps ==
  ASSUME TypeOK, NEW h
  PROVE  /\ Terminated(h) \in [Handles -> Conn]
         /\ \A c \in Handles : /\ Terminated(h)[c].link = conns[c].link
                               /\ Terminated(h)[c].st \in {"up", "closing", "broken"} <=> Live(c)
                               /\ Terminated(h)[c].st = "up" <=> conns[c].st = "up" /\ c # h
  BY DEF Terminated, TypeOK, Conn, Live

LEMMA InitInv == Init => Inv
<1> SUFFICES ASSUME Init PROVE Inv
  OBVIOUS
<1>1. TypeOK
  <2>1. Cardinality(attempt) <= 1 /\ attempt \in SUBSET Links
    BY FS_EmptySet DEF Init
  <2>2. conns \in [Handles -> Conn]
    BY DEF Init, Conn
  <2>3. pending \subseteq Pending
    BY DEF Init
  <2>4. sub \in [Links -> BOOLEAN] /\ rc \in BOOLEAN /\ late \in BOOLEAN
    BY Zenon DEF Init
  <2>5. hd \in [Links -> Handles \cup {NoHandle}] /\ local \in Handles \cup {NoHandle}
        /\ opConn \in Handles \cup {NoHandle}
    BY DEF Init
  <2>6. sem \in {0, 1} /\ cur \in Links /\ op \in 1 .. NOps + 1 /\ tpc \in TaskPcs
    BY LinkAssumption DEF Init, TaskPcs
  <2> QED BY <2>1, <2>2, <2>3, <2>4, <2>5, <2>6 DEF TypeOK
<1> QED BY <1>1 DEF Init, Inv, LocalInv, ConnectInv, OwnHandle, Connecting, SettingUp

-----------------------------------------------------------------------------
LEMMA StepType == Inv /\ [Next]_vars => TypeOK'
<1> SUFFICES ASSUME Inv, [Next]_vars PROVE TypeOK'
  OBVIOUS
<1>t. TypeOK /\ LocalInv
  BY DEF Inv
<1>c. \A c \in Handles, s \in {"none", "up", "closing", "broken"} :
        [conns EXCEPT ![c].st = s] \in [Handles -> Conn]
  BY <1>t DEF TypeOK, Conn
<1>e. Cardinality({}) <= 1 /\ {} \in SUBSET Links
  BY FS_EmptySet
<1> USE DEF taskVars, opVars, hostVars
<1>1. ASSUME NEW i \in Links, ConnectStart(i) PROVE TypeOK'
  <2>1. Cardinality({i}) <= 1 /\ {i} \in SUBSET Links
    BY FS_Singleton
  <2>2. (attempt' = attempt /\ tpc' = tpc) \/ (attempt' = {i} /\ tpc' = "connecting")
    BY <1>1 DEF ConnectStart
  <2>3. late' \in BOOLEAN
    BY <1>1, <1>t, Zenon DEF ConnectStart, TypeOK
  <2> QED BY <1>1, <1>t, <2>1, <2>2, <2>3 DEF ConnectStart, TypeOK, TaskPcs
<1>2. CASE ConnectTake \/ ConnectTimeout \/ CancelTimeout \/ Commit
  BY <1>2, <1>t DEF ConnectTake, ConnectTimeout, CancelTimeout, Commit, TypeOK, TaskPcs
<1>3. CASE CancelTake
  <2>1. conns' \in [Handles -> Conn]
    BY <1>3, <1>t, TerminatedKeeps DEF CancelTake, TypeOK
  <2> QED BY <1>3, <1>t, <2>1 DEF CancelTake, TypeOK, TaskPcs
<1>4. CASE SetupStart
  BY <1>4, <1>t, LinkAssumption DEF SetupStart, TypeOK, TaskPcs
<1>5. CASE GattStart \/ GattTake \/ GattTimeout
  <2>1. op <= NOps /\ local \in Handles
    BY <1>5, <1>t DEF LocalInv, GattStart, GattTake, GattTimeout
  <2>2. op' \in 1 .. NOps + 1 /\ tpc' \in TaskPcs
    BY <1>5, <1>t, <2>1, LinkAssumption
       DEF GattStart, GattTake, GattTimeout, GattFailed, TypeOK, TaskPcs
  <2>3. pending' \subseteq Pending
    BY <1>5, <1>t, <2>1 DEF GattStart, GattTake, GattTimeout, TypeOK, Pending
  <2>4. sem' \in {0, 1}
    BY <1>5, <1>t DEF GattStart, GattTake, GattTimeout, TypeOK
  <2>5. UNCHANGED <<hd, sub, cur, local, rc, opConn, attempt, conns, late>>
    BY <1>5 DEF GattStart, GattTake, GattTimeout
  <2> QED BY <1>t, <2>2, <2>3, <2>4, <2>5 DEF TypeOK
<1>6. ASSUME NEW i \in Links, LinkDrop(i), tpc' \in TaskPcs PROVE TypeOK'
  <2>1. conns' \in [Handles -> Conn]
    BY <1>6, <1>t, TerminatedKeeps DEF LinkDrop
  <2> QED BY <1>6, <1>t, <2>1 DEF LinkDrop, TypeOK
<1>7. CASE SetupFailed
  BY <1>6, <1>7, <1>t DEF SetupFailed, TypeOK, TaskPcs
<1>8. ASSUME NEW i \in Links, DropIdle(i) PROVE TypeOK'
  BY <1>6, <1>8, <1>t DEF DropIdle, TypeOK
<1>9. CASE OnConnect
  <2>1. PICK i \in attempt, c \in Handles :
          conns' = [conns EXCEPT ![c] = [st |-> "up", link |-> i]] /\ opConn' = c
    BY <1>9 DEF OnConnect
  <2>2. conns' \in [Handles -> Conn]
    BY <1>t, <2>1 DEF TypeOK, Conn
  <2> QED BY <1>9, <1>t, <1>e, <2>1, <2>2 DEF OnConnect, Complete, TypeOK
<1>10. CASE OnConnectFailed
  BY <1>10, <1>t, <1>e DEF OnConnectFailed, Complete, TypeOK
<1>11. CASE OnGatt
  <2>1. pending' \subseteq Pending
    BY <1>11, <1>t DEF OnGatt, TypeOK
  <2>2. sem' = 1 /\ rc' \in BOOLEAN
    BY <1>11 DEF OnGatt, Complete
  <2> QED BY <1>11, <1>t, <2>1, <2>2 DEF OnGatt, TypeOK
<1>12. ASSUME NEW c \in Handles, Broken(c) PROVE TypeOK'
  <2>1. pending' \subseteq Pending /\ conns' \in [Handles -> Conn]
    BY <1>12, <1>t, <1>c DEF Broken, TypeOK
  <2>2. sem' \in {0, 1} /\ rc' \in BOOLEAN
    BY <1>12, <1>t DEF Broken, Complete, TypeOK
  <2> QED BY <1>12, <1>t, <2>1, <2>2 DEF Broken, TypeOK
<1>13. ASSUME NEW c \in Handles, OnDisconnect(c) PROVE TypeOK'
  <2>1. conns' \in [Handles -> Conn]
    BY <1>13, <1>c DEF OnDisconnect
  <2> QED BY <1>13, <1>t, <2>1 DEF OnDisconnect, TypeOK
<1>14. CASE UNCHANGED vars
  BY <1>14, <1>t DEF vars, TypeOK
<1> QED BY <1>1, <1>2, <1>3, <1>4, <1>5, <1>7, <1>8, <1>9, <1>10, <1>11, <1>12, <1>13, <1>14
        DEF Next, TaskStep, HostStep

-----------------------------------------------------------------------------
\* The host's own steps on connections the task may hold.
LEMMA StepHandle == Inv /\ [Next]_vars => (LocalInv /\ ConnectInv /\ OwnHandle)'
<1> SUFFICES ASSUME Inv, [Next]_vars PROVE (LocalInv /\ ConnectInv /\ OwnHandle)'
  OBVIOUS
<1>t. TypeOK /\ LocalInv /\ ConnectInv /\ OwnHandle /\ TypeOK'
  BY StepType DEF Inv
<1>n. NoHandle \notin Handles /\ NOps \in Nat /\ NOps >= 2
  BY LinkAssumption
<1> USE DEF taskVars, opVars, hostVars, Connecting, SettingUp
<1>1. ASSUME NEW i \in Links, ConnectStart(i) PROVE (LocalInv /\ ConnectInv /\ OwnHandle)'
  <2>1. /\ tpc = "idle" /\ hd[i] = NoHandle /\ opConn' = NoHandle /\ cur' = i
        /\ UNCHANGED <<hd, conns>>
        /\ tpc' = "idle" \/ (attempt' = {i} /\ tpc' = "connecting")
    BY <1>1 DEF ConnectStart
  <2> QED BY <1>t, <2>1 DEF LocalInv, ConnectInv, OwnHandle, Live
<1>2. CASE ConnectTake
  <2>1. /\ tpc = "connecting" /\ UNCHANGED <<cur, op, conns, attempt>>
        /\ \/ hd' = [hd EXCEPT ![cur] = opConn] /\ tpc' = "setup"
           \/ UNCHANGED hd /\ tpc' = "idle"
    BY <1>2 DEF ConnectTake
  <2>2. CASE hd' = [hd EXCEPT ![cur] = opConn] /\ tpc' = "setup"
    <3>1. hd'[cur] = opConn /\ \A i \in Links \ {cur} : hd'[i] = hd[i]
      BY <1>t, <2>2 DEF TypeOK
    <3> QED BY <1>t, <2>1, <2>2, <3>1 DEF LocalInv, ConnectInv, OwnHandle, Live, Early
  <2>3. CASE UNCHANGED hd /\ tpc' = "idle"
    BY <1>t, <2>1, <2>3 DEF LocalInv, ConnectInv, OwnHandle, Live
  <2> QED BY <2>1, <2>2, <2>3
<1>3. CASE ConnectTimeout \/ CancelTimeout
  BY <1>3, <1>t
     DEF ConnectTimeout, CancelTimeout, LocalInv, ConnectInv, OwnHandle, Live
<1>4. CASE CancelTake
  <2>1. /\ tpc = "cancelled" /\ tpc' = "idle" /\ UNCHANGED <<hd, cur>>
        /\ conns' = Terminated(opConn) \/ conns' = conns
    BY <1>4 DEF CancelTake
  <2>2. \A c \in Handles : conns'[c].link = conns[c].link /\ (Live(c)' <=> Live(c))
    BY <1>t, <2>1, TerminatedKeeps DEF Live
  <2>3. \A i \in Links : hd[i] # NoHandle => hd[i] \in Handles
    BY <1>t DEF TypeOK
  <2> QED BY <1>t, <2>1, <2>2, <2>3 DEF LocalInv, ConnectInv, OwnHandle
<1>5. CASE SetupStart
  BY <1>5, <1>t, <1>n DEF SetupStart, LocalInv, ConnectInv, OwnHandle, Live, Early, TypeOK
<1>6. CASE GattStart
  <2>1. /\ tpc = "gatt" /\ UNCHANGED <<hd, cur, local, opConn, attempt, conns>>
        /\ \/ Live(local) /\ tpc' = "gattwait" /\ UNCHANGED op
           \/ GattFailed
    BY <1>6 DEF GattStart, Live
  <2>2. GattFailed =>
          \/ op = 1 /\ op' = 2 /\ tpc' = "gatt"
          \/ tpc' = "drop" /\ op' = op
    BY <1>n DEF GattFailed
  <2>3. op \in 1 .. NOps
    BY <1>t, <2>1 DEF TypeOK, LocalInv
  <2>4. /\ local \in Handles /\ hd[cur] \in {local, NoHandle}
        /\ hd[cur] # NoHandle => attempt = {} /\ conns[hd[cur]].link = cur
        /\ hd[cur] # NoHandle => Live(hd[cur]) \/ op <= 2
    BY <1>t, <2>1 DEF ConnectInv, LocalInv, Early
  <2> QED BY <1>t, <1>n, <2>1, <2>2, <2>3, <2>4
          DEF LocalInv, ConnectInv, OwnHandle, Live, Early
<1>7. CASE GattTake \/ GattTimeout
  <2>1. /\ tpc = "gattwait" /\ UNCHANGED <<hd, cur, local, opConn, attempt, conns>>
        /\ \/ op' = op + 1 /\ tpc' = IF op = NOps THEN "commit" ELSE "gatt"
           \/ GattFailed
    BY <1>7 DEF GattTake, GattTimeout
  <2>2. op \in 1 .. NOps
    BY <1>t, <2>1 DEF TypeOK, LocalInv
  <2>3. \/ op' <= NOps /\ tpc' = "gatt"
        \/ tpc' = "commit" \/ tpc' = "drop"
    BY <1>n, <2>1, <2>2 DEF GattFailed
  <2>4. /\ local \in Handles /\ hd[cur] \in {local, NoHandle}
        /\ hd[cur] # NoHandle => attempt = {} /\ conns[hd[cur]].link = cur /\ Live(hd[cur])
    BY <1>t, <2>1 DEF ConnectInv, LocalInv, Early
  <2> QED BY <1>t, <2>1, <2>3, <2>4 DEF LocalInv, ConnectInv, OwnHandle, Live
<1>8. CASE Commit
  <2>1. tpc = "commit" /\ tpc' = "idle" /\ UNCHANGED <<hd, cur, conns>>
    BY <1>8 DEF Commit
  <2>2. hd[cur] # NoHandle => Live(hd[cur]) /\ conns[hd[cur]].link = cur
    BY <1>t, <2>1 DEF ConnectInv, Early
  <2> QED BY <1>t, <2>1, <2>2 DEF LocalInv, ConnectInv, OwnHandle, Live
<1>9. ASSUME NEW i \in Links, LinkDrop(i), tpc' = "idle",
             \A j \in Links : j # i /\ hd[j] # NoHandle =>
                              Live(hd[j]) /\ conns[hd[j]].link = j
      PROVE  (LocalInv /\ ConnectInv /\ OwnHandle)'
  <2>1. /\ hd' = [hd EXCEPT ![i] = NoHandle] /\ conns' = Terminated(hd[i])
    BY <1>9 DEF LinkDrop
  <2>2. \A c \in Handles : conns'[c].link = conns[c].link /\ (Live(c)' <=> Live(c))
    BY <1>t, <2>1, TerminatedKeeps DEF Live
  <2>3. hd'[i] = NoHandle /\ \A j \in Links \ {i} : hd'[j] = hd[j]
    BY <1>t, <2>1 DEF TypeOK
  <2>4. \A j \in Links : hd[j] # NoHandle => hd[j] \in Handles
    BY <1>t DEF TypeOK
  <2>5. OwnHandle'
    BY <1>9, <2>2, <2>3, <2>4 DEF OwnHandle
  <2> QED BY <1>9, <2>5 DEF LocalInv, ConnectInv
<1>10. CASE SetupFailed
  <2>1. cur \in Links
    BY <1>t DEF TypeOK
  <2> QED BY <1>9, <1>10, <1>t, <2>1 DEF SetupFailed, OwnHandle
<1>11. ASSUME NEW i \in Links, DropIdle(i) PROVE (LocalInv /\ ConnectInv /\ OwnHandle)'
  BY <1>9, <1>11, <1>t DEF DropIdle, OwnHandle
<1>12. CASE OnConnect
  <2>1. PICK i \in attempt, c \in Handles :
          /\ conns[c].st = "none" /\ opConn' = c
          /\ conns' = [conns EXCEPT ![c] = [st |-> "up", link |-> i]]
    BY <1>12 DEF OnConnect
  <2>2. attempt' = {} /\ UNCHANGED <<hd, tpc, cur, op, local>>
    BY <1>12 DEF OnConnect
  <2>3. /\ conns'[c].link = i /\ ~Live(c)
        /\ \A d \in Handles \ {c} : conns'[d] = conns[d]
    BY <1>t, <2>1 DEF TypeOK, Live
  <2>4. \A j \in Links : hd[j] # NoHandle => hd[j] \in Handles
    BY <1>t DEF TypeOK
  <2>5. LocalInv'
    BY <1>t, <2>2 DEF LocalInv
  <2>6. ConnectInv'
    BY <1>t, <2>1, <2>2, <2>3 DEF ConnectInv
  <2>7. OwnHandle'
    BY <1>t, <2>2, <2>3, <2>4 DEF OwnHandle, Live
  <2> QED BY <2>5, <2>6, <2>7
<1>13. CASE OnConnectFailed
  BY <1>13, <1>t DEF OnConnectFailed, LocalInv, ConnectInv, OwnHandle, Live, Early
<1>14. CASE OnGatt
  BY <1>14, <1>t DEF OnGatt, LocalInv, ConnectInv, OwnHandle, Live, Early
<1>15. ASSUME NEW c \in Handles, Broken(c) PROVE (LocalInv /\ ConnectInv /\ OwnHandle)'
  <2>1. /\ conns' = [conns EXCEPT ![c].st = "broken"] /\ Live(c)
        /\ UNCHANGED <<hd, tpc, cur, op, local, opConn, attempt>>
    BY <1>15 DEF Broken, Live
  <2>2. \A d \in Handles : conns'[d].link = conns[d].link /\ (Live(d)' <=> Live(d))
    BY <1>t, <2>1 DEF Live, TypeOK, Conn
  <2>3. /\ \A j \in Links : hd[j] # NoHandle => hd[j] \in Handles
        /\ opConn # NoHandle => opConn \in Handles
        /\ cur \in Links
    BY <1>t DEF TypeOK
  <2> QED BY <1>t, <2>1, <2>2, <2>3 DEF LocalInv, ConnectInv, OwnHandle, Early
<1>16. ASSUME NEW c \in Handles, OnDisconnect(c) PROVE (LocalInv /\ ConnectInv /\ OwnHandle)'
  <2>1. /\ conns' = [conns EXCEPT ![c].st = "none"]
        /\ hd' = [hd EXCEPT ![conns[c].link] = NoHandle]
        /\ UNCHANGED <<tpc, cur, op, local, opConn, attempt>>
    BY <1>16 DEF OnDisconnect
  <2>2. /\ \A d \in Handles : conns'[d].link = conns[d].link
        /\ \A d \in Handles \ {c} : conns'[d] = conns[d]
    BY <1>t, <2>1 DEF TypeOK, Conn
  <2>3. \A j \in Links : hd'[j] = IF j = conns[c].link THEN NoHandle ELSE hd[j]
    BY <1>t, <2>1 DEF TypeOK
  <2>4. /\ \A j \in Links : hd[j] # NoHandle => hd[j] \in Handles
        /\ opConn # NoHandle => opConn \in Handles
        /\ cur \in Links
    BY <1>t DEF TypeOK
  <2>5. LocalInv'
    BY <1>t, <2>1, <2>3, <2>4 DEF LocalInv
  <2>6. ConnectInv'
    BY <1>t, <2>1, <2>2, <2>3, <2>4 DEF ConnectInv, Early, Live
  <2>7. OwnHandle'
    BY <1>t, <2>1, <2>2, <2>3, <2>4 DEF OwnHandle, Live
  <2> QED BY <2>5, <2>6, <2>7
<1>17. CASE UNCHANGED vars
  BY <1>17, <1>t DEF vars, LocalInv, ConnectInv, OwnHandle, Live, Early
<1> QED BY <1>1, <1>2, <1>3, <1>4, <1>5, <1>6, <1>7, <1>8, <1>10, <1>11, <1>12, <1>13, <1>14,
           <1>15, <1>16, <1>17
        DEF Next, TaskStep, HostStep

\* A link that is not being set up holds the handle of a connection of its own or none,
\* whatever operations of others are taken for its own and in whatever order the host
\* reports.
THEOREM HandleIsOwn == Spec => []OwnHandle
<1>1. Inv /\ [Next]_vars => Inv'
  BY StepType, StepHandle DEF Inv
<1>2. Inv => OwnHandle
  BY DEF Inv
<1> QED BY <1>1, <1>2, InitInv, PTL DEF Spec

-----------------------------------------------------------------------------
(***************************************************************************)
(* Nothing is leaked.                                                      *)
(***************************************************************************)
AllOwned == \A c \in Handles : conns[c].st = "up" => Owned(c)

\* A link never has two connections at once.
OneEach ==
  \A c, d \in Handles : Live(c) /\ Live(d) /\ conns[c].link = conns[d].link => c = d

\* While a connect is under way nothing else can complete, and its link has no other
\* connection.
Alone ==
  /\ attempt # {} => Connecting
  /\ Connecting => pending = {}
  /\ attempt # {} => sem = 0 /\ \A c \in Handles : Live(c) => conns[c].link # cur

LeakInv == ~late => AllOwned /\ OneEach /\ Alone

LEMMA InitLeak == Init => LeakInv
  BY DEF Init, LeakInv, AllOwned, OneEach, Alone, Live, Connecting

\* A step that changes no connection, no handle of a link and no connect under way.
LEMMA LeakUnchanged ==
  ASSUME LeakInv, UNCHANGED <<hd, conns, attempt, cur>>, ~late' => ~late,
         ~Connecting, ~Connecting'
  PROVE  LeakInv'
  BY DEF LeakInv, AllOwned, OneEach, Alone, Live, Owned, Taking, Connecting

LEMMA StepLeak == Inv /\ LeakInv /\ [Next]_vars => LeakInv'
<1> SUFFICES ASSUME Inv, LeakInv, [Next]_vars PROVE LeakInv'
  OBVIOUS
<1>t. TypeOK /\ ConnectInv /\ OwnHandle
  BY DEF Inv
<1>n. NoHandle \notin Handles
  BY LinkAssumption
<1>h. /\ \A j \in Links : hd[j] # NoHandle => hd[j] \in Handles
      /\ opConn # NoHandle => opConn \in Handles
      /\ cur \in Links /\ sem \in {0, 1}
      /\ \A c \in Handles : conns[c].link \in Links
  BY <1>t DEF TypeOK, Conn
<1> USE DEF taskVars, opVars, hostVars, Connecting, SettingUp
<1>1. ASSUME NEW i \in Links, ConnectStart(i) PROVE LeakInv'
  <2> SUFFICES ASSUME ~late' PROVE (AllOwned /\ OneEach /\ Alone)'
    BY DEF LeakInv
  <2>1. /\ tpc = "idle" /\ hd[i] = NoHandle /\ sem' = 0 /\ cur' = i
        /\ UNCHANGED <<hd, conns, pending>>
        /\ ~late /\ attempt = {} /\ pending = {}
        /\ \A c \in Handles : conns[c].st \notin {"closing", "broken"}
        /\ \/ attempt' = attempt /\ tpc' = "idle"
           \/ attempt' = {i} /\ tpc' = "connecting"
    BY <1>1 DEF ConnectStart, LeftBehind
  <2>2. \A c \in Handles : Live(c) => conns[c].st = "up" /\ hd[conns[c].link] = c
    BY <2>1 DEF LeakInv, AllOwned, Owned, Taking, Live
  <2>3. \A c \in Handles : Live(c) => conns[c].link # i
    BY <1>n, <2>1, <2>2
  <2>4. AllOwned' /\ OneEach'
    BY <2>1, <2>2 DEF LeakInv, AllOwned, OneEach, Owned, Taking, Live
  <2> QED BY <2>1, <2>3, <2>4 DEF Alone, Live
<1>2. CASE ConnectTake
  <2> SUFFICES ASSUME ~late' PROVE (AllOwned /\ OneEach /\ Alone)'
    BY DEF LeakInv
  <2>1. /\ tpc = "connecting" /\ sem = 1 /\ tpc' \in {"setup", "idle"}
        /\ UNCHANGED <<cur, conns, attempt>> /\ ~late
        /\ \/ hd' = [hd EXCEPT ![cur] = opConn] /\ rc
           \/ UNCHANGED hd /\ ~rc
    BY <1>2 DEF ConnectTake
  <2>2. attempt = {} /\ hd[cur] = NoHandle
    BY <1>t, <2>1 DEF LeakInv, Alone, ConnectInv
  <2>3. ASSUME NEW c \in Handles, conns[c].st = "up" PROVE hd'[conns[c].link] = c
    <3>1. Owned(c)
      BY <2>1, <2>3 DEF LeakInv, AllOwned
    <3>2. CASE hd[conns[c].link] = c
      BY <1>h, <1>n, <1>t, <2>1, <2>2, <3>2 DEF TypeOK
    <3>3. CASE Taking(c)
      <4>1. rc /\ opConn = c /\ conns[c].link = cur
        BY <1>t, <1>n, <2>1, <3>3 DEF Taking, ConnectInv
      <4> QED BY <1>h, <1>t, <2>1, <4>1 DEF TypeOK
    <3> QED BY <3>1, <3>2, <3>3 DEF Owned
  <2> QED BY <2>1, <2>2, <2>3 DEF LeakInv, AllOwned, OneEach, Alone, Owned, Live
<1>3. CASE ConnectTimeout
  <2>1. /\ tpc = "connecting" /\ tpc' = "cancelled"
        /\ UNCHANGED <<hd, conns, attempt, cur, sem, rc, opConn, pending, late>>
    BY <1>3 DEF ConnectTimeout
  <2> QED BY <2>1 DEF LeakInv, AllOwned, OneEach, Alone, Owned, Taking, Live
<1>4. CASE CancelTake
  <2> SUFFICES ASSUME ~late' PROVE (AllOwned /\ OneEach /\ Alone)'
    BY DEF LeakInv
  <2>1. /\ tpc = "cancelled" /\ sem = 1 /\ tpc' = "idle" /\ ~late
        /\ UNCHANGED <<hd, cur, attempt>>
        /\ conns' = IF rc THEN Terminated(opConn) ELSE conns
    BY <1>4 DEF CancelTake
  <2>2. attempt = {}
    BY <2>1 DEF LeakInv, Alone
  <2>3. \A c \in Handles : conns'[c].link = conns[c].link
    BY <1>t, <2>1, TerminatedKeeps
  <2>4. \A c \in Handles : Live(c)' => Live(c)
    BY <1>t, <2>1, TerminatedKeeps DEF Live
  <2>5. ASSUME NEW c \in Handles, conns'[c].st = "up" PROVE hd[conns[c].link] = c
    <3>1. conns[c].st = "up" /\ ~(rc /\ opConn = c)
      BY <1>t, <2>1, <2>5, TerminatedKeeps
    <3> QED BY <2>1, <3>1 DEF LeakInv, AllOwned, Owned, Taking
  <2>6. AllOwned'
    BY <2>1, <2>3, <2>5 DEF AllOwned, Owned
  <2>7. OneEach'
    BY <2>1, <2>3, <2>4 DEF LeakInv, OneEach
  <2> QED BY <2>1, <2>2, <2>6, <2>7 DEF Alone
<1>5. CASE CancelTimeout
  BY <1>5 DEF CancelTimeout, LeakInv
<1>6. CASE SetupStart \/ GattStart \/ GattTake \/ GattTimeout \/ Commit
  <2>1. /\ UNCHANGED <<hd, conns, attempt, cur, late>>
        /\ tpc \notin {"connecting", "cancelled"} /\ tpc' \notin {"connecting", "cancelled"}
    BY <1>6 DEF SetupStart, GattStart, GattTake, GattTimeout, GattFailed, Commit
  <2> QED BY <2>1, LeakUnchanged
<1>7. ASSUME NEW i \in Links, LinkDrop(i), tpc' = "idle",
             tpc \notin {"connecting", "cancelled"}
      PROVE  LeakInv'
  <2> SUFFICES ASSUME ~late' PROVE (AllOwned /\ OneEach /\ Alone)'
    BY DEF LeakInv
  <2>1. /\ hd' = [hd EXCEPT ![i] = NoHandle] /\ conns' = Terminated(hd[i])
        /\ UNCHANGED <<cur, attempt, pending>> /\ ~late
    BY <1>7 DEF LinkDrop
  <2>2. attempt = {}
    BY <1>7, <2>1 DEF LeakInv, Alone
  <2>3. \A c \in Handles : conns'[c].link = conns[c].link
    BY <1>t, <2>1, TerminatedKeeps
  <2>6. \A c \in Handles : Live(c)' => Live(c)
    BY <1>t, <2>1, TerminatedKeeps DEF Live
  <2>4. \A j \in Links : hd'[j] = IF j = i THEN NoHandle ELSE hd[j]
    BY <1>t, <2>1 DEF TypeOK
  <2>5. ASSUME NEW c \in Handles, conns'[c].st = "up" PROVE hd'[conns'[c].link] = c
    <3>1. conns[c].st = "up" /\ c # hd[i]
      BY <1>t, <2>1, <2>5, TerminatedKeeps
    <3>2. hd[conns[c].link] = c
      BY <1>7, <2>1, <3>1 DEF LeakInv, AllOwned, Owned, Taking
    <3> QED BY <1>h, <2>3, <2>4, <3>1, <3>2
  <2>7. AllOwned'
    BY <2>5 DEF AllOwned, Owned
  <2>8. OneEach'
    BY <2>1, <2>3, <2>6 DEF LeakInv, OneEach
  <2> QED BY <1>7, <2>1, <2>2, <2>7, <2>8 DEF Alone
<1>8. CASE SetupFailed
  BY <1>7, <1>8, <1>h DEF SetupFailed
<1>9. ASSUME NEW i \in Links, DropIdle(i) PROVE LeakInv'
  BY <1>7, <1>9 DEF DropIdle
<1>10. CASE OnConnect
  <2> SUFFICES ASSUME ~late' PROVE (AllOwned /\ OneEach /\ Alone)'
    BY DEF LeakInv
  <2>1. PICK i \in attempt, c \in Handles :
          /\ conns[c].st = "none" /\ opConn' = c
          /\ conns' = [conns EXCEPT ![c] = [st |-> "up", link |-> i]]
    BY <1>10 DEF OnConnect
  <2>2. attempt' = {} /\ sem' = 1 /\ rc' = TRUE /\ ~late
        /\ UNCHANGED <<hd, tpc, cur, pending>>
    BY <1>10 DEF OnConnect, Complete
  <2>3. /\ tpc \in {"connecting", "cancelled"} /\ pending = {} /\ sem = 0 /\ i = cur
        /\ \A d \in Handles : Live(d) => conns[d].link # cur
    BY <1>t, <2>1, <2>2 DEF LeakInv, Alone, ConnectInv
  <2>4. /\ conns'[c].link = i /\ ~Live(c)
        /\ \A d \in Handles \ {c} : conns'[d] = conns[d]
    BY <1>t, <2>1 DEF TypeOK, Live
  <2>5. Taking(c)'
    BY <2>1, <2>2, <2>3 DEF Taking
  <2>6. AllOwned'
    BY <2>2, <2>3, <2>4, <2>5 DEF LeakInv, AllOwned, Owned, Taking
  <2>7. OneEach'
    BY <2>2, <2>3, <2>4 DEF LeakInv, OneEach, Live
  <2> QED BY <2>2, <2>3, <2>6, <2>7 DEF Alone
<1>11. CASE OnConnectFailed
  <2> SUFFICES ASSUME ~late' PROVE (AllOwned /\ OneEach /\ Alone)'
    BY DEF LeakInv
  <2>1. /\ attempt # {} /\ attempt' = {} /\ ~late
        /\ UNCHANGED <<hd, tpc, cur, conns, pending>>
    BY <1>11 DEF OnConnectFailed
  <2>2. sem = 0 /\ (tpc \in {"connecting", "cancelled"} => pending = {})
    BY <2>1 DEF LeakInv, Alone
  <2> QED BY <2>1, <2>2 DEF LeakInv, AllOwned, OneEach, Alone, Owned, Taking, Live
<1>12. CASE OnGatt
  <2> SUFFICES ASSUME ~late' PROVE (AllOwned /\ OneEach /\ Alone)'
    BY DEF LeakInv
  <2>1. pending # {} /\ UNCHANGED <<hd, conns, attempt, cur, tpc, late>>
    BY <1>12 DEF OnGatt
  <2> QED BY <2>1, LeakUnchanged DEF LeakInv, Alone
<1>13. ASSUME NEW c \in Handles, Broken(c) PROVE LeakInv'
  <2> SUFFICES ASSUME ~late' PROVE (AllOwned /\ OneEach /\ Alone)'
    BY DEF LeakInv
  <2>1. /\ conns' = [conns EXCEPT ![c].st = "broken"] /\ Live(c) /\ ~late
        /\ pending' = {p \in pending : p.conn # c}
        /\ UNCHANGED <<hd, tpc, cur, opConn, attempt>>
        /\ pending' = pending => UNCHANGED <<sem, rc>>
    BY <1>13 DEF Broken, Live
  <2>2. \A d \in Handles : /\ conns'[d].link = conns[d].link
                          /\ conns'[d].st = "up" => conns[d].st = "up"
    BY <1>t, <2>1 DEF TypeOK, Conn
  <2>4. \A d \in Handles : Live(d)' => Live(d)
    BY <1>t, <2>1 DEF Live, TypeOK, Conn
  <2>3. tpc \in {"connecting", "cancelled"} => pending' = {} /\ UNCHANGED <<sem, rc>>
    BY <2>1 DEF LeakInv, Alone
  <2>5. AllOwned'
    BY <2>1, <2>2, <2>3 DEF LeakInv, AllOwned, Owned, Taking
  <2>6. OneEach'
    BY <2>1, <2>2, <2>4 DEF LeakInv, OneEach
  <2> QED BY <2>1, <2>2, <2>3, <2>4, <2>5, <2>6 DEF LeakInv, Alone
<1>14. ASSUME NEW c \in Handles, OnDisconnect(c) PROVE LeakInv'
  <2> SUFFICES ASSUME ~late' PROVE (AllOwned /\ OneEach /\ Alone)'
    BY DEF LeakInv
  <2>1. /\ conns' = [conns EXCEPT ![c].st = "none"] /\ Live(c) /\ ~late
        /\ hd' = [hd EXCEPT ![conns[c].link] = NoHandle]
        /\ UNCHANGED <<tpc, cur, sem, rc, opConn, attempt, pending>>
    BY <1>14 DEF OnDisconnect, Live
  <2>2. /\ conns'[c].st = "none"
        /\ \A d \in Handles : conns'[d].link = conns[d].link
        /\ \A d \in Handles \ {c} : conns'[d] = conns[d]
    BY <1>t, <2>1 DEF TypeOK, Conn
  <2>3. \A j \in Links : hd'[j] = IF j = conns[c].link THEN NoHandle ELSE hd[j]
    BY <1>t, <2>1 DEF TypeOK
  <2>4. \A d \in Handles : Live(d)' => Live(d) /\ d # c
    BY <2>2 DEF Live
  <2>5. ASSUME NEW d \in Handles, conns'[d].st = "up" PROVE Owned(d)'
    <3>1. d # c /\ conns[d].st = "up" /\ Live(d)
      BY <2>2, <2>5 DEF Live
    <3>2. Owned(d) /\ conns[d].link # conns[c].link
      BY <2>1, <3>1 DEF LeakInv, AllOwned, OneEach
    <3> QED BY <1>h, <2>1, <2>2, <2>3, <3>2 DEF Owned, Taking
  <2> QED BY <2>1, <2>2, <2>4, <2>5 DEF LeakInv, AllOwned, OneEach, Alone
<1>15. CASE UNCHANGED vars
  BY <1>15 DEF vars, LeakInv, AllOwned, OneEach, Alone, Owned, Taking, Live
<1> QED BY <1>1, <1>2, <1>3, <1>4, <1>5, <1>6, <1>8, <1>9, <1>10, <1>11, <1>12, <1>13, <1>14,
           <1>15
        DEF Next, TaskStep, HostStep

\* However a connect, its cancellation and a disconnect race, the task can drop every
\* connection that is up, and the host attempts none behind its back - until it begins a
\* connect with something of an earlier one still to come.
THEOREM NoConnectionLeaks == Spec => []NoneLeaked
<1>1. Inv /\ [Next]_vars => Inv'
  BY StepType, StepHandle DEF Inv
<1>2. LeakInv => NoneLeaked
  BY DEF LeakInv, AllOwned, Alone, NoneLeaked, Connecting
<1> QED BY <1>1, <1>2, InitInv, InitLeak, StepLeak, PTL DEF Spec
=============================================================================
