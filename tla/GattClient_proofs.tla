------------------------- MODULE GattClient_proofs -------------------------
(***************************************************************************)
(* The two GATT clients: the explorer behind the console, and the poll of  *)
(* the BMS in the capture task.                                            *)
(*                                                                         *)
(* The explorer, for all devices, databases and numbers of procedures.     *)
(* OwnInv is about the one semaphore: while the console waits for a        *)
(* procedure that was started alone, what gives the semaphore is its own.  *)
(* OwnedInv and CurInv follow the link; TrueInv follows a discovery, list  *)
(* by list: what the tables hold and what the host has yet to report make  *)
(* up the database of the device.                                          *)
(*                                                                         *)
(* The poll, for all widths, MTUs, numbers of tries and of requests under  *)
(* way, and every width of the counter.  What was decided stays good until *)
(* it is acted upon: a width chosen for a connection fits it and decodes   *)
(* until the link is subscribed, the count and the width agree until the   *)
(* poll narrows, and a request that is being written is counted in         *)
(* poll_unanswered and not yet in left.                                    *)
(***************************************************************************)
EXTENDS BmsPoll, Explorer, SequenceTheorems, FiniteSetTheorems, TLAPS

-----------------------------------------------------------------------------
(***************************************************************************)
(* Explorer: types.                                                        *)
(***************************************************************************)
Ops == {"none", "scan", "connect", "svcs", "chrs", "dscs", "read", "write", "mtu", "sec"}

Entry == [svc : Nat, def : Nat, val : Nat, end : Int, cccd : Nat]

\* What a procedure may report.
Lists(o) ==
  IF o = "svcs" THEN Seq(Service) ELSE IF o = "chrs" THEN Seq(Characteristic) ELSE Seq(Nat)

Jobs ==
  {j \in [op : Ops, id : Nat, to : Peers,
          left : Seq(Service) \cup Seq(Characteristic) \cup Seq(Nat)] : j.left \in Lists(j.op)}

HostTypes ==
  /\ disc \in {"none", "explorer", "capture"} /\ attempt \in Peers \cup {None}
  /\ links \subseteq Peers /\ lost \in Peers \cup {None}

ConnTypes ==
  /\ connected \in BOOLEAN /\ connHandle \in Peers \cup {None}
  /\ ofPeer \in Peers \cup {None} /\ (connected => connHandle # None)

OpTypes ==
  /\ sem \in BOOLEAN /\ rc \in {"ok", "failed"} /\ res \in {"ok", "failed"}
  /\ pc \in {"idle", "start", "wait", "done"} /\ op \in Ops
  /\ target \in Nat /\ buf \in Nat /\ id \in Nat /\ by \in Nat

FlagTypes ==
  /\ clean \in BOOLEAN /\ torn \in BOOLEAN /\ sound \in BOOLEAN /\ gaveUp \in BOOLEAN
  /\ discovered \in BOOLEAN /\ capScan \in BOOLEAN /\ capMsg \in BOOLEAN

TableTypes ==
  /\ svcs \in Seq(Service) /\ table \in Seq(Entry) /\ svcIdx \in Nat /\ chrIdx \in Nat

\* A procedure under way is on a link that is up, and no two have the same number.
JobTypes ==
  /\ jobs \subseteq Jobs
  /\ \A j \in jobs : j.to \in links /\ j.id <= id
  /\ \A j, k \in jobs : j.id = k.id => j = k

\* Where the console task is in a discovery.
OpInv ==
  /\ op = "none" <=> pc = "idle"
  /\ op \in {"chrs", "dscs"} => svcIdx \in 1 .. Len(svcs)
  /\ op = "dscs" => chrIdx \in 1 .. Len(table)
  /\ op \in Discovery => discovered = FALSE

BlexTypes ==
  HostTypes /\ ConnTypes /\ OpTypes /\ FlagTypes /\ TableTypes /\ JobTypes /\ OpInv

-----------------------------------------------------------------------------
(***************************************************************************)
(* Explorer: the invariants.                                               *)
(***************************************************************************)

OwnedInv == ~gaveUp =>
  /\ \A p \in links : connected = TRUE /\ connHandle = p
  /\ lost # None => links = {}
  /\ attempt # None =>
       links = {} /\ sem = FALSE /\ disc # "explorer" /\ pc = "wait" /\ op = "connect"
  /\ pc = "start" /\ op = "connect" => connected = FALSE

\* The discovery that runs, and the one that was completed, is of the device connected.
CurInv ==
  /\ op \in Discovery /\ ~torn =>
       links # {} \/ (op = "svcs" /\ (pc = "start" \/ (pc = "done" /\ res = "failed")))
  /\ op \in Discovery /\ ~torn /\ ~gaveUp /\ links # {} => connHandle = ofPeer
  /\ discovered /\ ~torn => links # {} \/ lost # None
  /\ discovered /\ ~torn /\ ~gaveUp => connected = TRUE /\ connHandle = ofPeer

\* The job j is the procedure the console waits for.
Mine(j) ==
  /\ j.id = id /\ j.op = op
  /\ op = "read" => j.left = <<target>> \/ (j.left = <<>> /\ buf = target)

Alone ==
  /\ op = "scan" => jobs = {} /\ attempt = None
  /\ op = "connect" => jobs = {} /\ disc # "explorer"
  /\ op \notin {"scan", "connect"} =>
       attempt = None /\ disc # "explorer" /\ \A j \in jobs : Mine(j)

Had == Quiet /\ by = id

OwnInv ==
  /\ pc = "wait" /\ clean /\ sem => Had /\ (rc = "ok" /\ op = "read" => buf = target)
  /\ pc = "wait" /\ clean /\ ~sem => Alone
  /\ pc = "done" /\ clean /\ res = "ok" => Had /\ (op = "read" => buf = target)

SoundInv ==
  /\ sound /\ op \in Discovery /\ pc = "wait" => clean
  /\ sound => \A j \in jobs : j.op \in Discovery => pc = "wait" /\ op \in Discovery
  /\ sound /\ op = "svcs" => table = <<>> /\ (pc = "start" => svcs = <<>>)

\* Entry k of the table is the characteristic it should be.
Good(k) ==
  /\ k \in DOMAIN Gatt[ofPeer]
  /\ table[k].svc = Gatt[ofPeer][k].svc /\ table[k].def = Gatt[ofPeer][k].def
  /\ table[k].val = Gatt[ofPeer][k].val /\ table[k].cccd \in {Gatt[ofPeer][k].cccd, 0}

Succeeded == (pc = "wait" /\ sem /\ rc = "ok") \/ (pc = "done" /\ res = "ok")

SvcsInv ==
  /\ \A j \in jobs : pc = "wait" => svcs \o j.left = Services(ofPeer)
  /\ Succeeded => svcs = Services(ofPeer)

ChrsInv ==
  /\ pc = "start" => Len(table) \in Until(ofPeer, svcIdx - 1)
  /\ \A j \in jobs : pc = "wait" =>
       /\ Len(table) + Len(j.left) \in Until(ofPeer, svcIdx)
       /\ \A i \in DOMAIN j.left :
            j.left[i] = Gatt[ofPeer][Len(table) + i] /\ j.left[i].svc = svcIdx
  /\ Succeeded => Len(table) \in Until(ofPeer, svcIdx)

EndOf(k) == IF k < Len(table) THEN table[k + 1].def - 1 ELSE svcs[svcIdx].end

DscsInv ==
  /\ Len(table) \in Until(ofPeer, svcIdx)
  /\ \A k \in DOMAIN table : table[k].svc = svcIdx => table[k].end = EndOf(k)
  /\ table[chrIdx].svc = svcIdx
  /\ \A j \in jobs : pc = "wait" => \A i \in DOMAIN j.left : j.left[i] = Gatt[ofPeer][chrIdx].cccd

Counts == sound /\ ~torn /\ ~gaveUp

TrueInv == 
  /\ Counts /\ op = "svcs" => SvcsInv
  /\ Counts /\ (op \in {"chrs", "dscs"} \/ discovered) =>
       svcs = Services(ofPeer) /\ \A k \in DOMAIN table : Good(k)
  /\ Counts /\ op = "chrs" => ChrsInv
  /\ Counts /\ op = "dscs" => DscsInv
  /\ Counts /\ discovered => Len(table) = Len(Gatt[ofPeer])

-----------------------------------------------------------------------------
(***************************************************************************)
(* Explorer: what a procedure may report.                                  *)
(***************************************************************************)

LEMMA CccdsFinite ==
  ASSUME NEW p \in Peers, NEW from \in Nat, NEW to \in Int
  PROVE  Cccds(p, from, to) \subseteq Nat /\ Cardinality(Cccds(p, from, to)) \in Nat
<1> DEFINE S == Cccds(p, from, to)
<1>0. \A k \in DOMAIN Gatt[p] : Gatt[p][k].cccd \in Nat
  <2>1. Gatt[p] \in Seq(Characteristic)
    BY ExplorerAssumption
  <2>2. \A k \in DOMAIN Gatt[p] : Gatt[p][k] \in Characteristic
    BY <2>1
  <2> QED
    BY <2>2 DEF Characteristic
<1>1. S \subseteq Nat
  BY <1>0 DEF Cccds
<1>2. \A h \in S : h <= IF to > 0 THEN to ELSE 0
  BY <1>1 DEF Cccds
<1>3. IsFiniteSet(S)
  BY <1>1, <1>2, FS_BoundedSetOfNaturals
<1>4. Cardinality(S) \in Nat
  <2> HIDE DEF S
  <2> QED
    BY <1>3, FS_CardinalityType
<1> QED
  BY <1>1, <1>4

LEMMA UpwardsType ==
  ASSUME NEW S \in SUBSET Nat, Cardinality(S) \in Nat, NEW l \in Upwards(S)
  PROVE  l \in Seq(Nat) /\ \A i \in DOMAIN l : l[i] \in S
<1>1. l \in [1 .. Cardinality(S) -> S]
  BY DEF Upwards
<1> DEFINE n == Cardinality(S)
<1>2. l \in [1 .. n -> S] /\ n \in Nat
  BY <1>1
<1> HIDE DEF n
<1>3. l \in Seq(Nat) /\ DOMAIN l = 1 .. n
  <2>1. l \in [1 .. n -> Nat]
    BY <1>2
  <2> QED
    BY <1>2, <2>1
<1> QED
  BY <1>2, <1>3

LEMMA CharsType ==
  ASSUME NEW p \in Peers, NEW i \in Int, NEW l \in Chars(p, i)
  PROVE  /\ l \in Seq(Characteristic)
         /\ \E n \in Until(p, i - 1), m \in Until(p, i) :
              /\ Len(l) = (IF n <= m THEN m - n ELSE 0)
              /\ \A k \in 1 .. Len(l) : l[k] = Gatt[p][n + k]
<1>1. PICK n \in Until(p, i - 1), m \in Until(p, i) : l = SubSeq(Gatt[p], n + 1, m)
  BY DEF Chars
<1>0. n \in 0 .. Len(Gatt[p]) /\ m \in 0 .. Len(Gatt[p])
  BY DEF Until
<1>2. Gatt[p] \in Seq(Characteristic)
  BY ExplorerAssumption
<1>3. l \in Seq(Characteristic)
  BY <1>0, <1>1, <1>2
<1>4. Len(l) = IF n <= m THEN m - n ELSE 0
  BY <1>0, <1>1, <1>2
<1>5. ASSUME NEW k \in 1 .. Len(l) PROVE l[k] = Gatt[p][n + k]
  <2>1. n \in Int /\ m \in Int /\ k \in 1 .. m - n
    BY <1>0, <1>4
  <2>2. l[k] = Gatt[p][(n + 1) + k - 1] 
    BY <1>1, <2>1
  <2>3. (n + 1) + k - 1 = n + k
    BY <2>1
  <2> QED
    BY <2>2, <2>3
<1> QED
  BY <1>1, <1>3, <1>4, <1>5

LEMMA ServicesType ==
  ASSUME NEW p \in Peers
  PROVE  Services(p) \in Seq(Service) /\ Len(Services(p)) = Len(Ends[p])
<1>1. Ends[p] \in Seq(Nat)
  BY ExplorerAssumption
<1>2. Services(p) \in [1 .. Len(Ends[p]) -> Service]
  BY <1>1 DEF Services, Service
<1> QED
  BY <1>1, <1>2

LEMMA ReportsType ==
  ASSUME BlexTypes, op # "none", NEW p \in Peers, NEW l \in Reports(p)
  PROVE  l \in Lists(op) /\ l \in Seq(Service) \cup Seq(Characteristic) \cup Seq(Nat)
<1>1. CASE op = "svcs"
  BY <1>1, ServicesType DEF Reports, Lists
<1>2. CASE op = "chrs"
  <2>1. svcs[svcIdx].svc \in Int
    <3>1. svcs[svcIdx] \in Service
      BY <1>2 DEF BlexTypes, TableTypes, OpInv
    <3> QED
      BY <3>1 DEF Service
  <2>2. l \in Chars(p, svcs[svcIdx].svc)
    BY <1>2 DEF Reports
  <2> QED
    BY <1>2, <2>1, <2>2, CharsType DEF Lists
<1>3. CASE op = "dscs"
  <2>1. table[chrIdx] \in Entry
    BY <1>3 DEF BlexTypes, TableTypes, OpInv
  <2>2. table[chrIdx].val \in Nat /\ table[chrIdx].end \in Int
    BY <2>1 DEF Entry
  <2>3. l \in Upwards(Cccds(p, table[chrIdx].val, table[chrIdx].end))
    BY <1>3 DEF Reports
  <2> QED
    BY <1>3, <2>2, <2>3, CccdsFinite, UpwardsType DEF Lists
<1>4. CASE op \notin {"svcs", "chrs", "dscs"}
  <2>1. l = <<target>>
    BY <1>4 DEF Reports
  <2>2. target \in Nat
    BY DEF BlexTypes, OpTypes
  <2>3. l \in Seq(Nat)
    BY <2>1, <2>2
  <2> QED
    BY <1>4, <2>3 DEF Lists
<1> QED
  BY <1>1, <1>2, <1>3, <1>4

-----------------------------------------------------------------------------
LEMMA JobHead ==
  ASSUME NEW j \in Jobs, j.left # <<>>
  PROVE  /\ [j EXCEPT !.left = Tail(@)] \in Jobs
         /\ j.op = "svcs" => Head(j.left) \in Service
         /\ j.op = "chrs" => Head(j.left) \in Characteristic
         /\ j.op \notin {"svcs", "chrs"} => Head(j.left) \in Nat
<1> DEFINE e == [j EXCEPT !.left = Tail(@)]
<1>1. /\ j.op \in Ops /\ j.id \in Nat /\ j.to \in Peers
      /\ j.left \in Lists(j.op)
  BY DEF Jobs
<1>2. /\ e.op = j.op /\ e.id = j.id /\ e.to = j.to /\ e.left = Tail(j.left)
      /\ e = [op |-> j.op, id |-> j.id, to |-> j.to, left |-> Tail(j.left)]
  BY DEF Jobs
<1>3. CASE j.op = "svcs"
  <2>1. j.left \in Seq(Service)
    BY <1>1, <1>3 DEF Lists
  <2>2. Head(j.left) \in Service /\ Tail(j.left) \in Seq(Service)
    BY <2>1
  <2>3. e \in Jobs
    BY <1>1, <1>2, <1>3, <2>2 DEF Jobs, Lists
  <2> QED
    BY <1>3, <2>2, <2>3
<1>4. CASE j.op = "chrs"
  <2>1. j.left \in Seq(Characteristic)
    BY <1>1, <1>4 DEF Lists
  <2>2. Head(j.left) \in Characteristic /\ Tail(j.left) \in Seq(Characteristic)
    BY <2>1
  <2>3. e \in Jobs
    BY <1>1, <1>2, <1>4, <2>2 DEF Jobs, Lists
  <2> QED
    BY <1>4, <2>2, <2>3
<1>5. CASE j.op \notin {"svcs", "chrs"}
  <2>1. j.left \in Seq(Nat)
    BY <1>1, <1>5 DEF Lists
  <2>2. Head(j.left) \in Nat /\ Tail(j.left) \in Seq(Nat)
    BY <2>1
  <2>3. e \in Jobs
    BY <1>1, <1>2, <1>5, <2>2 DEF Jobs, Lists
  <2> QED
    BY <1>5, <2>2, <2>3
<1> QED
  BY <1>3, <1>4, <1>5

\* What Bounded makes of a table, entry by entry.
LEMMA BoundedFact ==
  ASSUME TableTypes, OpInv, op = "chrs"
  PROVE  /\ Bounded(table) \in Seq(Entry) /\ Len(Bounded(table)) = Len(table)
         /\ \A k \in 1 .. Len(table) :
              /\ Bounded(table)[k].svc = table[k].svc
              /\ Bounded(table)[k].def = table[k].def
              /\ Bounded(table)[k].val = table[k].val
              /\ Bounded(table)[k].cccd = table[k].cccd
              /\ table[k].svc = svcIdx =>
                   Bounded(table)[k].end =
                     IF k < Len(table) THEN table[k + 1].def - 1 ELSE svcs[svcIdx].end
<1> DEFINE b == Bounded(table)
           e(k) == IF k < Len(table) THEN table[k + 1].def - 1 ELSE svcs[svcIdx].end
<1>1. table \in Seq(Entry) /\ DOMAIN table = 1 .. Len(table) /\ Len(table) \in Nat
  BY DEF TableTypes
<1>2. svcIdx \in 1 .. Len(svcs) /\ svcs \in Seq(Service)
  BY DEF TableTypes, OpInv
<1>3. svcs[svcIdx].end \in Nat
  <2>1. svcs[svcIdx] \in Service
    BY <1>2
  <2> QED
    BY <2>1 DEF Service
<1>4. ASSUME NEW k \in 1 .. Len(table)
      PROVE  /\ b[k] = IF table[k].svc # svcIdx THEN table[k] ELSE [table[k] EXCEPT !.end = e(k)]
             /\ e(k) \in Int /\ table[k] \in Entry
  <2>1. b[k] = IF table[k].svc # svcIdx THEN table[k] ELSE [table[k] EXCEPT !.end = e(k)]
    BY <1>1 DEF Bounded
  <2>2. k < Len(table) => table[k + 1] \in Entry
    BY <1>1
  <2>3. e(k) \in Int
    BY <1>3, <2>2 DEF Entry
  <2> QED
    BY <1>1, <2>1, <2>3
<1>5. ASSUME NEW k \in 1 .. Len(table)
      PROVE  /\ b[k] \in Entry
             /\ b[k].svc = table[k].svc /\ b[k].def = table[k].def /\ b[k].val = table[k].val
             /\ b[k].cccd = table[k].cccd
             /\ table[k].svc = svcIdx => b[k].end = e(k)
  <2> HIDE DEF b, e
  <2>1. CASE table[k].svc # svcIdx
    BY <1>4, <2>1
  <2>2. CASE table[k].svc = svcIdx
    <3>1. b[k] = [table[k] EXCEPT !.end = e(k)]
      BY <1>4, <2>2
    <3> QED
      BY <1>4, <2>2, <3>1 DEF Entry
  <2> QED
    BY <2>1, <2>2
<1>6. DOMAIN b = 1 .. Len(table)
  BY <1>1 DEF Bounded
<1>7. b \in [1 .. Len(table) -> Entry]
  <2>1. b = [k \in 1 .. Len(table) |-> b[k]]
    BY <1>1 DEF Bounded
  <2> HIDE DEF b
  <2> QED
    BY <1>5, <2>1
<1>8. b \in Seq(Entry) /\ Len(b) = Len(table)
  <2> HIDE DEF b
  <2> QED
    BY <1>1, <1>6, <1>7
<1> QED
  BY <1>5, <1>8

\* Where the console goes on.
LEMMA ProceedFact ==
  ASSUME TableTypes, NEW t \in Seq(Entry), NEW k \in Nat \ {0}, Proceed(t, k),
         table' = t, UNCHANGED svcs, op \in Discovery, OpInv, OpTypes, FlagTypes,
         svcIdx \in 1 .. Len(svcs), UNCHANGED svcIdx \/ op' = "chrs"
  PROVE  OpInv' /\ svcIdx' \in Nat /\ chrIdx' \in Nat /\ pc' \in {"idle", "start"}
         /\ op' \in Ops /\ discovered' \in BOOLEAN
<1>1. CASE /\ Room(t, k) # {}
           /\ chrIdx' \in {c \in Room(t, k) : \A d \in Room(t, k) : c <= d}
           /\ op' = "dscs" /\ pc' = "start" /\ UNCHANGED <<svcIdx, discovered>>
  <2>1. chrIdx' \in 1 .. Len(t)
    BY <1>1 DEF Room
  <2> QED
    BY <1>1, <2>1 DEF OpInv, TableTypes, Ops, FlagTypes, Discovery
<1>2. CASE /\ svcIdx < Len(svcs) /\ svcIdx' = svcIdx + 1
           /\ op' = "chrs" /\ pc' = "start" /\ UNCHANGED <<chrIdx, discovered>>
  BY <1>2 DEF OpInv, TableTypes, Ops, FlagTypes, Discovery
<1>3. CASE discovered' = TRUE /\ op' = "none" /\ pc' = "idle" /\ UNCHANGED <<svcIdx, chrIdx>>
  BY <1>3 DEF OpInv, TableTypes, Ops, FlagTypes, Discovery
<1> QED
  BY <1>1, <1>2, <1>3 DEF Proceed

LEMMA AcceptedFact ==
  ASSUME BlexTypes, pc = "start", Accepted, id' = id + 1
  PROVE  HostTypes' /\ JobTypes'
<1> USE DEF BlexTypes, HostTypes, JobTypes
<1>0. \A j \in jobs : j.id \in Nat
  BY DEF Jobs
<1>1. CASE op = "scan"
  BY <1>0, <1>1 DEF Accepted, OpTypes
<1>2. CASE op = "connect"
  BY <1>0, <1>2 DEF Accepted, OpTypes
<1>3. CASE op \notin {"scan", "connect"}
  <2>1. PICK l \in Reports(connHandle) :
          jobs' = jobs \cup {[op |-> op, id |-> id', to |-> connHandle, left |-> l]}
    BY <1>3 DEF Accepted
  <2>2. connHandle \in links /\ UNCHANGED <<disc, attempt, links, lost>>
    BY <1>3 DEF Accepted
  <2>3. op # "none"
    BY DEF OpInv
  <2>4. connHandle \in Peers
    BY <2>2
  <2>5. l \in Lists(op) /\ l \in Seq(Service) \cup Seq(Characteristic) \cup Seq(Nat)
    BY <2>3, <2>4, ReportsType
  <2>6. op \in Ops /\ id \in Nat
    BY DEF OpTypes
  <2> DEFINE n == [op |-> op, id |-> id', to |-> connHandle, left |-> l]
  <2>7. n \in Jobs
    BY <2>4, <2>5, <2>6 DEF Jobs
  <2>8. n.id = id + 1 /\ n.to = connHandle
    OBVIOUS
  <2>9. jobs' = jobs \cup {n}
    BY <2>1
  <2>10. \A j \in jobs : j.id <= id /\ j.id \in Nat
    BY DEF Jobs
  <2> HIDE DEF n
  <2> QED
    BY <2>2, <2>6, <2>7, <2>8, <2>9, <2>10
<1> QED
  BY <1>1, <1>2, <1>3

\* What a report changes, by the kind of procedure.
LEMMA ReportFact ==
  ASSUME BlexTypes, NEW j \in jobs, Report(j)
  PROVE  TableTypes' /\ JobTypes' /\ OpInv' /\ buf' \in Nat
<1> DEFINE e == [j EXCEPT !.left = Tail(@)]
           x == Head(j.left)
<1>1. j \in Jobs /\ j.left # <<>> /\ j.to \in links /\ j.id <= id
  BY DEF BlexTypes, JobTypes, Report
<1>2. /\ e \in Jobs
      /\ j.op = "svcs" => x \in Service
      /\ j.op = "chrs" => x \in Characteristic
      /\ j.op \notin {"svcs", "chrs"} => x \in Nat
  BY <1>1, JobHead
<1>3. e.id = j.id /\ e.to = j.to
  BY <1>1 DEF Jobs
<1>4. /\ jobs' = (jobs \ {j}) \cup {e}
      /\ svcs' = IF j.op = "svcs" THEN Append(svcs, x) ELSE svcs
      /\ table' =
           CASE j.op = "chrs" ->
                  Append(table, [svc |-> svcIdx, def |-> x.def, val |-> x.val,
                                 end |-> 0, cccd |-> 0])
             [] j.op = "dscs" /\ chrIdx \in DOMAIN table ->
                  [table EXCEPT ![chrIdx].cccd = x]
             [] OTHER -> table
      /\ buf' = IF j.op = "read" THEN x ELSE buf
  BY DEF Report
<1>5. UNCHANGED <<links, id, svcIdx, chrIdx, discovered, op, pc>>
  BY DEF Report, consoleVars, history
<1> HIDE DEF e, x
<1>6. JobTypes'
  BY <1>1, <1>2, <1>3, <1>4, <1>5 DEF BlexTypes, JobTypes
<1>7. svcs \in Seq(Service) /\ table \in Seq(Entry) /\ svcIdx \in Nat /\ chrIdx \in Nat
  BY DEF BlexTypes, TableTypes
<1>8. svcs' \in Seq(Service) /\ Len(svcs') >= Len(svcs)
  BY <1>2, <1>4, <1>7
<1>9. table' \in Seq(Entry) /\ Len(table') >= Len(table)
  <2>1. CASE j.op = "chrs"
    <3> DEFINE n == [svc |-> svcIdx, def |-> x.def, val |-> x.val, end |-> 0, cccd |-> 0]
    <3>1. x.def \in Nat /\ x.val \in Nat
      BY <1>2, <2>1 DEF Characteristic
    <3>2. n \in Entry
      BY <1>7, <3>1 DEF Entry
    <3>3. table' = Append(table, n)
      BY <1>4, <2>1
    <3> HIDE DEF n
    <3> QED
      BY <1>7, <3>2, <3>3
  <2>2. CASE j.op = "dscs" /\ chrIdx \in DOMAIN table
    <3>1. x \in Nat
      BY <1>2, <2>2
    <3>2. table[chrIdx] \in Entry
      BY <1>7, <2>2
    <3> DEFINE n == [table[chrIdx] EXCEPT !.cccd = x]
    <3>3. n \in Entry
      BY <3>1, <3>2 DEF Entry
    <3>4. table' = [table EXCEPT ![chrIdx] = n]
      BY <1>4, <2>2
    <3> HIDE DEF n
    <3> QED
      BY <1>7, <2>2, <3>3, <3>4
  <2>3. CASE j.op # "chrs" /\ ~(j.op = "dscs" /\ chrIdx \in DOMAIN table)
    BY <1>4, <1>7, <2>3
  <2> QED
    BY <2>1, <2>2, <2>3
<1>10. OpInv'
  <2>1. Len(svcs) \in Nat /\ Len(table) \in Nat /\ Len(svcs') \in Nat /\ Len(table') \in Nat
    BY <1>7, <1>8, <1>9
  <2>2. /\ op = "none" <=> pc = "idle"
        /\ op \in {"chrs", "dscs"} => svcIdx \in 1 .. Len(svcs)
        /\ op = "dscs" => chrIdx \in 1 .. Len(table)
        /\ op \in Discovery => discovered = FALSE
    BY DEF BlexTypes, OpInv
  <2>3. op \in {"chrs", "dscs"} => svcIdx \in 1 .. Len(svcs')
    BY <1>7, <1>8, <2>1, <2>2
  <2>4. op = "dscs" => chrIdx \in 1 .. Len(table')
    BY <1>7, <1>9, <2>1, <2>2
  <2> QED
    BY <1>5, <2>2, <2>3, <2>4 DEF OpInv
<1>11. buf' \in Nat
  BY <1>2, <1>4 DEF BlexTypes, OpTypes
<1> QED
  BY <1>5, <1>6, <1>7, <1>8, <1>9, <1>10, <1>11 DEF TableTypes

LEMMA InitBlexTypes == BlexInit => BlexTypes
<1> SUFFICES ASSUME BlexInit PROVE BlexTypes
  OBVIOUS
<1>1. HostTypes /\ ConnTypes /\ OpTypes /\ FlagTypes
  BY DEF BlexInit, HostTypes, ConnTypes, OpTypes, FlagTypes, Ops
<1>2. TableTypes /\ JobTypes /\ OpInv
  BY DEF BlexInit, TableTypes, JobTypes, OpInv, Discovery
<1> QED
  BY <1>1, <1>2 DEF BlexTypes

LEMMA BlexTypesStep == BlexTypes /\ [BlexNext]_blexVars => BlexTypes'
<1> SUFFICES ASSUME BlexTypes, [BlexNext]_blexVars PROVE BlexTypes'
  OBVIOUS
<1> USE DEF BlexTypes
<1>1. CASE \E k \in Requests : Request(k)
  <2>0. PICK k \in Requests : Request(k)
    BY <1>1
  <2>1. HostTypes' /\ ConnTypes' /\ FlagTypes' /\ TableTypes' /\ JobTypes'
    BY <2>0
       DEF Request, hostVars, opVars, connVars, dbVars, capVars, history, HostTypes,
           ConnTypes, FlagTypes, TableTypes, JobTypes
  <2>01. target' \in Nat /\ k \in {"read", "write", "mtu", "sec"}
    <3>1. PICK p \in Peers : \E i \in DOMAIN Gatt[p] : target' = Gatt[p][i].val
      BY <2>0 DEF Request
    <3>0. PICK i \in DOMAIN Gatt[p] : target' = Gatt[p][i].val
      BY <3>1
    <3>2. Gatt[p] \in Seq(Characteristic)
      BY ExplorerAssumption
    <3>3. Gatt[p][i] \in Characteristic
      BY <3>0, <3>2
    <3> QED
      BY <2>0, <3>0, <3>3, ExplorerAssumption DEF Characteristic, Request
  <2>2. OpTypes'
    BY <2>0, <2>01
       DEF Request, hostVars, opVars, connVars, dbVars, capVars, history, OpTypes, Ops
  <2>3. OpInv'
    BY <2>0, <2>01
       DEF Request, hostVars, opVars, connVars, dbVars, capVars, history, OpInv, Discovery
  <2> QED
    BY <2>1, <2>2, <2>3
<1>2. CASE BlexDiscover
  <2>1. HostTypes' /\ JobTypes'
    BY <1>2 DEF BlexDiscover, hostVars, opVars, connVars, capVars, HostTypes, JobTypes
  <2>2. ConnTypes'
    BY <1>2 DEF BlexDiscover, hostVars, opVars, connVars, capVars, ConnTypes
  <2>3. OpTypes'
    BY <1>2 DEF BlexDiscover, hostVars, opVars, connVars, capVars, OpTypes, Ops
  <2>4. FlagTypes'
    BY <1>2 DEF BlexDiscover, hostVars, opVars, connVars, capVars, FlagTypes, Quiet
  <2>5. TableTypes'
    BY <1>2 DEF BlexDiscover, hostVars, opVars, connVars, capVars, TableTypes
  <2>6. OpInv'
    BY <1>2 DEF BlexDiscover, hostVars, opVars, connVars, capVars, OpInv, Discovery
  <2> QED
    BY <2>1, <2>2, <2>3, <2>4, <2>5, <2>6
<1>3. CASE BlexScan
  <2>1. HostTypes' /\ ConnTypes' /\ FlagTypes' /\ TableTypes' /\ JobTypes'
    BY <1>3
       DEF BlexScan, hostVars, opVars, connVars, dbVars, capVars, history, HostTypes,
           ConnTypes, FlagTypes, TableTypes, JobTypes
  <2>2. OpTypes'
    BY <1>3 DEF BlexScan, hostVars, opVars, connVars, dbVars, capVars, history, OpTypes, Ops
  <2>3. OpInv'
    BY <1>3
       DEF BlexScan, hostVars, opVars, connVars, dbVars, capVars, history, OpInv, Discovery
  <2> QED
    BY <2>1, <2>2, <2>3
<1>4. CASE BlexConnect
  <2>1. ConnTypes' /\ FlagTypes' /\ TableTypes' /\ JobTypes'
    BY <1>4
       DEF BlexConnect, opVars, connVars, dbVars, capVars, ConnTypes, FlagTypes,
           TableTypes, JobTypes
  <2>2. HostTypes'
    BY <1>4 DEF BlexConnect, opVars, connVars, dbVars, capVars, HostTypes
  <2>3. OpTypes'
    BY <1>4 DEF BlexConnect, opVars, connVars, dbVars, capVars, OpTypes, Ops
  <2>4. OpInv'
    BY <1>4 DEF BlexConnect, opVars, connVars, dbVars, capVars, OpInv, Discovery
  <2> QED
    BY <2>1, <2>2, <2>3, <2>4
<1>5. CASE Start
  <2>0. id' = id + 1 /\ pc = "start" /\ (UNCHANGED hostVars \/ Accepted)
    BY <1>5 DEF Start
  <2>00. HostTypes' /\ JobTypes'
    <3>1. CASE UNCHANGED hostVars
      <4>1. \A j \in jobs : j.id \in Nat
        BY DEF JobTypes, Jobs
      <4> QED
        BY <2>0, <3>1, <4>1 DEF hostVars, HostTypes, JobTypes, OpTypes
    <3> QED
      BY <2>0, <3>1, AcceptedFact
  <2>1. ConnTypes' /\ TableTypes'
    BY <1>5 DEF Start, connVars, dbVars, capVars, ConnTypes, TableTypes
  <2>2. OpTypes'
    <3>1. sem' = FALSE /\ UNCHANGED <<rc, op, target, by>>
      BY <1>5 DEF Start
    <3>2. buf' \in Nat /\ id' \in Nat
      BY <1>5 DEF Start, OpTypes
    <3>3. pc' \in {"wait", "done"} /\ res' \in {"ok", "failed"}
      BY <1>5 DEF Start, OpTypes
    <3> QED
      BY <3>1, <3>2, <3>3 DEF OpTypes
  <2>3. FlagTypes'
    BY <1>5, <2>00 DEF Start, connVars, dbVars, capVars, FlagTypes, Quiet
  <2>4. OpInv'
    BY <1>5, <2>00 DEF Start, connVars, dbVars, capVars, OpInv, Discovery
  <2> QED
    BY <2>1, <2>2, <2>3, <2>4, <2>00
<1>6. CASE Take
  <2>1. HostTypes' /\ ConnTypes' /\ FlagTypes' /\ TableTypes' /\ JobTypes'
    BY <1>6
       DEF Take, hostVars, connVars, dbVars, capVars, history, HostTypes, ConnTypes,
           FlagTypes, TableTypes, JobTypes
  <2>2. OpTypes'
    BY <1>6 DEF Take, hostVars, connVars, dbVars, capVars, history, OpTypes, Ops
  <2>3. OpInv'
    BY <1>6 DEF Take, hostVars, connVars, dbVars, capVars, history, OpInv, Discovery
  <2> QED
    BY <2>1, <2>2, <2>3
<1>7. CASE TimesOut
  <2>1. ConnTypes' /\ TableTypes' /\ JobTypes'
    BY <1>7 DEF TimesOut, opVars, connVars, dbVars, capVars, ConnTypes, TableTypes, JobTypes
  <2>2. HostTypes'
    BY <1>7 DEF TimesOut, opVars, connVars, dbVars, capVars, HostTypes
  <2>3. OpTypes'
    BY <1>7 DEF TimesOut, opVars, connVars, dbVars, capVars, OpTypes, Ops
  <2>4. FlagTypes'
    BY <1>7 DEF TimesOut, opVars, connVars, dbVars, capVars, FlagTypes
  <2>5. OpInv'
    BY <1>7 DEF TimesOut, opVars, connVars, dbVars, capVars, OpInv, Discovery
  <2> QED
    BY <2>1, <2>2, <2>3, <2>4, <2>5
<1>8. CASE Returns
  <2>1. HostTypes' /\ ConnTypes' /\ FlagTypes' /\ TableTypes' /\ JobTypes'
    BY <1>8
       DEF Returns, hostVars, opVars, connVars, dbVars, capVars, history, HostTypes,
           ConnTypes, FlagTypes, TableTypes, JobTypes
  <2>2. OpTypes'
    BY <1>8 DEF Returns, hostVars, opVars, connVars, dbVars, capVars, history, OpTypes, Ops
  <2>3. OpInv'
    BY <1>8
       DEF Returns, hostVars, opVars, connVars, dbVars, capVars, history, OpInv, Discovery
  <2> QED
    BY <2>1, <2>2, <2>3
<1>9. CASE HaveServices
  <2>1. HostTypes' /\ ConnTypes' /\ JobTypes'
    BY <1>9
       DEF HaveServices, hostVars, opVars, connVars, capVars, history, HostTypes,
           ConnTypes, JobTypes
  <2>2. OpTypes'
    BY <1>9 DEF HaveServices, hostVars, opVars, connVars, capVars, history, OpTypes, Ops
  <2>3. FlagTypes'
    BY <1>9 DEF HaveServices, hostVars, opVars, connVars, capVars, history, FlagTypes
  <2>4. TableTypes'
    BY <1>9 DEF HaveServices, hostVars, opVars, connVars, capVars, history, TableTypes
  <2>5. OpInv'
    BY <1>9
       DEF HaveServices, hostVars, opVars, connVars, capVars, history, OpInv, Discovery,
           TableTypes
  <2> QED
    BY <2>1, <2>2, <2>3, <2>4, <2>5
<1>10. CASE HaveCharacteristics
  <2>00. op = "chrs" /\ Bounded(table) \in Seq(Entry) /\ svcIdx \in 1 .. Len(svcs)
    BY <1>10, BoundedFact DEF HaveCharacteristics, OpInv, TableTypes
  <2>01. /\ table' = Bounded(table) /\ Proceed(Bounded(table), 1) /\ UNCHANGED svcs
    BY <1>10 DEF HaveCharacteristics
  <2>02. UNCHANGED svcIdx \/ op' = "chrs"
    BY <2>01 DEF Proceed
  <2>03. /\ OpInv' /\ svcIdx' \in Nat /\ chrIdx' \in Nat /\ pc' \in {"idle", "start"}
        /\ op' \in Ops /\ discovered' \in BOOLEAN
    BY <2>00, <2>01, <2>02, ProceedFact DEF Discovery
  <2>1. HostTypes' /\ ConnTypes' /\ JobTypes'
    BY <1>10
       DEF HaveCharacteristics, hostVars, opVars, connVars, capVars, history, HostTypes,
           ConnTypes, JobTypes
  <2>2. OpTypes'
    BY <1>10, <2>00, <2>01, <2>03
       DEF HaveCharacteristics, hostVars, opVars, connVars, capVars, history, OpTypes, Ops
  <2>3. FlagTypes'
    BY <1>10, <2>00, <2>01, <2>03
       DEF HaveCharacteristics, hostVars, opVars, connVars, capVars, history, FlagTypes
  <2>4. TableTypes'
    BY <1>10, <2>00, <2>01, <2>03
       DEF HaveCharacteristics, hostVars, opVars, connVars, capVars, history, TableTypes
  <2> QED
    BY <2>1, <2>2, <2>3, <2>4, <2>03
<1>11. CASE HaveDescriptors
  <2>00. op = "dscs" /\ table \in Seq(Entry) /\ svcIdx \in 1 .. Len(svcs) /\ chrIdx + 1 \in Nat \ {0}
    BY <1>11 DEF HaveDescriptors, OpInv, TableTypes
  <2>01. /\ table' = table /\ Proceed(table, chrIdx + 1) /\ UNCHANGED svcs
    BY <1>11 DEF HaveDescriptors
  <2>02. UNCHANGED svcIdx \/ op' = "chrs"
    BY <2>01 DEF Proceed
  <2>03. /\ OpInv' /\ svcIdx' \in Nat /\ chrIdx' \in Nat /\ pc' \in {"idle", "start"}
        /\ op' \in Ops /\ discovered' \in BOOLEAN
    BY <2>00, <2>01, <2>02, ProceedFact DEF Discovery
  <2>1. HostTypes' /\ ConnTypes' /\ JobTypes'
    BY <1>11
       DEF HaveDescriptors, hostVars, opVars, connVars, capVars, history, HostTypes,
           ConnTypes, JobTypes
  <2>2. OpTypes'
    BY <1>11, <2>00, <2>01, <2>03
       DEF HaveDescriptors, hostVars, opVars, connVars, capVars, history, OpTypes, Ops
  <2>3. FlagTypes'
    BY <1>11, <2>00, <2>01, <2>03
       DEF HaveDescriptors, hostVars, opVars, connVars, capVars, history, FlagTypes
  <2>4. TableTypes'
    BY <1>11, <2>00, <2>01, <2>03
       DEF HaveDescriptors, hostVars, opVars, connVars, capVars, history, TableTypes
  <2> QED
    BY <2>1, <2>2, <2>3, <2>4, <2>03
<1>12. CASE \E j \in jobs : Report(j)
  <2>0. PICK j \in jobs : Report(j)
    BY <1>12
  <2>00. TableTypes' /\ JobTypes' /\ OpInv' /\ buf' \in Nat
    BY <2>0, ReportFact
  <2>1. HostTypes' /\ ConnTypes' /\ FlagTypes'
    BY <2>0
       DEF Report, opVars, connVars, consoleVars, capVars, history, HostTypes, ConnTypes,
           FlagTypes
  <2>2. OpTypes'
    BY <2>0, <2>00 DEF Report, opVars, connVars, consoleVars, capVars, history, OpTypes, Ops
  <2> QED
    BY <2>1, <2>2, <2>00
<1>13. CASE \E j \in jobs : Complete(j)
  <2>0. PICK j \in jobs : Complete(j)
    BY <1>13
  <2>1. HostTypes' /\ ConnTypes' /\ FlagTypes' /\ TableTypes' /\ OpInv'
    BY <2>0
       DEF Complete, connVars, dbVars, consoleVars, capVars, HostTypes, ConnTypes,
           FlagTypes, TableTypes, OpInv
  <2>2. OpTypes'
    BY <2>0
       DEF Complete, connVars, dbVars, consoleVars, capVars, OpTypes, Ops, Give, JobTypes,
           Jobs
  <2>3. JobTypes'
    BY <2>0 DEF Complete, connVars, dbVars, consoleVars, capVars, JobTypes
  <2> QED
    BY <2>1, <2>2, <2>3
<1>14. CASE PeerPairs
  <2>1. HostTypes' /\ ConnTypes' /\ TableTypes' /\ JobTypes' /\ OpInv'
    BY <1>14
       DEF PeerPairs, hostVars, connVars, dbVars, consoleVars, capVars, HostTypes,
           ConnTypes, TableTypes, JobTypes, OpInv
  <2>2. OpTypes'
    BY <1>14
       DEF PeerPairs, hostVars, connVars, dbVars, consoleVars, capVars, OpTypes, Ops, Give
  <2>3. FlagTypes'
    BY <1>14 DEF PeerPairs, hostVars, connVars, dbVars, consoleVars, capVars, FlagTypes
  <2> QED
    BY <2>1, <2>2, <2>3
<1>15. CASE DiscComplete
  <2>1. ConnTypes' /\ FlagTypes' /\ TableTypes' /\ JobTypes' /\ OpInv'
    BY <1>15
       DEF DiscComplete, connVars, dbVars, consoleVars, capVars, ConnTypes, FlagTypes,
           TableTypes, JobTypes, OpInv
  <2>2. HostTypes'
    BY <1>15 DEF DiscComplete, connVars, dbVars, consoleVars, capVars, HostTypes
  <2>3. OpTypes'
    BY <1>15 DEF DiscComplete, connVars, dbVars, consoleVars, capVars, OpTypes, Ops, Give
  <2> QED
    BY <2>1, <2>2, <2>3
<1>16. CASE GapConnect
  <2>1. FlagTypes' /\ TableTypes' /\ OpInv'
    BY <1>16 DEF GapConnect, dbVars, consoleVars, capVars, FlagTypes, TableTypes, OpInv
  <2>2. HostTypes'
    BY <1>16 DEF GapConnect, dbVars, consoleVars, capVars, HostTypes
  <2>3. ConnTypes'
    BY <1>16 DEF GapConnect, dbVars, consoleVars, capVars, ConnTypes, HostTypes
  <2>4. OpTypes'
    <3>1. sem' = TRUE /\ rc' \in {"ok", "failed"} /\ by' \in {0, id}
      BY <1>16 DEF GapConnect, Give
    <3> QED
      BY <1>16, <3>1 DEF GapConnect, consoleVars, OpTypes
  <2>5. JobTypes'
    BY <1>16 DEF GapConnect, dbVars, consoleVars, capVars, JobTypes
  <2> QED
    BY <2>1, <2>2, <2>3, <2>4, <2>5
<1>17. CASE LinkLost
  <2>2. HostTypes'
    BY <1>17 DEF LinkLost, HostTypes, connVars, dbVars, consoleVars, capVars
  <2>3. ConnTypes'
    BY <1>17 DEF LinkLost, ConnTypes, connVars, dbVars, consoleVars, capVars
  <2>4. OpTypes'
    <3>1. /\ sem' \in BOOLEAN /\ rc' \in {"ok", "failed"}
          /\ by' = by \/ \E j \in jobs : by' = j.id
      BY <1>17 DEF LinkLost, Give, OpTypes
    <3>2. by' \in Nat
      BY <3>1 DEF JobTypes, Jobs, OpTypes
    <3> QED
      BY <1>17, <3>1, <3>2 DEF LinkLost, consoleVars, OpTypes
  <2>5. FlagTypes'
    BY <1>17 DEF LinkLost, FlagTypes, connVars, dbVars, consoleVars, capVars
  <2>6. TableTypes'
    BY <1>17 DEF LinkLost, TableTypes, connVars, dbVars, consoleVars, capVars
  <2>7. JobTypes'
    BY <1>17 DEF LinkLost, JobTypes, connVars, dbVars, consoleVars, capVars
  <2>8. OpInv'
    BY <1>17 DEF LinkLost, OpInv, Discovery, connVars, dbVars, consoleVars, capVars
  <2> QED
    BY <2>2, <2>3, <2>4, <2>5, <2>6, <2>7, <2>8
<1>18. CASE GapDisconnect
  <2>1. OpTypes' /\ TableTypes' /\ JobTypes'
    BY <1>18
       DEF GapDisconnect, opVars, consoleVars, capVars, history, OpTypes, TableTypes,
           JobTypes
  <2>2. HostTypes'
    BY <1>18 DEF GapDisconnect, opVars, consoleVars, capVars, history, HostTypes
  <2>3. ConnTypes'
    BY <1>18 DEF GapDisconnect, opVars, consoleVars, capVars, history, ConnTypes
  <2>4. FlagTypes'
    BY <1>18 DEF GapDisconnect, opVars, consoleVars, capVars, history, FlagTypes
  <2>5. OpInv'
    BY <1>18 DEF GapDisconnect, opVars, consoleVars, capVars, history, OpInv, Discovery
  <2> QED
    BY <2>1, <2>2, <2>3, <2>4, <2>5
<1>19. CASE CapScanStart
  <2>1. HostTypes' /\ ConnTypes' /\ OpTypes' /\ TableTypes' /\ JobTypes' /\ OpInv'
    BY <1>19
       DEF CapScanStart, hostVars, opVars, connVars, dbVars, consoleVars, history,
           HostTypes, ConnTypes, OpTypes, TableTypes, JobTypes, OpInv
  <2>2. FlagTypes'
    BY <1>19
       DEF CapScanStart, hostVars, opVars, connVars, dbVars, consoleVars, history, FlagTypes
  <2> QED
    BY <2>1, <2>2
<1>20. CASE CapScanBegin
  <2>1. ConnTypes' /\ OpTypes' /\ TableTypes' /\ JobTypes' /\ OpInv'
    BY <1>20
       DEF CapScanBegin, opVars, connVars, dbVars, consoleVars, ConnTypes, OpTypes,
           TableTypes, JobTypes, OpInv
  <2>2. HostTypes'
    BY <1>20 DEF CapScanBegin, opVars, connVars, dbVars, consoleVars, HostTypes
  <2>3. FlagTypes'
    BY <1>20 DEF CapScanBegin, opVars, connVars, dbVars, consoleVars, FlagTypes
  <2> QED
    BY <2>1, <2>2, <2>3
<1>21. CASE CapScanEnd
  <2>1. ConnTypes' /\ OpTypes' /\ TableTypes' /\ JobTypes' /\ OpInv'
    BY <1>21
       DEF CapScanEnd, opVars, connVars, dbVars, consoleVars, ConnTypes, OpTypes,
           TableTypes, JobTypes, OpInv
  <2>2. HostTypes'
    BY <1>21 DEF CapScanEnd, opVars, connVars, dbVars, consoleVars, HostTypes
  <2>3. FlagTypes'
    BY <1>21 DEF CapScanEnd, opVars, connVars, dbVars, consoleVars, FlagTypes
  <2> QED
    BY <2>1, <2>2, <2>3
<1>22. CASE CapDiscComplete
  <2>1. ConnTypes' /\ OpTypes' /\ TableTypes' /\ JobTypes' /\ OpInv'
    BY <1>22
       DEF CapDiscComplete, opVars, connVars, dbVars, consoleVars, ConnTypes, OpTypes,
           TableTypes, JobTypes, OpInv
  <2>2. HostTypes'
    BY <1>22 DEF CapDiscComplete, opVars, connVars, dbVars, consoleVars, HostTypes
  <2>3. FlagTypes'
    BY <1>22 DEF CapDiscComplete, opVars, connVars, dbVars, consoleVars, FlagTypes
  <2> QED
    BY <2>1, <2>2, <2>3
<1>23. CASE UNCHANGED blexVars
  BY <1>23
     DEF blexVars, hostVars, opVars, connVars, dbVars, consoleVars, capVars, history,
         HostTypes, ConnTypes, OpTypes, FlagTypes, TableTypes, JobTypes, OpInv
<1> QED
  BY <1>1, <1>2, <1>3, <1>4, <1>5, <1>6, <1>7, <1>8, <1>9, <1>10, <1>11, <1>12, <1>13,
     <1>14, <1>15, <1>16, <1>17, <1>18, <1>19, <1>20, <1>21, <1>22, <1>23
     DEF BlexNext, Console, Host, CaptureTask


LEMMA OwnedStep == BlexTypes /\ OwnedInv /\ [BlexNext]_blexVars => OwnedInv'
<1> SUFFICES ASSUME BlexTypes, OwnedInv, [BlexNext]_blexVars PROVE OwnedInv'
  OBVIOUS
<1>1. CASE \E k \in Requests : Request(k)
  <2>1. PICK k \in Requests : Request(k)
    BY <1>1
  <2>2. op' # "connect"
    BY <2>1, ExplorerAssumption DEF Request
  <2> QED
    BY <2>1, <2>2 DEF Request, hostVars, opVars, connVars, history, OwnedInv
<1>2. CASE BlexDiscover
  BY <1>2
     DEF BlexDiscover, hostVars, opVars, connVars, capVars, OwnedInv, BlexTypes, HostTypes
<1>3. CASE BlexScan
  BY <1>3
     DEF BlexScan, hostVars, opVars, connVars, dbVars, capVars, history, OwnedInv,
         BlexTypes, HostTypes
<1>4. CASE BlexConnect
  BY <1>4 DEF BlexConnect, opVars, connVars, dbVars, capVars, OwnedInv, BlexTypes, HostTypes
<1>5. CASE Start
  <2>1. /\ pc = "start" /\ sem' = FALSE /\ UNCHANGED <<connected, connHandle, op>>
        /\ gaveUp' = (gaveUp /\ (attempt # None \/ links # {} \/ lost # None))
        /\ (Accepted /\ pc' = "wait") \/ (pc' = "done" /\ UNCHANGED <<disc, attempt, links, lost>>)
    BY <1>5 DEF Start, connVars, hostVars
  <2>2. SUFFICES ASSUME ~gaveUp'
        PROVE  /\ \A p \in links' : connected' = TRUE /\ connHandle' = p
               /\ lost' # None => links' = {}
               /\ attempt' # None =>
                    links' = {} /\ sem' = FALSE /\ disc' # "explorer" /\ pc' = "wait" /\ op' = "connect"
               /\ pc' = "start" /\ op' = "connect" => connected' = FALSE
    BY DEF OwnedInv
  <2>3. /\ \A p \in links : connected = TRUE /\ connHandle = p
        /\ lost # None => links = {}
        /\ attempt = None
        /\ op = "connect" => links = {}
    <3>1. CASE ~gaveUp
      BY <2>1, <3>1 DEF OwnedInv
    <3>2. CASE attempt = None /\ links = {} /\ lost = None
      BY <3>2
    <3> QED
      BY <2>1, <2>2, <3>1, <3>2
  <2>4. CASE pc' = "done" /\ UNCHANGED <<disc, attempt, links, lost>>
    BY <2>1, <2>3, <2>4
  <2>5. CASE Accepted /\ pc' = "wait"
    <3>1. CASE op = "connect"
      BY <2>1, <2>3, <2>5, <3>1 DEF Accepted
    <3>2. CASE op # "connect"
      <4>1. UNCHANGED <<attempt, links, lost>>
        BY <2>5, <3>2 DEF Accepted
      <4> QED
        BY <2>1, <2>3, <2>5, <4>1
    <3> QED
      BY <3>1, <3>2
  <2> QED
    BY <2>1, <2>4, <2>5
<1>6. CASE Take
  BY <1>6
     DEF Take, hostVars, connVars, dbVars, capVars, history, OwnedInv, BlexTypes, HostTypes
<1>7. CASE TimesOut
  BY <1>7 DEF TimesOut, opVars, connVars, dbVars, capVars, OwnedInv, BlexTypes, HostTypes
<1>8. CASE Returns
  BY <1>8
     DEF Returns, hostVars, opVars, connVars, dbVars, capVars, history, OwnedInv,
         BlexTypes, HostTypes
<1>9. CASE HaveServices
  BY <1>9
     DEF HaveServices, hostVars, opVars, connVars, capVars, history, OwnedInv, BlexTypes,
         HostTypes
<1>10. CASE HaveCharacteristics
  BY <1>10
     DEF HaveCharacteristics, hostVars, opVars, connVars, capVars, history, OwnedInv,
         BlexTypes, HostTypes, Proceed
<1>11. CASE HaveDescriptors
  BY <1>11
     DEF HaveDescriptors, hostVars, opVars, connVars, capVars, history, OwnedInv,
         BlexTypes, HostTypes, Proceed
<1>12. CASE \E j \in jobs : Report(j)
  BY <1>12
     DEF Report, opVars, connVars, consoleVars, capVars, history, OwnedInv, BlexTypes,
         HostTypes, JobTypes
<1>13. CASE \E j \in jobs : Complete(j)
  BY <1>13
     DEF Complete, connVars, dbVars, consoleVars, capVars, OwnedInv, BlexTypes, HostTypes,
         JobTypes, Give
<1>14. CASE PeerPairs
  BY <1>14
     DEF PeerPairs, hostVars, connVars, dbVars, consoleVars, capVars, OwnedInv, BlexTypes,
         HostTypes, Give
<1>15. CASE DiscComplete
  BY <1>15
     DEF DiscComplete, connVars, dbVars, consoleVars, capVars, OwnedInv, BlexTypes,
         HostTypes, Give
<1>16. CASE GapConnect
  BY <1>16
     DEF GapConnect, dbVars, consoleVars, capVars, OwnedInv, BlexTypes, HostTypes, Give
<1>17. CASE LinkLost
  BY <1>17
     DEF LinkLost, connVars, dbVars, consoleVars, capVars, OwnedInv, BlexTypes, HostTypes,
         Give
<1>18. CASE GapDisconnect
  BY <1>18
     DEF GapDisconnect, opVars, consoleVars, capVars, history, OwnedInv, BlexTypes,
         HostTypes
<1>19. CASE CapScanStart
  BY <1>19
     DEF CapScanStart, hostVars, opVars, connVars, dbVars, consoleVars, history, OwnedInv,
         BlexTypes, HostTypes
<1>20. CASE CapScanBegin
  BY <1>20
     DEF CapScanBegin, opVars, connVars, dbVars, consoleVars, OwnedInv, BlexTypes, HostTypes
<1>21. CASE CapScanEnd
  BY <1>21
     DEF CapScanEnd, opVars, connVars, dbVars, consoleVars, OwnedInv, BlexTypes, HostTypes
<1>22. CASE CapDiscComplete
  BY <1>22
     DEF CapDiscComplete, opVars, connVars, dbVars, consoleVars, OwnedInv, BlexTypes,
         HostTypes
<1>23. CASE UNCHANGED blexVars
  BY <1>23
     DEF blexVars, hostVars, opVars, connVars, dbVars, consoleVars, capVars, history,
         OwnedInv, BlexTypes, HostTypes
<1> QED
  BY <1>1, <1>2, <1>3, <1>4, <1>5, <1>6, <1>7, <1>8, <1>9, <1>10, <1>11, <1>12, <1>13,
     <1>14, <1>15, <1>16, <1>17, <1>18, <1>19, <1>20, <1>21, <1>22, <1>23
     DEF BlexNext, Console, Host, CaptureTask

LEMMA CurStep == BlexTypes /\ OwnedInv /\ CurInv /\ [BlexNext]_blexVars => CurInv'
<1> SUFFICES ASSUME BlexTypes, OwnedInv, CurInv, [BlexNext]_blexVars PROVE CurInv'
  OBVIOUS
<1>1. CASE \E k \in Requests : Request(k)
  <2>1. PICK k \in Requests : Request(k)
    BY <1>1
  <2>2. op' \notin Discovery
    BY <2>1, ExplorerAssumption DEF Request, Discovery
  <2> QED
    BY <2>1, <2>2 DEF Request, hostVars, connVars, dbVars, history, CurInv
<1>2. CASE BlexDiscover
  BY <1>2
     DEF BlexDiscover, hostVars, opVars, connVars, capVars, CurInv, OwnedInv, BlexTypes,
         HostTypes, OpInv, Discovery
<1>3. CASE BlexScan
  BY <1>3
     DEF BlexScan, hostVars, opVars, connVars, dbVars, capVars, history, CurInv, OwnedInv,
         BlexTypes, HostTypes, OpInv, Discovery
<1>4. CASE BlexConnect
  BY <1>4
     DEF BlexConnect, opVars, connVars, dbVars, capVars, CurInv, OwnedInv, BlexTypes,
         HostTypes, OpInv, Discovery
<1>5. CASE Start
  <2>1. /\ pc = "start" /\ UNCHANGED <<connected, connHandle, op, discovered, torn, ofPeer>>
        /\ gaveUp' = (gaveUp /\ (attempt # None \/ links # {} \/ lost # None))
        /\ (Accepted /\ pc' = "wait") \/ (pc' = "done" /\ res' = "failed" /\ UNCHANGED links)
    BY <1>5 DEF Start, connVars, dbVars, hostVars
  <2>2. op \in Discovery => UNCHANGED links /\ (pc' = "wait" => links # {})
    BY <2>1 DEF Accepted, Discovery
  <2>3. lost' = lost /\ (links = {} => op \in Discovery \/ lost' = lost)
    BY <1>5 DEF Start, Accepted, hostVars
  <2>4. links' = links
    BY <1>5 DEF Start, Accepted, hostVars
  <2>5. op \in Discovery /\ ~torn /\ links = {} => op = "svcs" /\ pc' = "done" /\ res' = "failed"
    BY <2>1, <2>2 DEF CurInv
  <2>6. gaveUp /\ ~gaveUp' => links = {} /\ lost = None
    BY <2>1
  <2> QED
    BY <2>1, <2>2, <2>3, <2>4, <2>5, <2>6 DEF CurInv, BlexTypes, OpInv, Discovery
<1>6. CASE Take
  BY <1>6
     DEF Take, hostVars, connVars, dbVars, capVars, history, CurInv, OwnedInv, BlexTypes,
         HostTypes, OpInv, Discovery
<1>7. CASE TimesOut
  BY <1>7
     DEF TimesOut, opVars, connVars, dbVars, capVars, CurInv, OwnedInv, BlexTypes,
         HostTypes, OpInv, Discovery
<1>8. CASE Returns
  BY <1>8
     DEF Returns, hostVars, opVars, connVars, dbVars, capVars, history, CurInv, OwnedInv,
         BlexTypes, HostTypes, OpInv, Discovery
<1>9. CASE HaveServices
  BY <1>9
     DEF HaveServices, hostVars, opVars, connVars, capVars, history, CurInv, OwnedInv,
         BlexTypes, HostTypes, OpInv, Discovery
<1>10. CASE HaveCharacteristics
  BY <1>10
     DEF HaveCharacteristics, hostVars, opVars, connVars, capVars, history, CurInv,
         OwnedInv, BlexTypes, HostTypes, OpInv, Discovery, Proceed
<1>11. CASE HaveDescriptors
  BY <1>11
     DEF HaveDescriptors, hostVars, opVars, connVars, capVars, history, CurInv, OwnedInv,
         BlexTypes, HostTypes, OpInv, Discovery, Proceed
<1>12. CASE \E j \in jobs : Report(j)
  BY <1>12
     DEF Report, opVars, connVars, consoleVars, capVars, history, CurInv, OwnedInv,
         BlexTypes, HostTypes, OpInv, Discovery, JobTypes
<1>13. CASE \E j \in jobs : Complete(j)
  BY <1>13
     DEF Complete, connVars, dbVars, consoleVars, capVars, CurInv, OwnedInv, BlexTypes,
         HostTypes, OpInv, Discovery, JobTypes, Give
<1>14. CASE PeerPairs
  BY <1>14
     DEF PeerPairs, hostVars, connVars, dbVars, consoleVars, capVars, CurInv, OwnedInv,
         BlexTypes, HostTypes, OpInv, Discovery, Give
<1>15. CASE DiscComplete
  BY <1>15
     DEF DiscComplete, connVars, dbVars, consoleVars, capVars, CurInv, OwnedInv,
         BlexTypes, HostTypes, OpInv, Discovery, Give
<1>16. CASE GapConnect
  BY <1>16
     DEF GapConnect, dbVars, consoleVars, capVars, CurInv, OwnedInv, BlexTypes, HostTypes,
         OpInv, Discovery, Give
<1>17. CASE LinkLost
  <2>1. PICK p \in links : lost' = p
    BY <1>17 DEF LinkLost
  <2>2. lost' # None
    BY <2>1, ExplorerAssumption DEF BlexTypes, HostTypes
  <2>3. op \in Discovery => torn'
    BY <1>17 DEF LinkLost
  <2>4. /\ torn' = torn \/ op \in Discovery
        /\ UNCHANGED <<op, discovered, connected, connHandle, ofPeer, gaveUp>>
    BY <1>17 DEF LinkLost, consoleVars, dbVars, connVars, BlexTypes, FlagTypes
  <2> QED
    BY <2>2, <2>3, <2>4 DEF CurInv, BlexTypes, OpInv, Discovery
<1>18. CASE GapDisconnect
  BY <1>18
     DEF GapDisconnect, opVars, consoleVars, capVars, history, CurInv, OwnedInv,
         BlexTypes, HostTypes, OpInv, Discovery
<1>19. CASE CapScanStart
  BY <1>19
     DEF CapScanStart, hostVars, opVars, connVars, dbVars, consoleVars, history, CurInv,
         OwnedInv, BlexTypes, HostTypes, OpInv, Discovery
<1>20. CASE CapScanBegin
  BY <1>20
     DEF CapScanBegin, opVars, connVars, dbVars, consoleVars, CurInv, OwnedInv, BlexTypes,
         HostTypes, OpInv, Discovery
<1>21. CASE CapScanEnd
  BY <1>21
     DEF CapScanEnd, opVars, connVars, dbVars, consoleVars, CurInv, OwnedInv, BlexTypes,
         HostTypes, OpInv, Discovery
<1>22. CASE CapDiscComplete
  BY <1>22
     DEF CapDiscComplete, opVars, connVars, dbVars, consoleVars, CurInv, OwnedInv,
         BlexTypes, HostTypes, OpInv, Discovery
<1>23. CASE UNCHANGED blexVars
  BY <1>23
     DEF blexVars, hostVars, opVars, connVars, dbVars, consoleVars, capVars, history,
         CurInv, OwnedInv, BlexTypes, HostTypes, OpInv, Discovery
<1> QED
  BY <1>1, <1>2, <1>3, <1>4, <1>5, <1>6, <1>7, <1>8, <1>9, <1>10, <1>11, <1>12, <1>13,
     <1>14, <1>15, <1>16, <1>17, <1>18, <1>19, <1>20, <1>21, <1>22, <1>23
     DEF BlexNext, Console, Host, CaptureTask

LEMMA OneMine ==
  ASSUME BlexTypes, NEW j \in jobs, \A k \in jobs : Mine(k)
  PROVE  jobs = {j}
BY DEF BlexTypes, JobTypes, Mine

LEMMA OwnStep == BlexTypes /\ OwnInv /\ [BlexNext]_blexVars => OwnInv'
<1> SUFFICES ASSUME BlexTypes, OwnInv, [BlexNext]_blexVars PROVE OwnInv'
  OBVIOUS
<1>1. CASE \E k \in Requests : Request(k)
  BY <1>1
     DEF Request, hostVars, opVars, connVars, dbVars, capVars, history, OwnInv, Had,
         Alone, Quiet, Mine
<1>2. CASE BlexDiscover
  BY <1>2
     DEF BlexDiscover, hostVars, opVars, connVars, capVars, OwnInv, Had, Alone, Quiet, Mine
<1>3. CASE BlexScan
  BY <1>3
     DEF BlexScan, hostVars, opVars, connVars, dbVars, capVars, history, OwnInv, Had,
         Alone, Quiet, Mine
<1>4. CASE BlexConnect
  BY <1>4
     DEF BlexConnect, opVars, connVars, dbVars, capVars, OwnInv, Had, Alone, Quiet, Mine
<1>5. CASE Start
  <2>1. /\ clean' = Quiet /\ sem' = FALSE /\ id' = id + 1 /\ op' = op /\ target' = target
        /\ pc = "start"
        /\ (Accepted /\ pc' = "wait") \/ (pc' = "done" /\ res' = "failed")
    BY <1>5 DEF Start
  <2>2. SUFFICES ASSUME pc' = "wait", clean', Accepted PROVE Alone'
    BY <2>1 DEF OwnInv
  <2>3. jobs = {} /\ attempt = None /\ disc # "explorer"
    BY <2>1, <2>2 DEF Quiet
  <2>4. CASE op = "scan"
    BY <2>1, <2>2, <2>3, <2>4 DEF Accepted, Alone
  <2>5. CASE op = "connect"
    BY <2>1, <2>2, <2>3, <2>5 DEF Accepted, Alone
  <2>6. CASE op \notin {"scan", "connect"}
    <3>1. PICK l \in Reports(connHandle) :
            jobs' = jobs \cup {[op |-> op, id |-> id', to |-> connHandle, left |-> l]}
      BY <2>2, <2>6 DEF Accepted
    <3>2. attempt' = None /\ disc' # "explorer"
      BY <2>2, <2>3, <2>6 DEF Accepted
    <3>3. op = "read" => l = <<target>>
      BY <3>1 DEF Reports
    <3>4. \A j \in jobs' : j.id = id' /\ j.op = op /\ j.left = l
      BY <2>3, <3>1
    <3>5. \A j \in jobs' : Mine(j)'
      BY <2>1, <3>3, <3>4 DEF Mine
    <3> QED
      BY <2>1, <2>6, <3>2, <3>5 DEF Alone
  <2> QED
    BY <2>4, <2>5, <2>6
<1>6. CASE Take
  BY <1>6
     DEF Take, hostVars, connVars, dbVars, capVars, history, OwnInv, Had, Alone, Quiet, Mine
<1>7. CASE TimesOut
  BY <1>7 DEF TimesOut, opVars, connVars, dbVars, capVars, OwnInv, Had, Alone, Quiet, Mine
<1>8. CASE Returns
  BY <1>8
     DEF Returns, hostVars, opVars, connVars, dbVars, capVars, history, OwnInv, Had,
         Alone, Quiet, Mine
<1>9. CASE HaveServices
  BY <1>9
     DEF HaveServices, hostVars, opVars, connVars, capVars, history, OwnInv, Had, Alone,
         Quiet, Mine
<1>10. CASE HaveCharacteristics
  BY <1>10
     DEF HaveCharacteristics, hostVars, opVars, connVars, capVars, history, OwnInv, Had,
         Alone, Quiet, Mine, Proceed
<1>11. CASE HaveDescriptors
  BY <1>11
     DEF HaveDescriptors, hostVars, opVars, connVars, capVars, history, OwnInv, Had,
         Alone, Quiet, Mine, Proceed
<1>12. CASE \E j \in jobs : Report(j)
  <2>1. PICK j \in jobs : Report(j)
    BY <1>12
  <2>2. UNCHANGED <<pc, sem, clean, res, id, op, target, attempt, disc>>
    BY <2>1 DEF Report, consoleVars, opVars, history
  <2>3. ~Quiet
    BY <2>1 DEF Quiet
  <2>4. SUFFICES ASSUME pc = "wait", clean, ~sem PROVE Alone'
    BY <2>2, <2>3 DEF OwnInv, Had
  <2>5. op \notin {"scan", "connect"} /\ attempt = None /\ disc # "explorer" /\ \A k \in jobs : Mine(k)
    BY <2>1, <2>4 DEF OwnInv, Alone
  <2>6. jobs = {j}
    BY <2>1, <2>5, OneMine
  <2> DEFINE e == [j EXCEPT !.left = Tail(@)]
  <2>7. jobs' = {e} /\ (buf' = IF j.op = "read" THEN Head(j.left) ELSE buf) /\ j.left # <<>>
    BY <2>1, <2>6 DEF Report
  <2>8. e.id = j.id /\ e.op = j.op /\ e.left = Tail(j.left)
    BY <2>1 DEF BlexTypes, JobTypes, Jobs
  <2>9. j.id = id /\ j.op = op /\ (op = "read" => j.left = <<target>>)
    BY <2>1, <2>5, <2>7 DEF Mine
  <2> HIDE DEF e
  <2>a. Head(<<target>>) = target /\ Tail(<<target>>) = <<>>
    OBVIOUS
  <2>10. op = "read" => e.left = <<>> /\ buf' = target
    BY <2>7, <2>8, <2>9, <2>a
  <2>11. Mine(e)'
    BY <2>2, <2>8, <2>9, <2>10 DEF Mine
  <2> QED
    BY <2>2, <2>5, <2>7, <2>11 DEF Alone
<1>13. CASE \E j \in jobs : Complete(j)
  <2>1. PICK j \in jobs : Complete(j)
    BY <1>13
  <2>2. UNCHANGED <<pc, clean, res, id, op, target, attempt, disc, buf>>
    BY <2>1 DEF Complete, consoleVars, history
  <2>3. ~Quiet
    BY <2>1 DEF Quiet
  <2>4. SUFFICES ASSUME pc = "wait", clean, ~sem
        PROVE  sem' /\ Had' /\ (rc' = "ok" /\ op = "read" => buf = target)
    BY <2>2, <2>3 DEF OwnInv, Had
  <2>5. op \notin {"scan", "connect"} /\ attempt = None /\ disc # "explorer" /\ \A k \in jobs : Mine(k)
    BY <2>1, <2>4 DEF OwnInv, Alone
  <2>6. jobs = {j}
    BY <2>1, <2>5, OneMine
  <2>7. jobs' = {} /\ sem' /\ by' = id
    BY <2>1, <2>5, <2>6 DEF Complete, Give, Mine
  <2>8. rc' = "ok" /\ op = "read" => buf = target
    BY <2>1, <2>5 DEF Complete, Give, Mine
  <2> QED
    BY <2>2, <2>5, <2>7, <2>8 DEF Had, Quiet
<1>14. CASE PeerPairs
  BY <1>14
     DEF PeerPairs, hostVars, connVars, dbVars, consoleVars, capVars, OwnInv, Had, Alone,
         Quiet, Mine, Give
<1>15. CASE DiscComplete
  BY <1>15
     DEF DiscComplete, connVars, dbVars, consoleVars, capVars, OwnInv, Had, Alone, Quiet,
         Mine, Give
<1>16. CASE GapConnect
  BY <1>16
     DEF GapConnect, dbVars, consoleVars, capVars, OwnInv, Had, Alone, Quiet, Mine, Give
<1>17. CASE LinkLost
  <2>1. \/ jobs' = jobs /\ UNCHANGED <<sem, rc, by>>
        \/ jobs' \subseteq jobs /\ \E j \in jobs \ jobs' : Give("failed", j.id)
    BY <1>17 DEF LinkLost
  <2>2. UNCHANGED <<pc, clean, res, id, op, target, attempt, disc, buf>>
    BY <1>17 DEF LinkLost, consoleVars
  <2>3. CASE jobs' = jobs /\ UNCHANGED <<sem, rc, by>>
    BY <2>2, <2>3 DEF OwnInv, Had, Quiet, Alone, Mine
  <2>4. CASE jobs' \subseteq jobs /\ \E j \in jobs \ jobs' : Give("failed", j.id)
    <3>1. PICK j \in jobs \ jobs' : Give("failed", j.id)
      BY <2>4
    <3>2. ~Quiet
      BY <3>1 DEF Quiet
    <3>3. SUFFICES ASSUME pc = "wait", clean, ~sem PROVE sem' /\ Had' /\ rc' # "ok"
      BY <2>2, <3>2 DEF OwnInv, Had
    <3>4. op \notin {"scan", "connect"} /\ attempt = None /\ disc # "explorer" /\ \A k \in jobs : Mine(k)
      BY <3>1, <3>3 DEF OwnInv, Alone
    <3>5. jobs = {j}
      BY <3>1, <3>4, OneMine
    <3>6. sem' /\ by' = id /\ rc' = "failed"
      BY <3>1, <3>4 DEF Give, Mine
    <3>7. jobs' = {}
      BY <2>4, <3>1, <3>5
    <3> QED
      BY <2>2, <3>4, <3>6, <3>7 DEF Had, Quiet
  <2> QED
    BY <2>1, <2>3, <2>4
<1>18. CASE GapDisconnect
  BY <1>18
     DEF GapDisconnect, opVars, consoleVars, capVars, history, OwnInv, Had, Alone, Quiet,
         Mine
<1>19. CASE CapScanStart
  BY <1>19
     DEF CapScanStart, hostVars, opVars, connVars, dbVars, consoleVars, history, OwnInv,
         Had, Alone, Quiet, Mine
<1>20. CASE CapScanBegin
  BY <1>20
     DEF CapScanBegin, opVars, connVars, dbVars, consoleVars, OwnInv, Had, Alone, Quiet,
         Mine
<1>21. CASE CapScanEnd
  BY <1>21
     DEF CapScanEnd, opVars, connVars, dbVars, consoleVars, OwnInv, Had, Alone, Quiet, Mine
<1>22. CASE CapDiscComplete
  BY <1>22
     DEF CapDiscComplete, opVars, connVars, dbVars, consoleVars, OwnInv, Had, Alone,
         Quiet, Mine
<1>23. CASE UNCHANGED blexVars
  BY <1>23
     DEF blexVars, hostVars, opVars, connVars, dbVars, consoleVars, capVars, history,
         OwnInv, Had, Alone, Quiet, Mine
<1> QED
  BY <1>1, <1>2, <1>3, <1>4, <1>5, <1>6, <1>7, <1>8, <1>9, <1>10, <1>11, <1>12, <1>13,
     <1>14, <1>15, <1>16, <1>17, <1>18, <1>19, <1>20, <1>21, <1>22, <1>23
     DEF BlexNext, Console, Host, CaptureTask


LEMMA SoundStep == BlexTypes /\ OwnInv /\ SoundInv /\ [BlexNext]_blexVars => SoundInv'
<1> SUFFICES ASSUME BlexTypes, OwnInv, SoundInv, [BlexNext]_blexVars PROVE SoundInv'
  OBVIOUS
<1>1. CASE \E k \in Requests : Request(k)
  <2>1. PICK k \in Requests : Request(k)
    BY <1>1
  <2>2. op' # "svcs" /\ pc = "idle" /\ pc' = "start" /\ UNCHANGED <<jobs, sound>>
    BY <2>1, ExplorerAssumption DEF Request, hostVars, history
  <2> QED
    BY <2>2 DEF SoundInv
<1>2. CASE BlexDiscover
  BY <1>2 DEF BlexDiscover, hostVars, opVars, connVars, capVars, SoundInv, Discovery, Quiet
<1>3. CASE BlexScan
  BY <1>3
     DEF BlexScan, hostVars, opVars, connVars, dbVars, capVars, history, SoundInv, Discovery
<1>4. CASE BlexConnect
  BY <1>4 DEF BlexConnect, opVars, connVars, dbVars, capVars, SoundInv, Discovery
<1>5. CASE Start
  <2>1. /\ clean' = Quiet /\ UNCHANGED <<op, svcs, table>>
        /\ sound' = IF op \in Discovery THEN sound /\ Quiet ELSE sound
        /\ pc = "start" /\ pc' \in {"wait", "done"}
        /\ (Accepted /\ pc' = "wait") \/ (pc' = "done" /\ UNCHANGED jobs)
    BY <1>5 DEF Start, dbVars, hostVars
  <2>2. sound' /\ op \in Discovery /\ pc' = "wait" => clean'
    BY <2>1
  <2>3. ASSUME sound', NEW j \in jobs', j.op \in Discovery
        PROVE  pc' = "wait" /\ op \in Discovery
    <3>1. j \notin jobs
      BY <2>1, <2>3 DEF SoundInv
    <3>2. Accepted /\ pc' = "wait" /\ jobs' # jobs
      BY <2>1, <2>3, <3>1
    <3>3. j.op = op
      BY <2>3, <3>1, <3>2 DEF Accepted
    <3> QED
      BY <2>3, <3>2, <3>3
  <2>4. sound' => sound
    BY <2>1
  <2> QED
    BY <2>1, <2>2, <2>3, <2>4 DEF SoundInv
<1>6. CASE Take
  <2>1. pc = "wait" /\ sem /\ pc' = "done" /\ UNCHANGED <<jobs, op, sound, svcs, table>>
    BY <1>6 DEF Take, hostVars, dbVars, history
  <2>2. sound /\ op \in Discovery => jobs = {}
    BY <2>1 DEF SoundInv, OwnInv, Had, Quiet
  <2> QED
    BY <2>1, <2>2 DEF SoundInv
<1>7. CASE TimesOut
  BY <1>7 DEF TimesOut, opVars, connVars, dbVars, capVars, SoundInv, Discovery
<1>8. CASE Returns
  BY <1>8
     DEF Returns, hostVars, opVars, connVars, dbVars, capVars, history, SoundInv, Discovery
<1>9. CASE HaveServices
  <2>1. pc = "done" /\ op' # "svcs" /\ pc' # "wait" /\ UNCHANGED <<jobs, sound>>
    BY <1>9 DEF HaveServices, Proceed, hostVars, history
  <2> QED
    BY <2>1 DEF SoundInv
<1>10. CASE HaveCharacteristics
  <2>1. pc = "done" /\ op' # "svcs" /\ pc' # "wait" /\ UNCHANGED <<jobs, sound>>
    BY <1>10 DEF HaveCharacteristics, Proceed, hostVars, history
  <2> QED
    BY <2>1 DEF SoundInv
<1>11. CASE HaveDescriptors
  <2>1. pc = "done" /\ op' # "svcs" /\ pc' # "wait" /\ UNCHANGED <<jobs, sound>>
    BY <1>11 DEF HaveDescriptors, Proceed, hostVars, history
  <2> QED
    BY <2>1 DEF SoundInv
<1>12. CASE \E j \in jobs : Report(j)
  <2>1. PICK j \in jobs : Report(j)
    BY <1>12
  <2>2. UNCHANGED <<pc, sem, clean, op, sound>>
    BY <2>1 DEF Report, consoleVars, opVars, history
  <2> DEFINE e == [j EXCEPT !.left = Tail(@)]
  <2>3. /\ jobs' = (jobs \ {j}) \cup {e}
        /\ j.op # "svcs" => svcs' = svcs
        /\ j.op \notin Discovery => table' = table
        /\ j.op = "svcs" => table' = table
    BY <2>1 DEF Report, Discovery
  <2>4. e.op = j.op
    BY <2>1 DEF BlexTypes, JobTypes, Jobs
  <2> HIDE DEF e
  <2>5. sound /\ op = "svcs" /\ j.op \in Discovery => j.op = "svcs" /\ pc = "wait"
    <3>1. SUFFICES ASSUME sound, op = "svcs", j.op \in Discovery PROVE j.op = "svcs" /\ pc = "wait"
      OBVIOUS
    <3>2. pc = "wait" /\ clean
      BY <2>1, <3>1 DEF SoundInv, Discovery
    <3>3. Mine(j)
      BY <2>1, <3>1, <3>2 DEF OwnInv, Had, Quiet, Alone
    <3> QED
      BY <3>1, <3>2, <3>3 DEF Mine
  <2>6. sound /\ op = "svcs" => table' = table
    BY <2>3, <2>5
  <2>7. sound /\ op = "svcs" /\ pc = "start" => svcs' = svcs
    BY <2>3, <2>5 DEF Discovery
  <2>8. sound => \A k \in jobs' : k.op \in Discovery => pc = "wait" /\ op \in Discovery
    BY <2>1, <2>3, <2>4 DEF SoundInv
  <2> QED
    BY <2>2, <2>6, <2>7, <2>8 DEF SoundInv
<1>13. CASE \E j \in jobs : Complete(j)
  BY <1>13 DEF Complete, connVars, dbVars, consoleVars, capVars, SoundInv, Discovery, Give
<1>14. CASE PeerPairs
  BY <1>14
     DEF PeerPairs, hostVars, connVars, dbVars, consoleVars, capVars, SoundInv, Discovery,
         Give
<1>15. CASE DiscComplete
  BY <1>15
     DEF DiscComplete, connVars, dbVars, consoleVars, capVars, SoundInv, Discovery, Give
<1>16. CASE GapConnect
  BY <1>16 DEF GapConnect, dbVars, consoleVars, capVars, SoundInv, Discovery, Give
<1>17. CASE LinkLost
  BY <1>17 DEF LinkLost, connVars, dbVars, consoleVars, capVars, SoundInv, Discovery, Give
<1>18. CASE GapDisconnect
  BY <1>18 DEF GapDisconnect, opVars, consoleVars, capVars, history, SoundInv, Discovery
<1>19. CASE CapScanStart
  BY <1>19
     DEF CapScanStart, hostVars, opVars, connVars, dbVars, consoleVars, history, SoundInv,
         Discovery
<1>20. CASE CapScanBegin
  BY <1>20 DEF CapScanBegin, opVars, connVars, dbVars, consoleVars, SoundInv, Discovery
<1>21. CASE CapScanEnd
  BY <1>21 DEF CapScanEnd, opVars, connVars, dbVars, consoleVars, SoundInv, Discovery
<1>22. CASE CapDiscComplete
  BY <1>22 DEF CapDiscComplete, opVars, connVars, dbVars, consoleVars, SoundInv, Discovery
<1>23. CASE UNCHANGED blexVars
  BY <1>23
     DEF blexVars, hostVars, opVars, connVars, dbVars, consoleVars, capVars, history,
         SoundInv, Discovery
<1> QED
  BY <1>1, <1>2, <1>3, <1>4, <1>5, <1>6, <1>7, <1>8, <1>9, <1>10, <1>11, <1>12, <1>13,
     <1>14, <1>15, <1>16, <1>17, <1>18, <1>19, <1>20, <1>21, <1>22, <1>23
     DEF BlexNext, Console, Host, CaptureTask


\* What is assumed of a device, handle by handle.
LEMMA GattFact ==
  ASSUME NEW p \in Peers
  PROVE  /\ Gatt[p] \in Seq(Characteristic) /\ Ends[p] \in Seq(Nat)
         /\ DOMAIN Gatt[p] = 1 .. Len(Gatt[p]) /\ Len(Gatt[p]) \in Nat
         /\ DOMAIN Ends[p] = 1 .. Len(Ends[p]) /\ Len(Ends[p]) \in Nat
         /\ \A k \in 1 .. Len(Gatt[p]) :
              /\ Gatt[p][k].svc \in 1 .. Len(Ends[p])
              /\ Gatt[p][k].def \in Nat /\ Gatt[p][k].val \in Nat /\ Gatt[p][k].cccd \in Nat
              /\ Gatt[p][k].def < Gatt[p][k].val
              /\ Gatt[p][k].cccd # 0 => Gatt[p][k].val < Gatt[p][k].cccd
              /\ \A i \in 1 .. Len(Ends[p]) : i < Gatt[p][k].svc => Ends[p][i] < Gatt[p][k].def
              /\ \A m \in 1 .. Len(Gatt[p]) : m < k =>
                   Gatt[p][m].val < Gatt[p][k].def /\ Gatt[p][m].cccd < Gatt[p][k].def
<1>1. Gatt[p] \in Seq(Characteristic) /\ Ends[p] \in Seq(Nat)
  BY ExplorerAssumption
<1>2. /\ DOMAIN Gatt[p] = 1 .. Len(Gatt[p]) /\ Len(Gatt[p]) \in Nat
      /\ DOMAIN Ends[p] = 1 .. Len(Ends[p]) /\ Len(Ends[p]) \in Nat
  BY <1>1
<1>3. ASSUME NEW k \in 1 .. Len(Gatt[p])
      PROVE  /\ Gatt[p][k].svc \in 1 .. Len(Ends[p])
             /\ Gatt[p][k].def < Gatt[p][k].val
             /\ Gatt[p][k].cccd # 0 => Gatt[p][k].val < Gatt[p][k].cccd
             /\ \A i \in 1 .. Len(Ends[p]) : i < Gatt[p][k].svc => Ends[p][i] < Gatt[p][k].def
             /\ \A m \in 1 .. Len(Gatt[p]) : m < k =>
                  Gatt[p][m].val < Gatt[p][k].def /\ Gatt[p][m].cccd < Gatt[p][k].def
  BY <1>2, ExplorerAssumption
<1>4. \A k \in 1 .. Len(Gatt[p]) :
        Gatt[p][k].def \in Nat /\ Gatt[p][k].val \in Nat /\ Gatt[p][k].cccd \in Nat
  <2>1. \A k \in 1 .. Len(Gatt[p]) : Gatt[p][k] \in Characteristic
    BY <1>1
  <2> QED
    BY <2>1 DEF Characteristic
<1> QED
  BY <1>1, <1>2, <1>3, <1>4

LEMMA UntilFact ==
  ASSUME NEW p \in Peers, NEW i \in Int, NEW n \in Until(p, i)
  PROVE  /\ n \in 0 .. Len(Gatt[p])
         /\ \A k \in 1 .. Len(Gatt[p]) : Gatt[p][k].svc <= i <=> k <= n
  BY GattFact DEF Until

\* The number is one.
LEMMA UntilOne ==
  ASSUME NEW p \in Peers, NEW i \in Int, NEW n \in Until(p, i), NEW m \in Until(p, i)
  PROVE  n = m
<1>1. /\ n \in 0 .. Len(Gatt[p]) /\ m \in 0 .. Len(Gatt[p]) /\ Len(Gatt[p]) \in Nat
      /\ \A k \in 1 .. Len(Gatt[p]) : k <= n <=> k <= m
  BY UntilFact, GattFact
<1>2. CASE n < m
  BY <1>1, <1>2
<1>3. CASE m < n
  BY <1>1, <1>3
<1> QED
  BY <1>1, <1>2, <1>3

\* The list of a service, when the table holds the services before it.
LEMMA CharsFollow ==
  ASSUME NEW p \in Peers, NEW i \in Int, NEW n \in Until(p, i - 1), NEW l \in Chars(p, i)
  PROVE  /\ Len(l) \in Nat /\ n + Len(l) \in Until(p, i)
         /\ \A k \in 1 .. Len(l) :
              n + k \in 1 .. Len(Gatt[p]) /\ l[k] = Gatt[p][n + k] /\ l[k].svc = i
<1>1. PICK n0 \in Until(p, i - 1), m \in Until(p, i) :
        /\ Len(l) = (IF n0 <= m THEN m - n0 ELSE 0)
        /\ \A k \in 1 .. Len(l) : l[k] = Gatt[p][n0 + k]
  BY CharsType
<1>2. n0 = n
  BY UntilOne
<1>3. /\ n \in 0 .. Len(Gatt[p]) /\ Len(Gatt[p]) \in Nat /\ m \in 0 .. Len(Gatt[p])
      /\ \A k \in 1 .. Len(Gatt[p]) : Gatt[p][k].svc <= i - 1 <=> k <= n
      /\ \A k \in 1 .. Len(Gatt[p]) : Gatt[p][k].svc <= i <=> k <= m
  BY UntilFact, GattFact
<1>4. \A k \in 1 .. Len(Gatt[p]) : Gatt[p][k].svc \in Int
  BY GattFact
<1>5. n <= m
  <2>1. SUFFICES ASSUME m < n PROVE FALSE
    BY <1>3
  <2>2. n \in 1 .. Len(Gatt[p])
    BY <1>3, <2>1
  <2>3. Gatt[p][n].svc <= i - 1 /\ ~(Gatt[p][n].svc <= i) /\ Gatt[p][n].svc \in Int
    BY <1>3, <1>4, <2>1, <2>2
  <2> QED
    BY <2>3
<1>6. Len(l) = m - n /\ Len(l) \in Nat /\ n + Len(l) = m
  BY <1>1, <1>2, <1>3, <1>5
<1>7. ASSUME NEW k \in 1 .. Len(l)
      PROVE  n + k \in 1 .. Len(Gatt[p]) /\ l[k] = Gatt[p][n + k] /\ l[k].svc = i
  <2>1. n + k \in 1 .. Len(Gatt[p]) /\ n + k <= m /\ ~(n + k <= n)
    BY <1>3, <1>6
  <2>2. l[k] = Gatt[p][n + k]
    BY <1>1, <1>2
  <2>3. Gatt[p][n + k].svc <= i /\ ~(Gatt[p][n + k].svc <= i - 1) /\ Gatt[p][n + k].svc \in Int
    BY <1>3, <1>4, <2>1
  <2> QED
    BY <2>1, <2>2, <2>3
<1> QED
  BY <1>1, <1>6, <1>7

\* A CCCD between a characteristic's value and its end is its own.
LEMMA OwnCccd ==
  ASSUME NEW p \in Peers, NEW i \in 1 .. Len(Ends[p]), NEW n \in Until(p, i),
         NEW c \in 1 .. n, NEW to \in Int,
         to = IF c < n THEN Gatt[p][c + 1].def - 1 ELSE Ends[p][i],
         NEW h \in Cccds(p, Gatt[p][c].val, to)
  PROVE  h = Gatt[p][c].cccd
<1> DEFINE D(k) == Gatt[p][k].def
           V(k) == Gatt[p][k].val
           all == 1 .. Len(Gatt[p])
<1>0. /\ \A k \in all : D(k) \in Nat /\ V(k) \in Nat /\ D(k) < V(k) /\ Gatt[p][k].cccd \in Nat
      /\ \A k \in all : Gatt[p][k].cccd # 0 => V(k) < Gatt[p][k].cccd
      /\ \A k, m \in all : m < k => V(m) < D(k) /\ Gatt[p][m].cccd < D(k)
  BY GattFact
<1>1. /\ n \in 0 .. Len(Gatt[p]) /\ Len(Gatt[p]) \in Nat
      /\ \A k \in all : Gatt[p][k].svc <= i <=> k <= n
  <2>1. i \in Int
    BY GattFact
  <2>2. Len(Gatt[p]) \in Nat
    BY GattFact
  <2> QED
    BY <2>1, <2>2, UntilFact
<1>2. PICK m \in all : h = Gatt[p][m].cccd
  BY GattFact DEF Cccds
<1>3. V(c) < h /\ h <= to
  BY DEF Cccds
<1>4. c \in all
  BY <1>1
<1> HIDE DEF D, V
<1>5. D(c) \in Nat /\ V(c) \in Nat /\ D(m) \in Nat /\ V(m) \in Nat /\ h \in Nat
  BY <1>0, <1>2, <1>4
<1>10. h > 0 /\ V(m) < h /\ D(m) < V(m)
  <2>1. h > 0
    BY <1>3, <1>5
  <2> QED
    BY <1>0, <1>2, <2>1
<1>11. D(m) < h
  BY <1>5, <1>10
<1>6. CASE m < c
  <2>1. h < D(c) /\ D(c) < V(c)
    BY <1>0, <1>2, <1>4, <1>6
  <2> QED
    BY <1>3, <1>5, <2>1
<1>7. CASE c < m /\ c < n
  <2>1. c + 1 \in all /\ to = D(c + 1) - 1
    BY <1>1, <1>7 DEF D
  <2>2. D(c + 1) \in Nat /\ V(c + 1) \in Nat /\ D(c + 1) < V(c + 1)
    BY <1>0, <2>1
  <2>3. h < D(c + 1)
    <3>1. h <= D(c + 1) - 1
      BY <1>3, <2>1
    <3>2. h \in Nat
      BY <1>5
    <3> QED
      BY <2>2, <3>1, <3>2
  <2>4. D(m) < D(c + 1)
    BY <1>5, <1>11, <2>2, <2>3
  <2>5. CASE m = c + 1
    BY <2>2, <2>4, <2>5
  <2>6. CASE c + 1 < m
    <3>1. V(c + 1) < D(m)
      BY <1>0, <2>1, <2>6
    <3> QED
      BY <1>5, <2>2, <2>4, <3>1
  <2> QED
    BY <1>4, <1>7, <2>1, <2>5, <2>6
<1>8. CASE c < m /\ c = n
  <2>1. ~(Gatt[p][m].svc <= i) /\ Gatt[p][m].svc \in Int
    BY <1>1, <1>8, GattFact
  <2>2. \A e \in 1 .. Len(Ends[p]) : e < Gatt[p][m].svc => Ends[p][e] < D(m)
    BY GattFact DEF D
  <2>3. i < Gatt[p][m].svc
    BY <2>1, GattFact
  <2>4. Ends[p][i] < D(m)
    BY <2>2, <2>3
  <2>5. Ends[p][i] \in Nat
    BY GattFact
  <2>6. h <= Ends[p][i]
    BY <1>3, <1>8
  <2> QED
    BY <1>5, <1>11, <2>4, <2>5, <2>6
<1> QED
  BY <1>1, <1>2, <1>4, <1>6, <1>7, <1>8

LEMMA ServicesFact ==
  ASSUME NEW p \in Peers
  PROVE  /\ Services(p) \in Seq(Service) /\ Len(Services(p)) = Len(Ends[p])
         /\ \A i \in 1 .. Len(Ends[p]) : Services(p)[i].svc = i /\ Services(p)[i].end = Ends[p][i]
BY ServicesType, GattFact DEF Services

\* The device of a discovery that has a link.
LEMMA Running ==
  ASSUME BlexTypes, OwnedInv, CurInv, Counts, op \in Discovery, links # {}
  PROVE  ofPeer \in Peers /\ connHandle = ofPeer
BY DEF BlexTypes, HostTypes, OwnedInv, CurInv, Counts

\* While a sound discovery waits, nothing but its own procedure is under way.
LEMMA Waiting ==
  ASSUME OwnInv, SoundInv, Counts, op \in Discovery, pc = "wait"
  PROVE  /\ attempt = None /\ disc # "explorer"
         /\ \A j \in jobs : Mine(j) /\ ~sem
<1>1. clean
  BY DEF SoundInv, Counts
<1>2. CASE sem
  BY <1>1, <1>2 DEF OwnInv, Had, Quiet
<1>3. CASE ~sem
  BY <1>1, <1>3 DEF OwnInv, Alone, Discovery
<1> QED
  BY <1>2, <1>3

LEMMA TrueFrame ==
  ASSUME TrueInv, UNCHANGED <<op, svcs, table, svcIdx, chrIdx, discovered, ofPeer>>,
         Counts' => Counts,
         op \in Discovery /\ Counts' =>
           /\ pc' = "wait" => pc = "wait" /\ jobs' \subseteq jobs
           /\ pc' = "start" => pc = "start"
           /\ Succeeded' => Succeeded
  PROVE  TrueInv'
<1>1. (Counts /\ op = "svcs" => SvcsInv)'
  BY DEF TrueInv, SvcsInv, Services, Discovery
<1>2. (Counts /\ (op \in {"chrs", "dscs"} \/ discovered) =>
         svcs = Services(ofPeer) /\ \A k \in DOMAIN table : Good(k))'
  BY DEF TrueInv, Services, Good
<1>3. (Counts /\ op = "chrs" => ChrsInv)'
  BY DEF TrueInv, ChrsInv, Until, Discovery
<1>4. (Counts /\ op = "dscs" => DscsInv)'
  BY DEF TrueInv, DscsInv, Until, EndOf, Discovery
<1>5. (Counts /\ discovered => Len(table) = Len(Gatt[ofPeer]))'
  BY DEF TrueInv
<1> QED
  BY <1>1, <1>2, <1>3, <1>4, <1>5 DEF TrueInv

\* A step of the console to somewhere outside a discovery.
LEMMA TrueIdle ==
  ASSUME TrueInv, op' \notin Discovery, UNCHANGED <<svcs, table, ofPeer>>,
         Counts' /\ discovered' => Counts /\ discovered
  PROVE  TrueInv'
<1>1. (Counts /\ (op \in {"chrs", "dscs"} \/ discovered) =>
         svcs = Services(ofPeer) /\ \A k \in DOMAIN table : Good(k))'
  BY DEF TrueInv, Services, Good, Discovery
<1>2. (Counts /\ discovered => Len(table) = Len(Gatt[ofPeer]))'
  BY DEF TrueInv
<1> QED
  BY <1>1, <1>2 DEF TrueInv, Discovery

LEMMA ProceedTrue ==
  ASSUME ofPeer \in Peers, UNCHANGED <<svcs, ofPeer>>, NEW k \in Nat, Proceed(table', k),
         table' \in Seq(Entry), svcs = Services(ofPeer), svcIdx \in 1 .. Len(svcs),
         \A c \in DOMAIN table' : Good(c)',
         Len(table') \in Until(ofPeer, svcIdx),
         \A c \in DOMAIN table' : table'[c].svc = svcIdx =>
           table'[c].end = IF c < Len(table') THEN table'[c + 1].def - 1 ELSE svcs[svcIdx].end,
         discovered = FALSE
  PROVE  TrueInv'
<1>1. svcs' = Services(ofPeer)' /\ Len(svcs) = Len(Ends[ofPeer])
  BY ServicesFact DEF Services
<1>2. DOMAIN table' = 1 .. Len(table') /\ Len(table') \in Nat
  OBVIOUS
<1>3. CASE /\ Room(table', k) # {}
           /\ chrIdx' \in {c \in Room(table', k) : \A d \in Room(table', k) : c <= d}
           /\ op' = "dscs" /\ pc' = "start" /\ UNCHANGED <<svcIdx, discovered>>
  <2>1. table'[chrIdx'].svc = svcIdx
    BY <1>3 DEF Room
  <2>2. DscsInv'
    BY <1>3, <2>1 DEF DscsInv, EndOf, Until
  <2> QED
    BY <1>1, <1>3, <2>2 DEF TrueInv
<1>4. CASE /\ svcIdx < Len(svcs) /\ svcIdx' = svcIdx + 1
           /\ op' = "chrs" /\ pc' = "start" /\ UNCHANGED <<chrIdx, discovered>>
  <2>1. svcIdx' - 1 = svcIdx
    BY <1>4
  <2>2. ChrsInv'
    BY <1>4, <2>1 DEF ChrsInv, Succeeded, Until
  <2> QED
    BY <1>1, <1>4, <2>2 DEF TrueInv
<1>5. CASE /\ svcIdx >= Len(svcs) /\ op' = "none" /\ pc' = "idle"
  <2>1. svcIdx = Len(Ends[ofPeer]) /\ Len(Ends[ofPeer]) \in Nat
    BY <1>1, <1>5, GattFact
  <2>2. \A c \in 1 .. Len(Gatt[ofPeer]) : c <= Len(table')
    <3>1. \A c \in 1 .. Len(Gatt[ofPeer]) : Gatt[ofPeer][c].svc <= svcIdx
      BY <2>1, GattFact
    <3>2. svcIdx \in Int
      BY <2>1
    <3> QED
      BY <3>1, <3>2, UntilFact
  <2>3. Len(table') \in 0 .. Len(Gatt[ofPeer]) /\ Len(Gatt[ofPeer]) \in Nat
    BY <2>1, GattFact, UntilFact
  <2>4. Len(table') = Len(Gatt[ofPeer])
    BY <2>2, <2>3
  <2> QED
    BY <1>1, <1>5, <2>4 DEF TrueInv
<1> QED
  BY <1>3, <1>4, <1>5 DEF Proceed


LEMMA TrueStart ==
  ASSUME BlexTypes, OwnedInv, CurInv, SoundInv, TrueInv, Start
  PROVE  TrueInv'
<1>1. /\ UNCHANGED <<op, svcs, table, svcIdx, chrIdx, discovered, ofPeer, torn>>
      /\ pc = "start" /\ sem' = FALSE
      /\ gaveUp' = (gaveUp /\ (attempt # None \/ links # {} \/ lost # None))
      /\ sound' = IF op \in Discovery THEN sound /\ Quiet ELSE sound
      /\ (Accepted /\ pc' = "wait") \/ (pc' = "done" /\ res' = "failed" /\ UNCHANGED jobs)
  BY DEF Start, dbVars, hostVars
<1>2. ~Succeeded'
  BY <1>1 DEF Succeeded
<1>3. CASE op \notin Discovery
  <2>1. Counts' /\ discovered' => Counts
    BY <1>1, <1>3 DEF Counts, CurInv
  <2> QED
    BY <1>1, <1>3, <2>1, TrueIdle
<1>4. CASE op \in Discovery /\ ~Counts'
  BY <1>1, <1>4 DEF TrueInv, BlexTypes, OpInv
<1>5. CASE op \in Discovery /\ Counts' /\ links = {}
  <2>1. op = "svcs" /\ pc' = "done" /\ discovered' = FALSE
    BY <1>1, <1>5 DEF CurInv, Counts, Accepted, Discovery, BlexTypes, OpInv
  <2>2. SvcsInv'
    BY <1>2, <2>1 DEF SvcsInv
  <2> QED
    BY <1>1, <2>1, <2>2 DEF TrueInv
<1>6. CASE op \in Discovery /\ Counts' /\ links # {} /\ pc' = "done"
  <2>1. Counts
    BY <1>1, <1>6 DEF Counts
  <2> QED
    BY <1>1, <1>2, <1>6, <2>1, TrueFrame
<1>7. CASE op \in Discovery /\ Counts' /\ links # {} /\ Accepted /\ pc' = "wait"
  <2>1. Counts /\ jobs = {} /\ discovered = FALSE
    BY <1>1, <1>7 DEF Counts, Quiet, BlexTypes, OpInv
  <2>2. ofPeer \in Peers /\ connHandle = ofPeer
    BY <1>7, <2>1, Running
  <2>3. PICK l \in Reports(ofPeer) : \A j \in jobs' : j.left = l
    BY <1>7, <2>1, <2>2 DEF Accepted, Discovery
  <2>4. CASE op = "svcs"
    <3>1. l = Services(ofPeer) /\ svcs = <<>>
      BY <1>1, <2>1, <2>3, <2>4 DEF Reports, SoundInv, Counts
    <3>2. <<>> \o l = l
      BY <2>2, <3>1, ServicesFact
    <3>3. SvcsInv'
      BY <1>1, <1>2, <2>3, <3>1, <3>2 DEF SvcsInv, Services
    <3> QED
      BY <1>1, <2>1, <2>4, <3>3 DEF TrueInv
  <2>5. CASE op # "svcs"
    <3>1. (svcs = Services(ofPeer) /\ \A k \in DOMAIN table : Good(k))'
      BY <1>1, <1>7, <2>1, <2>5 DEF TrueInv, Services, Good, Discovery
    <3>2. svcs = Services(ofPeer) /\ svcIdx \in 1 .. Len(Ends[ofPeer]) /\ svcs[svcIdx].svc = svcIdx
          /\ svcs[svcIdx].end = Ends[ofPeer][svcIdx]
      BY <1>7, <2>1, <2>2, <2>5, ServicesFact DEF TrueInv, Discovery, BlexTypes, OpInv
    <3>3. CASE op = "chrs"
      <4>1. l \in Chars(ofPeer, svcIdx) /\ Len(table) \in Until(ofPeer, svcIdx - 1)
        BY <1>1, <2>1, <2>3, <3>2, <3>3 DEF Reports, TrueInv, ChrsInv
      <4>2. /\ Len(table) + Len(l) \in Until(ofPeer, svcIdx)
            /\ \A i \in 1 .. Len(l) :
                 l[i] = Gatt[ofPeer][Len(table) + i] /\ l[i].svc = svcIdx
        BY <2>2, <3>2, <4>1, CharsFollow
      <4>3. DOMAIN l = 1 .. Len(l)
        BY <2>2, <3>2, <4>1, CharsType
      <4>4. ChrsInv'
        BY <1>1, <1>2, <1>7, <2>3, <4>2, <4>3 DEF ChrsInv, Until
      <4> QED
        BY <1>1, <2>1, <3>1, <3>3, <4>4 DEF TrueInv
    <3>4. CASE op = "dscs"
      <4>1. DscsInv /\ \A k \in DOMAIN table : Good(k)
        BY <2>1, <3>4 DEF TrueInv
      <4>2. chrIdx \in 1 .. Len(table) /\ DOMAIN table = 1 .. Len(table)
        BY <3>4 DEF BlexTypes, OpInv, TableTypes
      <4>3. \A h \in Cccds(ofPeer, table[chrIdx].val, table[chrIdx].end) :
              h = Gatt[ofPeer][chrIdx].cccd
        <5>1. table[chrIdx].end = EndOf(chrIdx) /\ table[chrIdx].val = Gatt[ofPeer][chrIdx].val
          BY <4>1, <4>2 DEF DscsInv, Good
        <5>2. EndOf(chrIdx) = IF chrIdx < Len(table) THEN Gatt[ofPeer][chrIdx + 1].def - 1
                                                     ELSE Ends[ofPeer][svcIdx]
          <6>1. Len(table) \in Nat
            BY DEF BlexTypes, TableTypes
          <6>2. chrIdx < Len(table) => table[chrIdx + 1].def = Gatt[ofPeer][chrIdx + 1].def
            BY <4>1, <4>2, <6>1 DEF Good
          <6> QED
            BY <3>2, <6>2 DEF EndOf
        <5>3. EndOf(chrIdx) \in Int
          <6>1. table[chrIdx] \in Entry
            BY <4>2 DEF BlexTypes, TableTypes
          <6> QED
            BY <5>1, <6>1 DEF Entry
        <5>4. Len(table) \in Until(ofPeer, svcIdx)
          BY <4>1 DEF DscsInv
        <5>5. SUFFICES ASSUME NEW h \in Cccds(ofPeer, Gatt[ofPeer][chrIdx].val, table[chrIdx].end)
              PROVE  h = Gatt[ofPeer][chrIdx].cccd
          BY <5>1
        <5>6. /\ table[chrIdx].end \in Int
              /\ table[chrIdx].end = IF chrIdx < Len(table) THEN Gatt[ofPeer][chrIdx + 1].def - 1
                                                            ELSE Ends[ofPeer][svcIdx]
          BY <5>1, <5>2, <5>3
        <5> QED
          BY <2>2, <3>2, <4>2, <5>4, <5>6, OwnCccd
      <4>4. l \in Upwards(Cccds(ofPeer, table[chrIdx].val, table[chrIdx].end))
        BY <2>3, <3>4 DEF Reports
      <4>5. \A i \in DOMAIN l : l[i] \in Cccds(ofPeer, table[chrIdx].val, table[chrIdx].end)
        BY <4>4 DEF Upwards
      <4>6. \A i \in DOMAIN l : l[i] = Gatt[ofPeer][chrIdx].cccd
        BY <4>3, <4>5
      <4>7. DscsInv'
        BY <1>1, <2>3, <4>1, <4>6 DEF DscsInv, Until, EndOf
      <4> QED
        BY <1>1, <2>1, <3>1, <3>4, <4>7 DEF TrueInv
    <3> QED
      BY <1>7, <2>5, <3>3, <3>4 DEF Discovery
  <2> QED
    BY <2>4, <2>5
<1> QED
  BY <1>1, <1>3, <1>4, <1>5, <1>6, <1>7


LEMMA AppendRest ==
  ASSUME NEW S, NEW s \in Seq(S), NEW l \in Seq(S), l # <<>>
  PROVE  Append(s, Head(l)) \o Tail(l) = s \o l
<1> DEFINE a == Append(s, Head(l)) \o Tail(l)
           b == s \o l
<1>1. Len(l) \in Nat /\ Len(l) > 0 /\ Len(s) \in Nat
  BY EmptySeq
<1>2. Head(l) = l[1] /\ Tail(l) \in Seq(S) /\ Len(Tail(l)) = Len(l) - 1
      /\ \A i \in 1 .. Len(l) - 1 : Tail(l)[i] = l[i + 1]
  BY <1>1
<1>3. l[1] \in S /\ Append(s, l[1]) \in Seq(S) /\ Len(Append(s, l[1])) = Len(s) + 1
  BY <1>1
<1>4. a \in Seq(S) /\ Len(a) = Len(s) + Len(l) /\ b \in Seq(S) /\ Len(b) = Len(s) + Len(l)
  BY <1>1, <1>2, <1>3
<1>5. ASSUME NEW i \in 1 .. Len(s) + Len(l) PROVE a[i] = b[i]
  <2>1. CASE i <= Len(s)
    BY <1>1, <1>2, <1>3, <2>1
  <2>2. CASE i = Len(s) + 1
    BY <1>1, <1>2, <1>3, <2>2
  <2>3. CASE i > Len(s) + 1
    BY <1>1, <1>2, <1>3, <2>3
  <2> QED
    BY <1>1, <2>1, <2>2, <2>3
<1> HIDE DEF a, b
<1>6. a = b
  BY <1>4, <1>5, SeqEqual
<1> QED
  BY <1>6 DEF a, b

\* A report, into the discovery that waits for it.
LEMMA TrueReport ==
  ASSUME BlexTypes, OwnedInv, CurInv, OwnInv, SoundInv, TrueInv, NEW j \in jobs, Report(j)
  PROVE  TrueInv'
<1> DEFINE x == Head(j.left)
           e == [j EXCEPT !.left = Tail(@)]
<1>1. /\ UNCHANGED <<op, svcIdx, chrIdx, discovered, ofPeer, pc, res, sem, rc, torn, gaveUp, sound, id>>
      /\ jobs' = (jobs \ {j}) \cup {e} /\ j.left # <<>>
      /\ svcs' = (IF j.op = "svcs" THEN Append(svcs, x) ELSE svcs)
      /\ j.op = "chrs" => table' = Append(table, [svc |-> svcIdx, def |-> x.def, val |-> x.val,
                                                 end |-> 0, cccd |-> 0])
      /\ j.op = "dscs" /\ chrIdx \in DOMAIN table => table' = [table EXCEPT ![chrIdx].cccd = x]
      /\ j.op \notin {"chrs", "dscs"} => table' = table
  BY DEF Report, consoleVars, opVars, history
<1>2. j \in Jobs /\ e.left = Tail(j.left) /\ e.op = j.op
  BY DEF BlexTypes, JobTypes, Jobs
<1> HIDE DEF e, x
<1>3. (Counts' <=> Counts) /\ (Succeeded' <=> Succeeded)
  BY <1>1 DEF Counts, Succeeded
<1>4. CASE ~Counts
  BY <1>3, <1>4 DEF TrueInv
<1>5. CASE Counts /\ j.op \notin Discovery
  <2>1. op \in Discovery => pc # "wait"
    BY <1>5, Waiting DEF Mine
  <2> QED
    BY <1>1, <1>3, <1>5, <2>1, TrueFrame DEF Discovery
<1>6. CASE Counts /\ j.op \in Discovery
  <2>1. pc = "wait" /\ op \in Discovery
    BY <1>6 DEF SoundInv, Counts
  <2>2. \A k \in jobs : Mine(k) /\ ~sem
    BY <1>6, <2>1, Waiting
  <2>3. j.op = op /\ jobs = {j} /\ jobs' = {e} /\ ~Succeeded /\ discovered = FALSE
    BY <1>1, <2>1, <2>2, OneMine DEF Mine, Succeeded, BlexTypes, OpInv
  <2>4. ofPeer \in Peers
    <3>1. links # {}
      BY DEF BlexTypes, JobTypes
    <3> QED
      BY <1>6, <2>1, <3>1, Running
  <2>5. /\ Gatt[ofPeer]' = Gatt[ofPeer] /\ Ends[ofPeer]' = Ends[ofPeer]
        /\ Services(ofPeer)' = Services(ofPeer)
        /\ \A i : Until(ofPeer, i)' = Until(ofPeer, i)
    BY <1>1 DEF Services, Until
  <2>6. table \in Seq(Entry) /\ svcs \in Seq(Service) /\ svcIdx \in Nat
    BY DEF BlexTypes, TableTypes
  <2>7. CASE op = "svcs"
    <3>1. svcs \o j.left = Services(ofPeer)
      BY <1>6, <2>1, <2>7 DEF TrueInv, SvcsInv
    <3>2. j.left \in Seq(Service)
      BY <1>2, <2>3, <2>7 DEF Jobs, Lists
    <3>3. svcs' \o e.left = Services(ofPeer)
      <4>1. svcs' = Append(svcs, Head(j.left)) /\ j.left # <<>> /\ e.left = Tail(j.left)
        BY <1>1, <1>2, <2>3, <2>7 DEF x
      <4>2. Append(svcs, Head(j.left)) \o Tail(j.left) = svcs \o j.left
        BY <2>6, <3>2, <4>1, AppendRest
      <4> QED
        BY <3>1, <4>1, <4>2
    <3>4. SvcsInv'
      BY <1>3, <2>3, <2>5, <3>3 DEF SvcsInv
    <3> QED
      BY <1>1, <2>3, <2>7, <3>4 DEF TrueInv
  <2>8. CASE op = "chrs"
    <3> DEFINE n == Len(table)
               y == [svc |-> svcIdx, def |-> x.def, val |-> x.val, end |-> 0, cccd |-> 0]
               g == Gatt[ofPeer]
    <3>1. /\ n + Len(j.left) \in Until(ofPeer, svcIdx)
          /\ \A i \in DOMAIN j.left : j.left[i] = g[n + i] /\ j.left[i].svc = svcIdx
          /\ svcs = Services(ofPeer) /\ \A k \in DOMAIN table : Good(k)
      BY <1>6, <2>1, <2>8 DEF TrueInv, ChrsInv
    <3>2. j.left \in Seq(Characteristic)
      BY <1>2, <2>3, <2>8 DEF Jobs, Lists
    <3> DEFINE len == Len(j.left)
               rest == Len(e.left)
    <3>3. /\ len \in Nat /\ len > 0 /\ rest \in Nat /\ len = rest + 1 /\ n \in Nat
          /\ DOMAIN j.left = 1 .. len /\ DOMAIN e.left = 1 .. rest
          /\ \A i \in 1 .. rest : e.left[i] = j.left[i + 1]
      BY <1>1, <1>2, <2>6, <3>2, EmptySeq
    <3>0. x = j.left[1]
      BY <1>1, <3>2 DEF x
    <3> HIDE DEF len, rest, n
    <3>4. x = g[n + 1] /\ x.svc = svcIdx /\ n + 1 \in 1 .. Len(g)
      <4>1. n + len \in 0 .. Len(g) /\ Len(g) \in Nat
        <5>1. n + len \in Until(ofPeer, svcIdx) /\ svcIdx \in Int
          BY <2>6, <3>1 DEF n, len
        <5> QED
          BY <2>4, <5>1, UntilFact, GattFact
      <4>2. n + 1 \in 1 .. Len(g) /\ 1 \in DOMAIN j.left
        BY <3>3, <4>1
      <4> QED
        BY <3>0, <3>1, <4>2
    <3>5. y.svc = svcIdx /\ y.def = x.def /\ y.val = x.val /\ y.cccd = 0
      OBVIOUS
    <3>6. table' = Append(table, y)
      BY <1>1, <2>3, <2>8
    <3> HIDE DEF y
    <3>7. Len(table') = n + 1 /\ DOMAIN table' = 1 .. n + 1 /\ table'[n + 1] = y
          /\ \A k \in 1 .. n : table'[k] = table[k]
      BY <2>6, <3>6 DEF n
    <3>8. DOMAIN g = 1 .. Len(g) /\ DOMAIN table = 1 .. n
      BY <2>4, <2>6, GattFact DEF n
    <3>9. ASSUME NEW k \in DOMAIN table' PROVE Good(k)'
      <4>1. CASE k \in 1 .. n
        BY <2>5, <3>1, <3>7, <3>8, <4>1 DEF Good
      <4>2. CASE k = n + 1
        BY <2>5, <3>4, <3>5, <3>7, <3>8, <4>2 DEF Good
      <4> QED
        BY <3>3, <3>7, <3>9, <4>1, <4>2
    <3>10. svcs' = Services(ofPeer)'
      BY <1>1, <2>3, <2>5, <2>8, <3>1
    <3>11. ASSUME NEW i \in DOMAIN e.left
           PROVE  e.left[i] = g[(n + 1) + i] /\ e.left[i].svc = svcIdx
      <4>0. i \in 1 .. rest
        BY <3>3, <3>11
      <4>1. i + 1 \in DOMAIN j.left /\ e.left[i] = j.left[i + 1]
        BY <3>3, <4>0
      <4>2. n + (i + 1) = (n + 1) + i
        BY <3>3, <4>0
      <4> QED
        BY <3>1, <4>1, <4>2
    <3>12. (n + 1) + rest \in Until(ofPeer, svcIdx)
      <4>1. (n + 1) + rest = n + len
        BY <3>3
      <4> QED
        BY <3>1, <4>1 DEF n, len
    <3>13. ChrsInv'
      BY <1>1, <1>3, <2>1, <2>3, <2>5, <3>7, <3>11, <3>12 DEF ChrsInv, rest
    <3> QED
      BY <1>1, <2>3, <2>8, <3>9, <3>10, <3>13 DEF TrueInv
  <2>9. CASE op = "dscs"
    <3> DEFINE g == Gatt[ofPeer]
               y == [table[chrIdx] EXCEPT !.cccd = x]
    <3>1. /\ DscsInv /\ svcs = Services(ofPeer) /\ \A k \in DOMAIN table : Good(k)
          /\ \A i \in DOMAIN j.left : j.left[i] = g[chrIdx].cccd
      BY <1>6, <2>1, <2>9 DEF TrueInv, DscsInv
    <3>2. j.left \in Seq(Nat)
      BY <1>2, <2>3, <2>9 DEF Jobs, Lists
    <3> DEFINE len == Len(j.left)
               rest == Len(e.left)
    <3>3. /\ len \in Nat /\ len > 0 /\ rest \in Nat /\ len = rest + 1
          /\ DOMAIN j.left = 1 .. len /\ DOMAIN e.left = 1 .. rest
          /\ \A i \in 1 .. rest : e.left[i] = j.left[i + 1]
      BY <1>1, <1>2, <3>2, EmptySeq
    <3>0. x = j.left[1]
      BY <1>1, <3>2 DEF x
    <3> HIDE DEF len, rest
    <3>4. x = g[chrIdx].cccd /\ \A i \in DOMAIN e.left : e.left[i] = g[chrIdx].cccd
      <4>1. \A i \in 1 .. rest : i + 1 \in DOMAIN j.left
        BY <3>3
      <4>2. 1 \in DOMAIN j.left
        BY <3>3
      <4> QED
        BY <3>0, <3>1, <3>3, <4>1, <4>2
    <3>5. chrIdx \in DOMAIN table /\ DOMAIN table = 1 .. Len(table)
      BY <2>6, <2>9 DEF BlexTypes, OpInv
    <3>6. table[chrIdx] \in Entry
      BY <2>6, <3>5
    <3>7. y.svc = table[chrIdx].svc /\ y.def = table[chrIdx].def /\ y.val = table[chrIdx].val
          /\ y.end = table[chrIdx].end /\ y.cccd = x
      BY <3>6 DEF Entry
    <3>8. table' = [table EXCEPT ![chrIdx] = y]
      BY <1>1, <2>3, <2>9, <3>5
    <3> HIDE DEF y
    <3>9. /\ Len(table') = Len(table) /\ DOMAIN table' = DOMAIN table
          /\ table'[chrIdx] = y /\ \A k \in DOMAIN table : k # chrIdx => table'[k] = table[k]
      BY <2>6, <3>5, <3>8
    <3>10. \A k \in DOMAIN table :
             /\ table'[k].svc = table[k].svc /\ table'[k].def = table[k].def
             /\ table'[k].val = table[k].val /\ table'[k].end = table[k].end
             /\ k # chrIdx => table'[k].cccd = table[k].cccd
      BY <3>7, <3>9
    <3>11. ASSUME NEW k \in DOMAIN table' PROVE Good(k)'
      BY <2>5, <3>1, <3>4, <3>7, <3>9, <3>10, <3>11 DEF Good
    <3>12. svcs' = svcs /\ svcs' = Services(ofPeer)'
      BY <1>1, <2>3, <2>5, <2>9, <3>1
    <3>13. \A k \in DOMAIN table : EndOf(k)' = EndOf(k)
      <4>1. Len(table) \in Nat
        BY <2>6
      <4>2. SUFFICES ASSUME NEW k \in 1 .. Len(table) PROVE EndOf(k)' = EndOf(k)
        BY <3>5
      <4>3. k < Len(table) => table'[k + 1].def = table[k + 1].def
        BY <3>5, <3>10, <4>1
      <4>4. /\ EndOf(k)' = IF k < Len(table') THEN table'[k + 1].def - 1 ELSE svcs'[svcIdx'].end
            /\ EndOf(k) = IF k < Len(table) THEN table[k + 1].def - 1 ELSE svcs[svcIdx].end
        BY DEF EndOf
      <4>5. Len(table') = Len(table) /\ svcs' = svcs /\ svcIdx' = svcIdx
        BY <1>1, <3>9, <3>12
      <4> QED
        BY <4>3, <4>4, <4>5
    <3>14. DscsInv'
      <4>1. Len(table') \in Until(ofPeer, svcIdx)'
        BY <1>1, <2>5, <3>1, <3>9 DEF DscsInv
      <4>2. \A k \in DOMAIN table' : table'[k].svc = svcIdx' => table'[k].end = EndOf(k)'
        <5>1. SUFFICES ASSUME NEW k \in DOMAIN table, table[k].svc = svcIdx
              PROVE  table'[k].end = EndOf(k)'
          BY <1>1, <3>9, <3>10
        <5>2. table[k].end = EndOf(k)
          BY <3>1, <5>1 DEF DscsInv
        <5>3. table'[k].end = table[k].end
          BY <3>10
        <5> QED
          BY <3>13, <5>2, <5>3
      <4>3. table'[chrIdx'].svc = svcIdx'
        BY <1>1, <3>1, <3>5, <3>10 DEF DscsInv
      <4> QED
        BY <1>1, <2>3, <2>5, <3>4, <4>1, <4>2, <4>3 DEF DscsInv
    <3> QED
      BY <1>1, <2>3, <2>9, <3>11, <3>12, <3>14 DEF TrueInv
  <2> QED
    BY <2>1, <2>7, <2>8, <2>9 DEF Discovery
<1> QED
  BY <1>4, <1>5, <1>6


LEMMA TrueStep ==
  ASSUME BlexTypes, OwnedInv, CurInv, OwnInv, SoundInv, TrueInv, [BlexNext]_blexVars
  PROVE  TrueInv'
<1>1. CASE \E k \in Requests : Request(k)
  <2>1. PICK k \in Requests : Request(k)
    BY <1>1
  <2>2. op' \notin Discovery /\ UNCHANGED <<svcs, table, ofPeer, discovered, sound, torn, gaveUp>>
    BY <2>1, ExplorerAssumption DEF Request, Discovery, dbVars, history
  <2> QED
    BY <2>2, TrueIdle DEF Counts
<1>2. CASE BlexDiscover
  <2>1. op' = "svcs" /\ pc' = "start" /\ discovered' = FALSE
    BY <1>2 DEF BlexDiscover
  <2>2. SvcsInv'
    BY <2>1 DEF SvcsInv, Succeeded
  <2> QED
    BY <2>1, <2>2 DEF TrueInv
<1>3. CASE BlexScan
  <2>1. op' \notin Discovery /\ UNCHANGED <<svcs, table, ofPeer, discovered, sound, torn, gaveUp>>
    BY <1>3 DEF BlexScan, dbVars, history, Discovery
  <2> QED
    BY <2>1, TrueIdle DEF Counts
<1>4. CASE BlexConnect
  <2>1. op' \notin Discovery /\ UNCHANGED <<svcs, table, ofPeer, discovered, sound, torn, gaveUp>>
    BY <1>4 DEF BlexConnect, dbVars, Discovery
  <2> QED
    BY <2>1, TrueIdle DEF Counts
<1>5. CASE Start
  BY <1>5, TrueStart
<1>6. CASE Take
  <2>1. /\ UNCHANGED <<op, svcs, table, svcIdx, chrIdx, discovered, ofPeer>>
        /\ Counts' => Counts
    BY <1>6 DEF Take, dbVars, history, Counts
  <2>2. op \in Discovery /\ Counts' =>
          /\ pc' = "wait" => pc = "wait" /\ jobs' \subseteq jobs
          /\ pc' = "start" => pc = "start"
          /\ Succeeded' => Succeeded
    BY <1>6 DEF Take, dbVars, history, Succeeded
  <2> QED
    BY <2>1, <2>2, TrueFrame
<1>7. CASE TimesOut
  <2>1. /\ UNCHANGED <<op, svcs, table, svcIdx, chrIdx, discovered, ofPeer>>
        /\ Counts' => Counts
    BY <1>7 DEF TimesOut, dbVars, Counts
  <2>2. op \in Discovery /\ Counts' =>
          /\ pc' = "wait" => pc = "wait" /\ jobs' \subseteq jobs
          /\ pc' = "start" => pc = "start"
          /\ Succeeded' => Succeeded
    BY <1>7 DEF TimesOut, dbVars, Counts
  <2> QED
    BY <2>1, <2>2, TrueFrame
<1>8. CASE Returns
  <2>1. op' \notin Discovery /\ UNCHANGED <<svcs, table, ofPeer, discovered, sound, torn, gaveUp>>
    BY <1>8 DEF Returns, dbVars, history, Discovery
  <2> QED
    BY <2>1, TrueIdle DEF Counts
<1>9. CASE HaveServices
  <2>1. /\ pc = "done" /\ op = "svcs" /\ res = "ok" /\ svcIdx' = 1
        /\ svcs # <<>> => op' = "chrs" /\ pc' = "start" /\ discovered' = discovered
        /\ svcs = <<>> => op' = "none"
        /\ UNCHANGED <<svcs, table, ofPeer, sound, torn, gaveUp>>
    BY <1>9 DEF HaveServices, history
  <2>2. SUFFICES ASSUME Counts PROVE TrueInv'
    BY <2>1 DEF TrueInv, Counts
  <2>3. links # {} /\ ofPeer \in Peers
    BY <2>1, <2>2, Running DEF CurInv, Counts, Discovery
  <2>4. svcs = Services(ofPeer) /\ table = <<>>
    BY <2>1, <2>2 DEF TrueInv, SvcsInv, SoundInv, Succeeded, Counts
  <2>5. Services(ofPeer)' = Services(ofPeer)
    BY <2>1 DEF Services
  <2>6. Len(table') = 0 /\ DOMAIN table' = {}
    BY <2>1, <2>4
  <2>7. CASE svcs # <<>>
    <3>1. 0 \in Until(ofPeer, 0)
      <4>1. \A k \in DOMAIN Gatt[ofPeer] : Gatt[ofPeer][k].svc <= 0 <=> k <= 0
        BY <2>3, GattFact
      <4>2. 0 \in 0 .. Len(Gatt[ofPeer])
        BY <2>3, GattFact
      <4> QED
        BY <4>1, <4>2 DEF Until
    <3>2. ChrsInv'
      BY <2>1, <2>6, <2>7, <3>1 DEF ChrsInv, Succeeded, Until
    <3>3. discovered' = FALSE
      BY <2>1, <2>7 DEF BlexTypes, OpInv, Discovery
    <3> QED
      BY <2>1, <2>4, <2>5, <2>6, <2>7, <3>2, <3>3 DEF TrueInv
  <2>8. CASE svcs = <<>>
    <3>1. Len(Ends[ofPeer]) = 0
      <4>1. Len(Services(ofPeer)) = 0
        BY <2>4, <2>8
      <4> QED
        BY <2>3, <4>1, ServicesFact
    <3>2. Len(Gatt[ofPeer]) = 0
      <4>1. \A k \in 1 .. Len(Gatt[ofPeer]) : Gatt[ofPeer][k].svc \in 1 .. 0
        BY <2>3, <3>1, GattFact
      <4>2. Len(Gatt[ofPeer]) \in Nat
        BY <2>3, GattFact
      <4>3. Len(Gatt[ofPeer]) > 0 => 1 \in 1 .. Len(Gatt[ofPeer])
        BY <4>2
      <4> QED
        BY <4>1, <4>2, <4>3
    <3> QED
      BY <2>1, <2>4, <2>5, <2>6, <2>8, <3>2 DEF TrueInv
  <2> QED
    BY <2>7, <2>8
<1>10. CASE HaveCharacteristics
  <2>1. /\ pc = "done" /\ op = "chrs" /\ res = "ok"
        /\ table' = Bounded(table) /\ Proceed(Bounded(table), 1)
        /\ UNCHANGED <<svcs, ofPeer, sound, torn, gaveUp>>
    BY <1>10 DEF HaveCharacteristics, history
  <2>2. SUFFICES ASSUME Counts PROVE TrueInv'
    BY <2>1 DEF TrueInv, Counts
  <2>3. ofPeer \in Peers
    BY <2>1, <2>2, Running DEF CurInv, Counts, Discovery
  <2>4. /\ svcs = Services(ofPeer) /\ Len(table) \in Until(ofPeer, svcIdx)
        /\ \A k \in DOMAIN table : Good(k)
    BY <2>1, <2>2 DEF TrueInv, ChrsInv, Succeeded
  <2>5. /\ table' \in Seq(Entry) /\ Len(table') = Len(table)
        /\ \A k \in 1 .. Len(table) :
             /\ table'[k].svc = table[k].svc /\ table'[k].def = table[k].def
             /\ table'[k].val = table[k].val /\ table'[k].cccd = table[k].cccd
             /\ table[k].svc = svcIdx =>
                  table'[k].end = IF k < Len(table) THEN table[k + 1].def - 1 ELSE svcs[svcIdx].end
    BY <2>1, BoundedFact DEF BlexTypes
  <2>6. svcIdx \in 1 .. Len(svcs) /\ discovered = FALSE /\ table \in Seq(Entry)
    BY <2>1 DEF BlexTypes, OpInv, Discovery, TableTypes
  <2>7. DOMAIN table' = 1 .. Len(table) /\ DOMAIN table = 1 .. Len(table) /\ Len(table) \in Nat
    BY <2>5, <2>6
  <2>8. \A k \in DOMAIN table' : Good(k)'
    BY <2>1, <2>4, <2>5, <2>7 DEF Good
  <2>9. \A c \in DOMAIN table' : table'[c].svc = svcIdx =>
          table'[c].end = IF c < Len(table') THEN table'[c + 1].def - 1 ELSE svcs[svcIdx].end
    <3>1. \A c \in 1 .. Len(table) : c < Len(table) => table'[c + 1].def = table[c + 1].def
      BY <2>5, <2>7
    <3> QED
      BY <2>5, <2>7, <3>1
  <2> QED
    BY <2>1, <2>3, <2>4, <2>5, <2>6, <2>8, <2>9, ProceedTrue
<1>11. CASE HaveDescriptors
  <2>1. /\ pc = "done" /\ op = "dscs" /\ table' = table /\ Proceed(table', chrIdx + 1)
        /\ UNCHANGED <<svcs, ofPeer, sound, torn, gaveUp>>
    BY <1>11 DEF HaveDescriptors, history
  <2>2. SUFFICES ASSUME Counts PROVE TrueInv'
    BY <2>1 DEF TrueInv, Counts
  <2>3. ofPeer \in Peers
    BY <2>1, <2>2, Running DEF CurInv, Counts, Discovery
  <2>4. svcs = Services(ofPeer) /\ DscsInv /\ \A k \in DOMAIN table : Good(k)
    BY <2>1, <2>2 DEF TrueInv
  <2>5. /\ svcIdx \in 1 .. Len(svcs) /\ discovered = FALSE /\ table' \in Seq(Entry)
        /\ chrIdx + 1 \in Nat
    BY <2>1 DEF BlexTypes, OpInv, Discovery, TableTypes
  <2>6. \A k \in DOMAIN table' : Good(k)'
    BY <2>1, <2>4 DEF Good
  <2>7. /\ Len(table') \in Until(ofPeer, svcIdx)
        /\ \A c \in DOMAIN table' : table'[c].svc = svcIdx =>
             table'[c].end = IF c < Len(table') THEN table'[c + 1].def - 1 ELSE svcs[svcIdx].end
    BY <2>1, <2>4 DEF DscsInv, EndOf
  <2> QED
    BY <2>1, <2>3, <2>4, <2>5, <2>6, <2>7, ProceedTrue
<1>12. CASE \E j \in jobs : Report(j)
  BY <1>12, TrueReport
<1>13. CASE \E j \in jobs : Complete(j)
  <2>1. PICK j \in jobs : Complete(j)
    BY <1>13
  <2>2. UNCHANGED <<op, svcs, table, svcIdx, chrIdx, discovered, ofPeer, pc, res, sound, torn, gaveUp>>
    BY <2>1 DEF Complete, dbVars, consoleVars
  <2>3. jobs' = jobs \ {j} /\ (rc' = "ok" => j.left = <<>>)
    BY <2>1 DEF Complete, Give
  <2>4. Counts' => Counts
    BY <2>2 DEF Counts
  <2>5. CASE pc # "wait" \/ op \notin Discovery \/ ~Counts
    <3>1. op \in Discovery /\ Counts' => (Succeeded' => Succeeded) /\ pc # "wait"
      BY <2>2, <2>4, <2>5 DEF Succeeded
    <3> QED
      BY <2>2, <2>4, <3>1, TrueFrame
  <2>6. CASE pc = "wait" /\ op \in Discovery /\ Counts
    <3>1. jobs = {j} /\ discovered = FALSE
      BY <2>1, <2>6, Waiting, OneMine DEF BlexTypes, OpInv
    <3>2. jobs' = {} /\ (Succeeded' => j.left = <<>>) /\ pc' = "wait"
      BY <2>2, <2>3, <2>6, <3>1 DEF Succeeded
    <3>3. links # {}
      BY <2>1 DEF BlexTypes, JobTypes
    <3>4. ofPeer \in Peers
      BY <2>6, <3>3, Running
    <3>5. svcs \in Seq(Service) /\ table \in Seq(Entry)
      BY DEF BlexTypes, TableTypes
    <3>6. CASE op = "svcs"
      <4>1. svcs \o j.left = Services(ofPeer)
        BY <2>6, <3>6, <2>1 DEF TrueInv, SvcsInv
      <4>2. svcs \o <<>> = svcs
        BY <3>5
      <4>3. SvcsInv'
        BY <2>2, <3>2, <4>1, <4>2 DEF SvcsInv, Services
      <4> QED
        BY <2>2, <3>1, <3>6, <4>3 DEF TrueInv
    <3>7. CASE op = "chrs"
      <4>1. Len(table) + Len(j.left) \in Until(ofPeer, svcIdx)
        BY <2>1, <2>6, <3>7 DEF TrueInv, ChrsInv
      <4>2. Len(table) + Len(<<>>) = Len(table)
        BY <3>5
      <4>3. ChrsInv'
        BY <2>2, <3>2, <4>1, <4>2 DEF ChrsInv, Until
      <4>4. (svcs = Services(ofPeer) /\ \A k \in DOMAIN table : Good(k))'
        BY <2>2, <2>6, <3>7 DEF TrueInv, Services, Good
      <4> QED
        BY <2>2, <3>1, <3>7, <4>3, <4>4 DEF TrueInv
    <3>8. CASE op = "dscs"
      <4>1. DscsInv'
        BY <2>2, <2>6, <3>2, <3>8 DEF TrueInv, DscsInv, Until, EndOf
      <4>2. (svcs = Services(ofPeer) /\ \A k \in DOMAIN table : Good(k))'
        BY <2>2, <2>6, <3>8 DEF TrueInv, Services, Good
      <4> QED
        BY <2>2, <3>1, <3>8, <4>1, <4>2 DEF TrueInv
    <3> QED
      BY <2>6, <3>6, <3>7, <3>8 DEF Discovery
  <2> QED
    BY <2>5, <2>6
<1>14. CASE PeerPairs
  <2>1. /\ UNCHANGED <<op, svcs, table, svcIdx, chrIdx, discovered, ofPeer>>
        /\ Counts' => Counts
    BY <1>14 DEF PeerPairs, dbVars, consoleVars, Counts
  <2>2. op \in Discovery /\ Counts' =>
          /\ pc' = "wait" => pc = "wait" /\ jobs' \subseteq jobs
          /\ pc' = "start" => pc = "start"
          /\ Succeeded' => Succeeded
    BY <1>14 DEF PeerPairs, dbVars, consoleVars, Counts
  <2> QED
    BY <2>1, <2>2, TrueFrame
<1>15. CASE DiscComplete
  <2>1. /\ UNCHANGED <<op, svcs, table, svcIdx, chrIdx, discovered, ofPeer, pc, res, jobs>>
        /\ Counts' <=> Counts
        /\ disc = "explorer"
    BY <1>15 DEF DiscComplete, dbVars, consoleVars, Counts
  <2>2. op \in Discovery /\ Counts => pc # "wait"
    BY <2>1, Waiting
  <2>3. pc # "wait" => (Succeeded' => Succeeded)
    BY <2>1 DEF Succeeded
  <2> QED
    BY <2>1, <2>2, <2>3, TrueFrame
<1>16. CASE GapConnect
  <2>1. /\ UNCHANGED <<op, svcs, table, svcIdx, chrIdx, discovered, ofPeer, pc, res, jobs>>
        /\ Counts' <=> Counts
        /\ attempt # None
    BY <1>16 DEF GapConnect, dbVars, consoleVars, Counts
  <2>2. op \in Discovery /\ Counts => pc # "wait"
    BY <2>1, Waiting
  <2>3. pc # "wait" => (Succeeded' => Succeeded)
    BY <2>1 DEF Succeeded
  <2> QED
    BY <2>1, <2>2, <2>3, TrueFrame
<1>17. CASE LinkLost
  <2>1. /\ UNCHANGED <<op, svcs, table, svcIdx, chrIdx, discovered, ofPeer, sound, gaveUp>>
        /\ (torn' => torn \/ op \in Discovery) /\ (torn \/ op \in Discovery => torn')
    BY <1>17 DEF LinkLost, consoleVars, dbVars
  <2> QED
    BY <2>1, TrueFrame DEF Counts
<1>18. CASE GapDisconnect
  <2>1. /\ discovered' = FALSE
        /\ UNCHANGED <<op, svcs, table, svcIdx, chrIdx, ofPeer, pc, res, jobs, sem, rc, sound,
                       torn, gaveUp>>
    BY <1>18 DEF GapDisconnect, opVars, consoleVars, history
  <2>2. CASE op \in Discovery
    <3>1. discovered' = discovered
      BY <2>1, <2>2 DEF BlexTypes, OpInv
    <3> QED
      BY <2>1, <3>1, TrueFrame DEF Counts, Succeeded
  <2>3. CASE op \notin Discovery
    BY <2>1, <2>3, TrueIdle
  <2> QED
    BY <2>2, <2>3
<1>19. CASE CapScanStart
  <2>1. /\ UNCHANGED <<op, svcs, table, svcIdx, chrIdx, discovered, ofPeer>>
        /\ Counts' => Counts
    BY <1>19 DEF CapScanStart, hostVars, opVars, dbVars, consoleVars, history, Counts
  <2>2. op \in Discovery /\ Counts' =>
          /\ pc' = "wait" => pc = "wait" /\ jobs' \subseteq jobs
          /\ pc' = "start" => pc = "start"
          /\ Succeeded' => Succeeded
    BY <1>19 DEF CapScanStart, hostVars, opVars, dbVars, consoleVars, history, Succeeded
  <2> QED
    BY <2>1, <2>2, TrueFrame
<1>20. CASE CapScanBegin
  <2>1. /\ UNCHANGED <<op, svcs, table, svcIdx, chrIdx, discovered, ofPeer>>
        /\ Counts' => Counts
    BY <1>20 DEF CapScanBegin, opVars, dbVars, consoleVars, Counts
  <2>2. op \in Discovery /\ Counts' =>
          /\ pc' = "wait" => pc = "wait" /\ jobs' \subseteq jobs
          /\ pc' = "start" => pc = "start"
          /\ Succeeded' => Succeeded
    BY <1>20 DEF CapScanBegin, opVars, dbVars, consoleVars, Succeeded
  <2> QED
    BY <2>1, <2>2, TrueFrame
<1>21. CASE CapScanEnd
  <2>1. /\ UNCHANGED <<op, svcs, table, svcIdx, chrIdx, discovered, ofPeer>>
        /\ Counts' => Counts
    BY <1>21 DEF CapScanEnd, opVars, dbVars, consoleVars, Counts
  <2>2. op \in Discovery /\ Counts' =>
          /\ pc' = "wait" => pc = "wait" /\ jobs' \subseteq jobs
          /\ pc' = "start" => pc = "start"
          /\ Succeeded' => Succeeded
    BY <1>21 DEF CapScanEnd, opVars, dbVars, consoleVars, Succeeded
  <2> QED
    BY <2>1, <2>2, TrueFrame
<1>22. CASE CapDiscComplete
  <2>1. /\ UNCHANGED <<op, svcs, table, svcIdx, chrIdx, discovered, ofPeer>>
        /\ Counts' => Counts
    BY <1>22 DEF CapDiscComplete, opVars, dbVars, consoleVars, Counts
  <2>2. op \in Discovery /\ Counts' =>
          /\ pc' = "wait" => pc = "wait" /\ jobs' \subseteq jobs
          /\ pc' = "start" => pc = "start"
          /\ Succeeded' => Succeeded
    BY <1>22 DEF CapDiscComplete, opVars, dbVars, consoleVars, Succeeded
  <2> QED
    BY <2>1, <2>2, TrueFrame
<1>23. CASE UNCHANGED blexVars
  BY <1>23, TrueFrame
     DEF blexVars, hostVars, opVars, connVars, dbVars, consoleVars, capVars, history,
         Counts, Succeeded
<1> QED
  BY <1>1, <1>2, <1>3, <1>4, <1>5, <1>6, <1>7, <1>8, <1>9, <1>10, <1>11, <1>12, <1>13,
     <1>14, <1>15, <1>16, <1>17, <1>18, <1>19, <1>20, <1>21, <1>22, <1>23
     DEF BlexNext, Console, Host, CaptureTask


LEMMA InitBlexInv == BlexInit => OwnedInv /\ CurInv /\ OwnInv /\ SoundInv /\ TrueInv
<1> SUFFICES ASSUME BlexInit PROVE OwnedInv /\ CurInv /\ OwnInv /\ SoundInv /\ TrueInv
  OBVIOUS
<1>1. OwnedInv /\ CurInv
  BY DEF BlexInit, OwnedInv, CurInv, Discovery
<1>2. OwnInv /\ SoundInv /\ TrueInv
  BY DEF BlexInit, OwnInv, SoundInv, TrueInv, Counts, Discovery
<1> QED
  BY <1>1, <1>2

LEMMA BlexSafe ==
  BlexSpec => [](BlexTypes /\ OwnedInv /\ CurInv /\ OwnInv /\ SoundInv /\ TrueInv)
<1>1. BlexInit => BlexTypes /\ OwnedInv /\ CurInv /\ OwnInv /\ SoundInv /\ TrueInv
  BY InitBlexTypes, InitBlexInv
<1>2. /\ BlexTypes /\ OwnedInv /\ CurInv /\ OwnInv /\ SoundInv /\ TrueInv /\ [BlexNext]_blexVars
      => (BlexTypes /\ OwnedInv /\ CurInv /\ OwnInv /\ SoundInv /\ TrueInv)'
  BY BlexTypesStep, OwnedStep, CurStep, OwnStep, SoundStep, TrueStep
<1> QED
  BY <1>1, <1>2, PTL DEF BlexSpec

\* A result the console acts upon is of the procedure it started, and what a read returns
\* is the value of the handle it asked for.
THEOREM ResultIsOwn == BlexSpec => []OwnResult
<1>1. BlexTypes /\ OwnInv => OwnResult
  BY DEF OwnInv, Had, OwnResult
<1> QED
  BY BlexSafe, <1>1, PTL

\* A sound discovery finds the database of the device: every characteristic, in its
\* service and with its own CCCD.
THEOREM DiscoversTheTruth == BlexSpec => []DatabaseTrue
<1>1. BlexTypes /\ CurInv /\ OwnedInv /\ TrueInv => DatabaseTrue
  <2>1. SUFFICES ASSUME BlexTypes, CurInv, OwnedInv, TrueInv, discovered, Counts
        PROVE  /\ Len(table) = Len(Gatt[ofPeer])
               /\ \A k \in DOMAIN table :
                    LET x == Gatt[ofPeer][k] IN
                      /\ svcs[table[k].svc].svc = x.svc
                      /\ table[k].def = x.def /\ table[k].val = x.val
                      /\ table[k].cccd \in {x.cccd, 0}
    BY DEF DatabaseTrue, Counts
  <2>2. ofPeer \in Peers
    BY <2>1, ExplorerAssumption DEF CurInv, Counts, BlexTypes, ConnTypes, HostTypes
  <2>3. svcs = Services(ofPeer) /\ (\A k \in DOMAIN table : Good(k)) /\ Len(table) = Len(Gatt[ofPeer])
    BY <2>1 DEF TrueInv
  <2>4. ASSUME NEW k \in DOMAIN table PROVE svcs[table[k].svc].svc = Gatt[ofPeer][k].svc
    <3>1. k \in DOMAIN Gatt[ofPeer] /\ table[k].svc = Gatt[ofPeer][k].svc
      BY <2>3 DEF Good
    <3>2. Gatt[ofPeer][k].svc \in 1 .. Len(Ends[ofPeer])
      BY <2>2, <3>1, GattFact
    <3> QED
      BY <2>2, <2>3, <3>1, <3>2, ServicesFact
  <2> QED
    BY <2>3, <2>4 DEF Good
<1> QED
  BY BlexSafe, <1>1, PTL

\* What the console goes by is the database of the device it is connected to.
THEOREM DatabaseIsCurrent == BlexSpec => []DatabaseCurrent
<1>1. CurInv => DatabaseCurrent
  BY DEF CurInv, DatabaseCurrent
<1> QED
  BY BlexSafe, <1>1, PTL

\* Every link is the one the console can end, unless a connect was given up on.
THEOREM EveryLinkOwned == BlexSpec => []LinkOwned
<1>1. OwnedInv => LinkOwned
  BY DEF OwnedInv, LinkOwned
<1> QED
  BY BlexSafe, <1>1, PTL

-----------------------------------------------------------------------------
(***************************************************************************)
(* The poll: the invariant.                                                *)
(***************************************************************************)

Chosen ==
  tpc = "subscribe" =>
    /\ Decodes(want)
    /\ conn # "none" /\ hd => Carries(mtu, want)
    /\ refused => want = Proven

CountTaken == tpc = "narrow" => count = width

Pending == tpc \in {"write", "undo"} => left <= unans

IInv ==
  /\ TypeOK
  /\ WidthFits /\ WidthDecodes /\ RefusedKept /\ CountsWhatLeft
  /\ Chosen /\ CountTaken /\ Pending

USE PollAssumption

-----------------------------------------------------------------------------
LEMMA FallbackFact ==
  ASSUME TypeOK
  PROVE  /\ Fallback \in {0, Proven}
         /\ Fallback # 0 => Decodes(Fallback)
         /\ Decodes(Wide)
  BY DEF Fallback, Decodes, TypeOK

LEMMA AskedFact ==
  ASSUME TypeOK
  PROVE  Asked = Wide \/ (Asked = Fallback /\ Asked # 0)
  BY DEF Asked

LEMMA UpToFact ==
  ASSUME NEW n \in 0 .. CounterMax
  PROVE  UpTo(n) \in 0 .. CounterMax /\ n <= UpTo(n) /\ UpTo(n) <= n + 1
         /\ (UpTo(n) = n + 1 \/ n = CounterMax)
  BY DEF UpTo

LEMMA InitInv == Init => IInv
<1> SUFFICES ASSUME Init PROVE IInv
  OBVIOUS
<1>1. air \in Seq(Widths) /\ Len(air) <= MaxAir
  BY DEF Init
<1>2. 0 \in 0 .. CounterMax /\ 0 \in Widths
  BY DEF Widths
<1>3. serves \subseteq {Wide, Proven}
  BY DEF Init
<1>4. TypeOK
  BY <1>1, <1>2, <1>3 DEF Init, TypeOK, TaskPcs
<1> QED
  BY <1>4 DEF Init, IInv, WidthFits, WidthDecodes, RefusedKept, CountsWhatLeft, Chosen,
              CountTaken, Pending

-----------------------------------------------------------------------------
(***************************************************************************)
(* Each variable keeps its type; one step per action.                      *)
(***************************************************************************)
LEMMA StepType == IInv /\ [Next]_vars => TypeOK'
<1> SUFFICES ASSUME TypeOK, [Next]_vars PROVE TypeOK'
  BY DEF IInv
<1> USE DEF TypeOK, Widths, TaskPcs, linkVars, peerVars, taskVars
<1>1. CASE Connect
  BY <1>1 DEF Connect
<1>2. CASE ChooseWidth
  BY <1>2, AskedFact, FallbackFact DEF ChooseWidth
<1>3. CASE SetupFails
  BY <1>3 DEF SetupFails
<1>4. CASE Subscribed
  BY <1>4 DEF Subscribed
<1>5. CASE LinkDrop
  <2>1. air' \in Seq(Widths) /\ Len(air') <= MaxAir
    BY <1>5 DEF LinkDrop
  <2>2. conn' \in {"none", "up", "closing"} /\ tpc' = "idle"
    BY <1>5 DEF LinkDrop
  <2>3. 0 \in 0 .. CounterMax
    OBVIOUS
  <2> QED BY <1>5, <2>1, <2>2, <2>3 DEF LinkDrop
<1>6. CASE PollDue
  BY <1>6 DEF PollDue
<1>7. CASE Narrow
  <2>1. air' \in Seq(Widths) /\ Len(air') <= MaxAir
    BY <1>7 DEF Narrow
  <2>2. width' \in Widths /\ count' \in Widths
    BY <1>7, FallbackFact DEF Narrow
  <2>3. unans' \in 0 .. CounterMax /\ left' \in 0 .. CounterMax /\ refused' \in BOOLEAN
    <3>1. CASE missed >= Tries /\ Fallback # 0 /\ count > Fallback
      BY <1>7, <3>1 DEF Narrow
    <3>2. CASE ~(missed >= Tries /\ Fallback # 0 /\ count > Fallback)
      BY <1>7, <3>2 DEF Narrow
    <3> QED BY <3>1, <3>2
  <2> QED BY <1>7, <2>1, <2>2, <2>3 DEF Narrow
<1>8. CASE Count
  BY <1>8, UpToFact DEF Count
<1>9. CASE Write
  <2>1. air' \in Seq(Widths) /\ Len(air') <= MaxAir
    BY <1>9 DEF Write
  <2> QED BY <1>9, <2>1, UpToFact DEF Write
<1>10. CASE WriteFails
  BY <1>10 DEF WriteFails
<1>11. CASE Undo
  BY <1>11 DEF Undo
<1>12. CASE Answer
  BY <1>12 DEF Answer
<1>13. CASE Lost
  BY <1>13 DEF Lost
<1>14. CASE OnDisconnect
  <2>1. air' \in Seq(Widths) /\ Len(air') <= MaxAir
    BY <1>14 DEF OnDisconnect
  <2> QED BY <1>14, <2>1 DEF OnDisconnect
<1>15. CASE UNCHANGED vars
  BY <1>15 DEF vars
<1> QED
  BY <1>1, <1>2, <1>3, <1>4, <1>5, <1>6, <1>7, <1>8, <1>9, <1>10, <1>11, <1>12, <1>13,
     <1>14, <1>15 DEF Next, TaskStep

(***************************************************************************)
(* What the task decides stays good until it acts.                         *)
(***************************************************************************)
LEMMA StepWidth ==
  IInv /\ [Next]_vars
    => /\ WidthFits' /\ WidthDecodes' /\ RefusedKept'
       /\ Chosen' /\ CountTaken'
<1> SUFFICES ASSUME IInv, [Next]_vars
             PROVE  /\ WidthFits' /\ WidthDecodes' /\ RefusedKept'
                    /\ Chosen' /\ CountTaken'
  OBVIOUS
<1>0. TypeOK
  BY DEF IInv
<1> USE DEF IInv, WidthFits, WidthDecodes, RefusedKept, Chosen, CountTaken, Decodes,
            Fallback, Carries, linkVars, peerVars, taskVars
<1>1. CASE Connect
  BY <1>1 DEF Connect
<1>2. CASE ChooseWidth
  <2>1. Decodes(want') \/ tpc' # "subscribe"
    BY <1>0, <1>2, AskedFact, FallbackFact DEF ChooseWidth
  <2>2. tpc' = "subscribe" /\ conn # "none" /\ hd => Carries(mtu, want')
    BY <1>0, <1>2 DEF ChooseWidth, Mtu
  <2>3. tpc' = "subscribe" /\ refused => want' = Proven
    BY <1>0, <1>2, FallbackFact DEF ChooseWidth, Asked
  <2> QED BY <1>2, <2>1, <2>2, <2>3 DEF ChooseWidth
<1>3. CASE SetupFails
  BY <1>3 DEF SetupFails
<1>4. CASE Subscribed
  BY <1>4 DEF Subscribed
<1>5. CASE LinkDrop
  BY <1>5 DEF LinkDrop
<1>6. CASE PollDue
  BY <1>6 DEF PollDue
<1>7. CASE Narrow
  BY <1>0, <1>7, FallbackFact DEF Narrow, TypeOK, Widths
<1>8. CASE Count
  BY <1>8 DEF Count
<1>9. CASE Write
  BY <1>9 DEF Write
<1>10. CASE WriteFails
  BY <1>10 DEF WriteFails
<1>11. CASE Undo
  BY <1>11 DEF Undo
<1>12. CASE Answer
  BY <1>12 DEF Answer
<1>13. CASE Lost
  BY <1>13 DEF Lost
<1>14. CASE OnDisconnect
  BY <1>14 DEF OnDisconnect
<1>15. CASE UNCHANGED vars
  BY <1>15 DEF vars
<1> QED
  BY <1>1, <1>2, <1>3, <1>4, <1>5, <1>6, <1>7, <1>8, <1>9, <1>10, <1>11, <1>12, <1>13,
     <1>14, <1>15 DEF Next, TaskStep

(***************************************************************************)
(* The two counts.                                                         *)
(***************************************************************************)
LEMMA StepCounts == IInv /\ [Next]_vars => CountsWhatLeft' /\ Pending'
<1> SUFFICES ASSUME TypeOK, CountsWhatLeft, Pending, [Next]_vars
             PROVE  CountsWhatLeft' /\ Pending'
  BY DEF IInv
<1>0. unans \in 0 .. CounterMax /\ left \in 0 .. CounterMax
  BY DEF TypeOK
<1> USE <1>0 DEF CountsWhatLeft, Pending, linkVars, peerVars, taskVars
<1>1. CASE Connect
  BY <1>1 DEF Connect
<1>2. CASE ChooseWidth
  BY <1>2 DEF ChooseWidth
<1>3. CASE SetupFails
  BY <1>3 DEF SetupFails
<1>4. CASE Subscribed
  BY <1>4 DEF Subscribed
<1>5. CASE LinkDrop
  BY <1>5 DEF LinkDrop
<1>6. CASE PollDue
  BY <1>6 DEF PollDue
<1>7. CASE Narrow
  BY <1>7 DEF Narrow
<1>8. CASE Count
  BY <1>8, UpToFact DEF Count
<1>9. CASE Write
  <2>1. /\ tpc = "write" /\ tpc' = "idle" /\ unans' = unans /\ left' = UpTo(left)
    BY <1>9 DEF Write
  <2>2. left <= unans /\ unans <= left + 1
    BY <2>1
  <2> QED BY <2>1, <2>2, UpToFact
<1>10. CASE WriteFails
  BY <1>10 DEF WriteFails
<1>11. CASE Undo
  BY <1>11 DEF Undo
<1>12. CASE Answer
  BY <1>12 DEF Answer
<1>13. CASE Lost
  BY <1>13 DEF Lost
<1>14. CASE OnDisconnect
  BY <1>14 DEF OnDisconnect
<1>15. CASE UNCHANGED vars
  BY <1>15 DEF vars
<1> QED
  BY <1>1, <1>2, <1>3, <1>4, <1>5, <1>6, <1>7, <1>8, <1>9, <1>10, <1>11, <1>12, <1>13,
     <1>14, <1>15 DEF Next, TaskStep

LEMMA Inductive == Spec => []IInv
<1>1. IInv /\ [Next]_vars => IInv'
  BY StepType, StepWidth, StepCounts DEF IInv
<1> QED BY InitInv, <1>1, PTL DEF Spec

-----------------------------------------------------------------------------
\* The counters, the widths and the requests under way keep their types.
THEOREM WellTyped == Spec => []TypeOK
<1>1. IInv => TypeOK
  BY DEF IInv
<1> QED BY Inductive, <1>1, PTL

\* However wide the connection: what is asked for never has an answer that the MTU of
\* this connection cuts short.
THEOREM AnswerFits == Spec => []WidthFits
<1>1. IInv => WidthFits
  BY DEF IInv
<1> QED BY Inductive, <1>1, PTL

\* Whatever fields a build has, the poll of a subscribed link has them decoded.
THEOREM AlwaysDecodes == Spec => []WidthDecodes
<1>1. IInv => WidthDecodes
  BY DEF IInv
<1> QED BY Inductive, <1>1, PTL

\* A refusal is remembered over any number of connections.
THEOREM RefusalRemembered == Spec => []RefusedKept
<1>1. IInv => RefusedKept
  BY DEF IInv
<1> QED BY Inductive, <1>1, PTL

\* poll_unanswered is never off by more than the request being written, over any
\* number of polls, failed writes and answers.
THEOREM CountTrue == Spec => []CountsWhatLeft
<1>1. IInv => CountsWhatLeft
  BY DEF IInv
<1> QED BY Inductive, <1>1, PTL
=============================================================================
