---------------------------- MODULE Capture_proofs ----------------------------
(***************************************************************************)
(* The capture task for any number of links, callers, calls and faults and *)
(* any length of the queue: what it publishes is the truth, notifications  *)
(* go into an open file only, and its callers see CaptureApi.  And, at the *)
(* end, the IMU task that a capture starts and joins (ImuLog).             *)
(***************************************************************************)
EXTENDS Capture, ImuLog, SequenceTheorems, FiniteSetTheorems, TLAPS

-----------------------------------------------------------------------------
(***************************************************************************)
(* Types.                                                                  *)
(***************************************************************************)
Link == [conn : BOOLEAN, sub : BOOLEAN, want : BOOLEAN, seen : BOOLEAN, addr : BOOLEAN,
         rx : BOOLEAN]

Radio == [scan : BOOLEAN, ended : BOOLEAN, host : {"up", "down"}]

\* The helpers keep the types.
LEMMA DropType ==
  ASSUME NEW l \in [Links -> Link], NEW S
  PROVE  Drop(l, S) \in [Links -> Link]
BY DEF Drop, Link

LEMMA UnwantedType ==
  ASSUME NEW l \in [Links -> Link]
  PROVE  Unwanted(l) \in [Links -> Link]
BY DEF Unwanted, Link

LEMMA PostType ==
  ASSUME NEW q \in Seq(Messages), Len(q) <= QLen, NEW m \in Messages
  PROVE  Post(q, m) \in Seq(Messages) /\ Len(Post(q, m)) <= QLen
<1>1. QLen \in Nat
  BY CaptureAssumption
<1> QED BY <1>1 DEF Post

LEMMA TailType ==
  ASSUME NEW q \in Seq(Messages), Len(q) <= QLen, q # <<>>
  PROVE  Tail(q) \in Seq(Messages) /\ Len(Tail(q)) <= QLen
<1>1. QLen \in Nat
  BY CaptureAssumption
<1>2. Tail(q) \in Seq(Messages) /\ Len(Tail(q)) = Len(q) - 1 /\ Len(q) \in Nat
  BY HeadTailProperties
<1> QED BY <1>1, <1>2

\* What the task keeps to itself.
TaskType ==
  /\ tpc \in TaskPcs /\ cur \in 1 .. NLinks + 1 /\ up \in 0 .. NLinks
  /\ ret \in {"tick", "wait", "start", "shutdown"} /\ scanRet \in {"tick", "scanwait"}

LinksType == lk \in [Links -> Link]

QueueType == queue \in Seq(Messages) /\ Len(queue) <= QLen

FlagsType ==
  /\ state \in States
  /\ abort \in BOOLEAN /\ recOn \in BOOLEAN /\ bleDown \in BOOLEAN /\ scanning \in BOOLEAN
  /\ downSem \in {0, 1} /\ store \in {"open", "closed"}

HostType == radio \in Radio

CallersType == cpc \in [Callers -> CallerPcs] /\ calls \in Nat /\ faults \in Nat

-----------------------------------------------------------------------------
(***************************************************************************)
(* Where the task is, and what it has done up to there.                    *)
(***************************************************************************)
Resting == {"idle", "scanning", "armed", "done", "error"}

BringPcs == {"bringup", "scanwait", "checkabort", "connect", "setup", "commit", "brought",
             "bringfail"}

\* In link_bring_up(), for do_record_start() or for tick_recording().
InBringUp == tpc \in BringPcs \/ (tpc = "scanflag" /\ scanRet = "scanwait")
Starting == tpc \in {"startlink", "started"} \/ (InBringUp /\ ret = "start")
Running == tpc \in {"reconnect", "checks"} \/ (InBringUp /\ ret = "tick")

\* In scan_begin(), for a scan by itself.
InScan == tpc = "scanfail" \/ (tpc = "scanflag" /\ scanRet = "tick")

Shows(s, r, f) == state = s /\ recOn = r /\ store = f
Quiet == state \in Resting /\ recOn = FALSE /\ store = "closed"

NoneWanted == \A i \in Links : lk[i].want = FALSE
NoneHeld == \A i \in Links : lk[i].conn = FALSE /\ lk[i].want = FALSE

\* The loop over the links, and where its parts return to.
PcInv ==
  /\ tpc = "startlink" \/ InBringUp => cur <= NLinks
  /\ InBringUp => ret \in {"start", "tick"}
  /\ tpc = "startlink" => ret = "start"
  /\ tpc = "startlink" \/ (InBringUp /\ ret = "start") => up < cur
  /\ tpc \in {"stop", "quiesce", "close", "drop", "done"} => ret \in {"tick", "wait", "shutdown"}

\* The state, s_rec_on and the file, at each place.
FileInv ==
  /\ Starting => Shows("connecting", FALSE, "closed")
  /\ tpc = "recon" => Shows("connecting", FALSE, "open")
  /\ tpc = "recording" => Shows("connecting", TRUE, "open")
  /\ Running => Shows("recording", TRUE, "open")
  /\ tpc = "quiesce" => Shows("stopping", TRUE, "open")
  /\ tpc = "close" => Shows("stopping", FALSE, "open")
  /\ tpc \in {"drop", "done"} => Shows("stopping", FALSE, "closed")
  /\ tpc \in {"shutdown", "hoststop", "give"} \/ InScan => Quiet
  /\ tpc \in {"wait", "tick", "stop"} => Quiet \/ Shows("recording", TRUE, "open")

\* The links, at each place.
LinkInv ==
  /\ tpc \in {"wait", "tick", "stop"} /\ state # "recording" => NoneHeld
  /\ tpc \in {"done", "shutdown", "hoststop", "give"} \/ InScan => NoneHeld
  /\ tpc \in {"quiesce", "close", "drop"} => NoneWanted

TypeInv ==
  TaskType /\ LinksType /\ QueueType /\ FlagsType /\ HostType /\ CallersType

PlaceInv == PcInv /\ FileInv /\ LinkInv

CapInv == TypeInv /\ PlaceInv

-----------------------------------------------------------------------------
(***************************************************************************)
(* The steps.                                                              *)
(***************************************************************************)

\* A step of the task keeps what it keeps to itself.
LEMMA TaskTypeStep ==
  ASSUME TaskType, PcInv, TaskStep
  PROVE  TaskType'
<1> USE DEF taskVars, bounds, ScanBegin, ScanEnd, Received, TaskType, TaskPcs, PcInv, InBringUp, BringPcs
<1>n. NLinks \in Nat \ {0}
  BY CaptureAssumption
<1>1. CASE RecvAfterDown
  BY <1>1 DEF RecvAfterDown
<1>2. CASE RecvScanStart
  BY <1>2 DEF RecvScanStart
<1>3. CASE RecvDiscComplete
  BY <1>3 DEF RecvDiscComplete
<1>4. CASE ScanFail
  BY <1>4 DEF ScanFail
<1>5. CASE ScanFlag
  BY <1>5 DEF ScanFlag
<1>6. CASE RecvScanStop
  BY <1>6 DEF RecvScanStop
<1>7. CASE RecvRecStart
  BY <1>7, <1>n DEF RecvRecStart
<1>8. CASE RecvRecStop
  BY <1>8 DEF RecvRecStop
<1>9. CASE RecvDisconnect
  BY <1>9 DEF RecvDisconnect
<1>10. CASE RecvShutdown
  BY <1>10 DEF RecvShutdown
<1>11. CASE QueueTimeout
  BY <1>11 DEF QueueTimeout
<1>12. CASE Tick
  BY <1>12, <1>n DEF Tick
<1>13. CASE ReconnectTry
  BY <1>13 DEF ReconnectTry
<1>14. CASE ReconnectSkip
  BY <1>14, <1>n DEF ReconnectSkip
<1>15. CASE ReconnectEnd
  BY <1>15, <1>n DEF ReconnectEnd
<1>16. CASE Checks
  BY <1>16 DEF Checks
<1>17. CASE StartLink
  BY <1>17 DEF StartLink
<1>18. CASE BringUp
  BY <1>18 DEF BringUp
<1>19. CASE ScanWait
  BY <1>19 DEF ScanWait
<1>20. CASE CheckAbort
  BY <1>20 DEF CheckAbort
<1>21. CASE Connect
  BY <1>21 DEF Connect
<1>22. CASE Setup
  BY <1>22 DEF Setup
<1>23. CASE Commit
  BY <1>23 DEF Commit
<1>24. CASE BringUpDone
  BY <1>24, <1>n DEF BringUpDone
<1>25. CASE NoLinkUp
  BY <1>25 DEF NoLinkUp
<1>26. CASE OpenFile
  BY <1>26 DEF OpenFile
<1>27. CASE RecordOn
  BY <1>27 DEF RecordOn
<1>28. CASE Recording
  BY <1>28 DEF Recording
<1>29. CASE Stop
  BY <1>29 DEF Stop
<1>30. CASE Quiesce
  BY <1>30 DEF Quiesce
<1>31. CASE CloseFile
  BY <1>31 DEF CloseFile
<1>32. CASE DropAll
  BY <1>32 DEF DropAll
<1>33. CASE Done
  BY <1>33 DEF Done
<1>34. CASE Spend
  BY <1>34 DEF Spend
<1>35. CASE HostStop
  BY <1>35 DEF HostStop
<1>36. CASE Give
  BY <1>36 DEF Give
<1> QED BY <1>1, <1>2, <1>3, <1>4, <1>5, <1>6, <1>7, <1>8, <1>9, <1>10, <1>11, <1>12, <1>13, <1>14, <1>15, <1>16, <1>17, <1>18, <1>19, <1>20, <1>21, <1>22, <1>23, <1>24, <1>25, <1>26, <1>27, <1>28, <1>29, <1>30, <1>31, <1>32, <1>33, <1>34, <1>35, <1>36
        DEF TaskStep

\* ... and stays in the loop over the links that it is in.
LEMMA PcStep ==
  ASSUME TaskType, PcInv, FileInv, TaskStep
  PROVE  PcInv'
<1> USE DEF taskVars, bounds, ScanBegin, ScanEnd, Received, TaskType, TaskPcs, PcInv, InBringUp, BringPcs, FileInv, Starting, Running, Shows, Quiet, Resting, InScan, AtRest
<1>n. NLinks \in Nat \ {0}
  BY CaptureAssumption
<1>1. CASE RecvAfterDown
  BY <1>1 DEF RecvAfterDown
<1>2. CASE RecvScanStart
  BY <1>2 DEF RecvScanStart
<1>3. CASE RecvDiscComplete
  BY <1>3 DEF RecvDiscComplete
<1>4. CASE ScanFail
  BY <1>4 DEF ScanFail
<1>5. CASE ScanFlag
  BY <1>5 DEF ScanFlag
<1>6. CASE RecvScanStop
  BY <1>6 DEF RecvScanStop
<1>7. CASE RecvRecStart
  BY <1>7, <1>n DEF RecvRecStart
<1>8. CASE RecvRecStop
  BY <1>8 DEF RecvRecStop
<1>9. CASE RecvDisconnect
  BY <1>9 DEF RecvDisconnect
<1>10. CASE RecvShutdown
  BY <1>10 DEF RecvShutdown
<1>11. CASE QueueTimeout
  BY <1>11 DEF QueueTimeout
<1>12. CASE Tick
  BY <1>12, <1>n DEF Tick
<1>13. CASE ReconnectTry
  BY <1>13 DEF ReconnectTry
<1>14. CASE ReconnectSkip
  BY <1>14, <1>n DEF ReconnectSkip
<1>15. CASE ReconnectEnd
  BY <1>15, <1>n DEF ReconnectEnd
<1>16. CASE Checks
  BY <1>16 DEF Checks
<1>17. CASE StartLink
  BY <1>17 DEF StartLink
<1>18. CASE BringUp
  BY <1>18 DEF BringUp
<1>19. CASE ScanWait
  BY <1>19 DEF ScanWait
<1>20. CASE CheckAbort
  BY <1>20 DEF CheckAbort
<1>21. CASE Connect
  BY <1>21 DEF Connect
<1>22. CASE Setup
  BY <1>22 DEF Setup
<1>23. CASE Commit
  BY <1>23 DEF Commit
<1>24. CASE BringUpDone
  BY <1>24, <1>n DEF BringUpDone
<1>25. CASE NoLinkUp
  BY <1>25 DEF NoLinkUp
<1>26. CASE OpenFile
  BY <1>26 DEF OpenFile
<1>27. CASE RecordOn
  BY <1>27 DEF RecordOn
<1>28. CASE Recording
  BY <1>28 DEF Recording
<1>29. CASE Stop
  BY <1>29 DEF Stop
<1>30. CASE Quiesce
  BY <1>30 DEF Quiesce
<1>31. CASE CloseFile
  BY <1>31 DEF CloseFile
<1>32. CASE DropAll
  BY <1>32 DEF DropAll
<1>33. CASE Done
  BY <1>33 DEF Done
<1>34. CASE Spend
  BY <1>34 DEF Spend
<1>35. CASE HostStop
  BY <1>35 DEF HostStop
<1>36. CASE Give
  BY <1>36 DEF Give
<1> QED BY <1>1, <1>2, <1>3, <1>4, <1>5, <1>6, <1>7, <1>8, <1>9, <1>10, <1>11, <1>12, <1>13, <1>14, <1>15, <1>16, <1>17, <1>18, <1>19, <1>20, <1>21, <1>22, <1>23, <1>24, <1>25, <1>26, <1>27, <1>28, <1>29, <1>30, <1>31, <1>32, <1>33, <1>34, <1>35, <1>36
        DEF TaskStep

\* ... and shows the state, s_rec_on and the file that belong to where it goes: the steps
\* of do_record_start() and do_record_stop() leave none out, whatever fails.
LEMMA FileStep ==
  ASSUME TaskType, FlagsType, PcInv, FileInv, TaskStep
  PROVE  FileInv'
<1> USE DEF taskVars, bounds, ScanBegin, ScanEnd, Received, FlagsType, States, TaskType, TaskPcs, PcInv, InBringUp, BringPcs, FileInv, Starting, Running, Shows, Quiet, Resting, InScan
<1>n. NLinks \in Nat \ {0}
  BY CaptureAssumption
<1>1. CASE RecvAfterDown
  BY <1>1 DEF RecvAfterDown
<1>2. CASE RecvScanStart
  BY <1>2 DEF RecvScanStart
<1>3. CASE RecvDiscComplete
  BY <1>3 DEF RecvDiscComplete
<1>4. CASE ScanFail
  BY <1>4 DEF ScanFail
<1>5. CASE ScanFlag
  BY <1>5 DEF ScanFlag
<1>6. CASE RecvScanStop
  BY <1>6 DEF RecvScanStop
<1>7. CASE RecvRecStart
  BY <1>7, <1>n DEF RecvRecStart
<1>8. CASE RecvRecStop
  BY <1>8 DEF RecvRecStop
<1>9. CASE RecvDisconnect
  BY <1>9 DEF RecvDisconnect
<1>10. CASE RecvShutdown
  BY <1>10 DEF RecvShutdown
<1>11. CASE QueueTimeout
  BY <1>11 DEF QueueTimeout
<1>12. CASE Tick
  BY <1>12, <1>n DEF Tick
<1>13. CASE ReconnectTry
  BY <1>13 DEF ReconnectTry
<1>14. CASE ReconnectSkip
  BY <1>14, <1>n DEF ReconnectSkip
<1>15. CASE ReconnectEnd
  BY <1>15, <1>n DEF ReconnectEnd
<1>16. CASE Checks
  BY <1>16 DEF Checks
<1>17. CASE StartLink
  BY <1>17 DEF StartLink
<1>18. CASE BringUp
  BY <1>18 DEF BringUp
<1>19. CASE ScanWait
  BY <1>19 DEF ScanWait
<1>20. CASE CheckAbort
  BY <1>20 DEF CheckAbort
<1>21. CASE Connect
  BY <1>21 DEF Connect
<1>22. CASE Setup
  BY <1>22 DEF Setup
<1>23. CASE Commit
  BY <1>23 DEF Commit
<1>24. CASE BringUpDone
  BY <1>24, <1>n DEF BringUpDone
<1>25. CASE NoLinkUp
  BY <1>25 DEF NoLinkUp
<1>26. CASE OpenFile
  BY <1>26 DEF OpenFile
<1>27. CASE RecordOn
  BY <1>27 DEF RecordOn
<1>28. CASE Recording
  BY <1>28 DEF Recording
<1>29. CASE Stop
  BY <1>29 DEF Stop
<1>30. CASE Quiesce
  BY <1>30 DEF Quiesce
<1>31. CASE CloseFile
  BY <1>31 DEF CloseFile
<1>32. CASE DropAll
  BY <1>32 DEF DropAll
<1>33. CASE Done
  BY <1>33 DEF Done
<1>34. CASE Spend
  BY <1>34 DEF Spend
<1>35. CASE HostStop
  BY <1>35 DEF HostStop
<1>36. CASE Give
  BY <1>36 DEF Give
<1> QED BY <1>1, <1>2, <1>3, <1>4, <1>5, <1>6, <1>7, <1>8, <1>9, <1>10, <1>11, <1>12, <1>13, <1>14, <1>15, <1>16, <1>17, <1>18, <1>19, <1>20, <1>21, <1>22, <1>23, <1>24, <1>25, <1>26, <1>27, <1>28, <1>29, <1>30, <1>31, <1>32, <1>33, <1>34, <1>35, <1>36
        DEF TaskStep

\* One link, or all of them, with some flags set or cleared.
LEMMA FieldsType ==
  ASSUME LinksType, NEW i \in Links
  PROVE  /\ [lk EXCEPT ![i].addr = FALSE, ![i].seen = FALSE] \in [Links -> Link]
         /\ [lk EXCEPT ![i].addr = TRUE, ![i].seen = TRUE] \in [Links -> Link]
         /\ [lk EXCEPT ![i].conn = TRUE, ![i].sub = FALSE] \in [Links -> Link]
         /\ [lk EXCEPT ![i].want = TRUE] \in [Links -> Link]
         /\ [lk EXCEPT ![i].sub = TRUE] \in [Links -> Link]
         /\ \A v \in BOOLEAN : [lk EXCEPT ![i].rx = v] \in [Links -> Link]
<1> DEFINE x == lk[i]
<1>1. /\ x \in Link /\ lk \in [Links -> Link]
  BY DEF LinksType
<1>2. \A y \in Link, v \in BOOLEAN :
        /\ [y EXCEPT !.conn = v] \in Link
        /\ [y EXCEPT !.sub = v] \in Link
        /\ [y EXCEPT !.want = v] \in Link
  BY DEF Link
<1>3. \A y \in Link, v \in BOOLEAN :
        /\ [y EXCEPT !.addr = v] \in Link
        /\ [y EXCEPT !.seen = v] \in Link
        /\ [y EXCEPT !.rx = v] \in Link
  BY DEF Link
<1> HIDE DEF x
<1>4. \A y \in Link : [lk EXCEPT ![i] = y] \in [Links -> Link]
  BY <1>1
<1>5. [[x EXCEPT !.conn = TRUE] EXCEPT !.sub = FALSE] \in Link
  BY <1>1, <1>2
<1>6. /\ [[x EXCEPT !.addr = FALSE] EXCEPT !.seen = FALSE] \in Link
      /\ [[x EXCEPT !.addr = TRUE] EXCEPT !.seen = TRUE] \in Link
  BY <1>1, <1>3
<1>7. [x EXCEPT !.want = TRUE] \in Link /\ [x EXCEPT !.sub = TRUE] \in Link
  BY <1>1, <1>2
<1>8. \A v \in BOOLEAN : [x EXCEPT !.rx = v] \in Link
  BY <1>1, <1>3
<1> QED BY <1>4, <1>5, <1>6, <1>7, <1>8 DEF x

\* What the assignments to all links come to.
LEMMA SeenCleared ==
  ASSUME LinksType
  PROVE  [i \in Links |-> [lk[i] EXCEPT !.seen = FALSE]] \in [Links -> Link]
<1>1. \A x \in Link : [x EXCEPT !.seen = FALSE] \in Link
  BY DEF Link
<1> QED BY <1>1 DEF LinksType

\* Links that are not wanted.
LEMMA AllUnwanted ==
  ASSUME LinksType
  PROVE  /\ Unwanted(lk) \in [Links -> Link]
         /\ \A i \in Links : Unwanted(lk)[i].want = FALSE
BY UnwantedType DEF LinksType, Link, Unwanted

\* link_drop() of every link, none of them wanted any more.
LEMMA AllDropped ==
  ASSUME LinksType
  PROVE  \A i \in Links : /\ Drop(Unwanted(lk), Links)[i].conn = FALSE
                          /\ Drop(Unwanted(lk), Links)[i].want = FALSE
BY DEF LinksType, Link, Drop, Unwanted

LEMMA StillUnwanted ==
  ASSUME LinksType, NoneWanted
  PROVE  \A i \in Links : /\ Drop(lk, Links)[i].conn = FALSE
                          /\ Drop(lk, Links)[i].want = FALSE
BY DEF LinksType, Link, Drop, NoneWanted

\* A step of the task keeps the types of the flags, ...
LEMMA FlagsTypeStep ==
  ASSUME FlagsType, TaskStep
  PROVE  FlagsType'
<1> USE DEF taskVars, bounds, ScanBegin, ScanEnd, Received, FlagsType, States
<1>n. NLinks \in Nat \ {0}
  BY CaptureAssumption
<1>1. CASE RecvAfterDown
  BY <1>1 DEF RecvAfterDown
<1>2. CASE RecvScanStart
  BY <1>2 DEF RecvScanStart
<1>3. CASE RecvDiscComplete
  BY <1>3 DEF RecvDiscComplete
<1>4. CASE ScanFail
  BY <1>4 DEF ScanFail
<1>5. CASE ScanFlag
  BY <1>5 DEF ScanFlag
<1>6. CASE RecvScanStop
  BY <1>6 DEF RecvScanStop
<1>7. CASE RecvRecStart
  BY <1>7, <1>n DEF RecvRecStart
<1>8. CASE RecvRecStop
  BY <1>8 DEF RecvRecStop
<1>9. CASE RecvDisconnect
  BY <1>9 DEF RecvDisconnect
<1>10. CASE RecvShutdown
  BY <1>10 DEF RecvShutdown
<1>11. CASE QueueTimeout
  BY <1>11 DEF QueueTimeout
<1>12. CASE Tick
  BY <1>12, <1>n DEF Tick
<1>13. CASE ReconnectTry
  BY <1>13 DEF ReconnectTry
<1>14. CASE ReconnectSkip
  BY <1>14, <1>n DEF ReconnectSkip
<1>15. CASE ReconnectEnd
  BY <1>15, <1>n DEF ReconnectEnd
<1>16. CASE Checks
  BY <1>16 DEF Checks
<1>17. CASE StartLink
  BY <1>17 DEF StartLink
<1>18. CASE BringUp
  BY <1>18 DEF BringUp
<1>19. CASE ScanWait
  BY <1>19 DEF ScanWait
<1>20. CASE CheckAbort
  BY <1>20 DEF CheckAbort
<1>21. CASE Connect
  BY <1>21 DEF Connect
<1>22. CASE Setup
  BY <1>22 DEF Setup
<1>23. CASE Commit
  BY <1>23 DEF Commit
<1>24. CASE BringUpDone
  BY <1>24, <1>n DEF BringUpDone
<1>25. CASE NoLinkUp
  BY <1>25 DEF NoLinkUp
<1>26. CASE OpenFile
  BY <1>26 DEF OpenFile
<1>27. CASE RecordOn
  BY <1>27 DEF RecordOn
<1>28. CASE Recording
  BY <1>28 DEF Recording
<1>29. CASE Stop
  BY <1>29 DEF Stop
<1>30. CASE Quiesce
  BY <1>30 DEF Quiesce
<1>31. CASE CloseFile
  BY <1>31 DEF CloseFile
<1>32. CASE DropAll
  BY <1>32 DEF DropAll
<1>33. CASE Done
  BY <1>33 DEF Done
<1>34. CASE Spend
  BY <1>34 DEF Spend
<1>35. CASE HostStop
  BY <1>35 DEF HostStop
<1>36. CASE Give
  BY <1>36 DEF Give
<1> QED BY <1>1, <1>2, <1>3, <1>4, <1>5, <1>6, <1>7, <1>8, <1>9, <1>10, <1>11, <1>12, <1>13, <1>14, <1>15, <1>16, <1>17, <1>18, <1>19, <1>20, <1>21, <1>22, <1>23, <1>24, <1>25, <1>26, <1>27, <1>28, <1>29, <1>30, <1>31, <1>32, <1>33, <1>34, <1>35, <1>36
        DEF TaskStep

\* ... of the queue, ...
LEMMA QueueTypeStep ==
  ASSUME QueueType, TaskStep
  PROVE  QueueType'
<1> USE DEF taskVars, bounds, ScanBegin, ScanEnd
<1>n. NLinks \in Nat \ {0}
  BY CaptureAssumption
<1>q. (\E m \in Messages : Received(m)) => QueueType'
  BY TailType DEF QueueType, Received
<1>u. queue' = queue => QueueType'
  BY DEF QueueType
<1>m. Commands \subseteq Messages /\ {"disc_complete", "disconnect"} \subseteq Messages
  BY DEF Messages
<1>c. {"scan_start", "scan_stop", "rec_start", "rec_stop", "shutdown"} \subseteq Messages
  BY DEF Messages, Commands
<1>1. CASE RecvAfterDown
  BY <1>1, <1>q, <1>m, <1>c DEF RecvAfterDown
<1>2. CASE RecvScanStart
  BY <1>2, <1>q, <1>m, <1>c DEF RecvScanStart
<1>3. CASE RecvDiscComplete
  BY <1>3, <1>q, <1>m, <1>c DEF RecvDiscComplete
<1>4. CASE ScanFail
  BY <1>4, <1>u DEF ScanFail
<1>5. CASE ScanFlag
  BY <1>5, <1>u DEF ScanFlag
<1>6. CASE RecvScanStop
  BY <1>6, <1>q, <1>m, <1>c DEF RecvScanStop
<1>7. CASE RecvRecStart
  BY <1>7, <1>n, <1>q, <1>m, <1>c DEF RecvRecStart
<1>8. CASE RecvRecStop
  BY <1>8, <1>q, <1>m, <1>c DEF RecvRecStop
<1>9. CASE RecvDisconnect
  BY <1>9, <1>q, <1>m, <1>c DEF RecvDisconnect
<1>10. CASE RecvShutdown
  BY <1>10, <1>q, <1>m, <1>c DEF RecvShutdown
<1>11. CASE QueueTimeout
  BY <1>11, <1>u DEF QueueTimeout
<1>12. CASE Tick
  BY <1>12, <1>n, <1>u DEF Tick
<1>13. CASE ReconnectTry
  BY <1>13, <1>u DEF ReconnectTry
<1>14. CASE ReconnectSkip
  BY <1>14, <1>n, <1>u DEF ReconnectSkip
<1>15. CASE ReconnectEnd
  BY <1>15, <1>n, <1>u DEF ReconnectEnd
<1>16. CASE Checks
  BY <1>16, <1>u DEF Checks
<1>17. CASE StartLink
  BY <1>17, <1>u DEF StartLink
<1>18. CASE BringUp
  BY <1>18, <1>u DEF BringUp
<1>19. CASE ScanWait
  BY <1>19, <1>u DEF ScanWait
<1>20. CASE CheckAbort
  BY <1>20, <1>u DEF CheckAbort
<1>21. CASE Connect
  BY <1>21, <1>u DEF Connect
<1>22. CASE Setup
  BY <1>22, <1>u DEF Setup
<1>23. CASE Commit
  BY <1>23, <1>u DEF Commit
<1>24. CASE BringUpDone
  BY <1>24, <1>n, <1>u DEF BringUpDone
<1>25. CASE NoLinkUp
  BY <1>25, <1>u DEF NoLinkUp
<1>26. CASE OpenFile
  BY <1>26, <1>u DEF OpenFile
<1>27. CASE RecordOn
  BY <1>27, <1>u DEF RecordOn
<1>28. CASE Recording
  BY <1>28, <1>u DEF Recording
<1>29. CASE Stop
  BY <1>29, <1>u DEF Stop
<1>30. CASE Quiesce
  BY <1>30, <1>u DEF Quiesce
<1>31. CASE CloseFile
  BY <1>31, <1>u DEF CloseFile
<1>32. CASE DropAll
  BY <1>32, <1>u DEF DropAll
<1>33. CASE Done
  BY <1>33, <1>u DEF Done
<1>34. CASE Spend
  BY <1>34, <1>u DEF Spend
<1>35. CASE HostStop
  BY <1>35, <1>u DEF HostStop
<1>36. CASE Give
  BY <1>36, <1>u DEF Give
<1> QED BY <1>1, <1>2, <1>3, <1>4, <1>5, <1>6, <1>7, <1>8, <1>9, <1>10, <1>11, <1>12, <1>13, <1>14, <1>15, <1>16, <1>17, <1>18, <1>19, <1>20, <1>21, <1>22, <1>23, <1>24, <1>25, <1>26, <1>27, <1>28, <1>29, <1>30, <1>31, <1>32, <1>33, <1>34, <1>35, <1>36
        DEF TaskStep

\* ... of the host, ...
LEMMA HostTypeStep ==
  ASSUME HostType, TaskStep
  PROVE  HostType'
<1> USE DEF taskVars, bounds, ScanBegin, ScanEnd, Received, HostType, Radio, Cancelled
<1>n. NLinks \in Nat \ {0}
  BY CaptureAssumption
<1>1. CASE RecvAfterDown
  BY <1>1 DEF RecvAfterDown
<1>2. CASE RecvScanStart
  BY <1>2 DEF RecvScanStart
<1>3. CASE RecvDiscComplete
  BY <1>3 DEF RecvDiscComplete
<1>4. CASE ScanFail
  BY <1>4 DEF ScanFail
<1>5. CASE ScanFlag
  BY <1>5 DEF ScanFlag
<1>6. CASE RecvScanStop
  BY <1>6 DEF RecvScanStop
<1>7. CASE RecvRecStart
  BY <1>7, <1>n DEF RecvRecStart
<1>8. CASE RecvRecStop
  BY <1>8 DEF RecvRecStop
<1>9. CASE RecvDisconnect
  BY <1>9 DEF RecvDisconnect
<1>10. CASE RecvShutdown
  BY <1>10 DEF RecvShutdown
<1>11. CASE QueueTimeout
  BY <1>11 DEF QueueTimeout
<1>12. CASE Tick
  BY <1>12, <1>n DEF Tick
<1>13. CASE ReconnectTry
  BY <1>13 DEF ReconnectTry
<1>14. CASE ReconnectSkip
  BY <1>14, <1>n DEF ReconnectSkip
<1>15. CASE ReconnectEnd
  BY <1>15, <1>n DEF ReconnectEnd
<1>16. CASE Checks
  BY <1>16 DEF Checks
<1>17. CASE StartLink
  BY <1>17 DEF StartLink
<1>18. CASE BringUp
  BY <1>18 DEF BringUp
<1>19. CASE ScanWait
  BY <1>19 DEF ScanWait
<1>20. CASE CheckAbort
  BY <1>20 DEF CheckAbort
<1>21. CASE Connect
  BY <1>21 DEF Connect
<1>22. CASE Setup
  BY <1>22 DEF Setup
<1>23. CASE Commit
  BY <1>23 DEF Commit
<1>24. CASE BringUpDone
  BY <1>24, <1>n DEF BringUpDone
<1>25. CASE NoLinkUp
  BY <1>25 DEF NoLinkUp
<1>26. CASE OpenFile
  BY <1>26 DEF OpenFile
<1>27. CASE RecordOn
  BY <1>27 DEF RecordOn
<1>28. CASE Recording
  BY <1>28 DEF Recording
<1>29. CASE Stop
  BY <1>29 DEF Stop
<1>30. CASE Quiesce
  BY <1>30 DEF Quiesce
<1>31. CASE CloseFile
  BY <1>31 DEF CloseFile
<1>32. CASE DropAll
  BY <1>32 DEF DropAll
<1>33. CASE Done
  BY <1>33 DEF Done
<1>34. CASE Spend
  BY <1>34 DEF Spend
<1>35. CASE HostStop
  BY <1>35 DEF HostStop
<1>36. CASE Give
  BY <1>36 DEF Give
<1> QED BY <1>1, <1>2, <1>3, <1>4, <1>5, <1>6, <1>7, <1>8, <1>9, <1>10, <1>11, <1>12, <1>13, <1>14, <1>15, <1>16, <1>17, <1>18, <1>19, <1>20, <1>21, <1>22, <1>23, <1>24, <1>25, <1>26, <1>27, <1>28, <1>29, <1>30, <1>31, <1>32, <1>33, <1>34, <1>35, <1>36
        DEF TaskStep

\* ... of its callers, ...
LEMMA CallersTypeStep ==
  ASSUME CallersType, TaskStep
  PROVE  CallersType'
<1> USE DEF taskVars, bounds, ScanBegin, ScanEnd, Received, CallersType, Fault
<1>n. NLinks \in Nat \ {0}
  BY CaptureAssumption
<1>1. CASE RecvAfterDown
  BY <1>1 DEF RecvAfterDown
<1>2. CASE RecvScanStart
  BY <1>2 DEF RecvScanStart
<1>3. CASE RecvDiscComplete
  BY <1>3 DEF RecvDiscComplete
<1>4. CASE ScanFail
  BY <1>4 DEF ScanFail
<1>5. CASE ScanFlag
  BY <1>5 DEF ScanFlag
<1>6. CASE RecvScanStop
  BY <1>6 DEF RecvScanStop
<1>7. CASE RecvRecStart
  BY <1>7, <1>n DEF RecvRecStart
<1>8. CASE RecvRecStop
  BY <1>8 DEF RecvRecStop
<1>9. CASE RecvDisconnect
  BY <1>9 DEF RecvDisconnect
<1>10. CASE RecvShutdown
  BY <1>10 DEF RecvShutdown
<1>11. CASE QueueTimeout
  BY <1>11 DEF QueueTimeout
<1>12. CASE Tick
  BY <1>12, <1>n DEF Tick
<1>13. CASE ReconnectTry
  BY <1>13 DEF ReconnectTry
<1>14. CASE ReconnectSkip
  BY <1>14, <1>n DEF ReconnectSkip
<1>15. CASE ReconnectEnd
  BY <1>15, <1>n DEF ReconnectEnd
<1>16. CASE Checks
  BY <1>16 DEF Checks
<1>17. CASE StartLink
  BY <1>17 DEF StartLink
<1>18. CASE BringUp
  BY <1>18 DEF BringUp
<1>19. CASE ScanWait
  BY <1>19 DEF ScanWait
<1>20. CASE CheckAbort
  BY <1>20 DEF CheckAbort
<1>21. CASE Connect
  BY <1>21 DEF Connect
<1>22. CASE Setup
  BY <1>22 DEF Setup
<1>23. CASE Commit
  BY <1>23 DEF Commit
<1>24. CASE BringUpDone
  BY <1>24, <1>n DEF BringUpDone
<1>25. CASE NoLinkUp
  BY <1>25 DEF NoLinkUp
<1>26. CASE OpenFile
  BY <1>26 DEF OpenFile
<1>27. CASE RecordOn
  BY <1>27 DEF RecordOn
<1>28. CASE Recording
  BY <1>28 DEF Recording
<1>29. CASE Stop
  BY <1>29 DEF Stop
<1>30. CASE Quiesce
  BY <1>30 DEF Quiesce
<1>31. CASE CloseFile
  BY <1>31 DEF CloseFile
<1>32. CASE DropAll
  BY <1>32 DEF DropAll
<1>33. CASE Done
  BY <1>33 DEF Done
<1>34. CASE Spend
  BY <1>34 DEF Spend
<1>35. CASE HostStop
  BY <1>35 DEF HostStop
<1>36. CASE Give
  BY <1>36 DEF Give
<1> QED BY <1>1, <1>2, <1>3, <1>4, <1>5, <1>6, <1>7, <1>8, <1>9, <1>10, <1>11, <1>12, <1>13, <1>14, <1>15, <1>16, <1>17, <1>18, <1>19, <1>20, <1>21, <1>22, <1>23, <1>24, <1>25, <1>26, <1>27, <1>28, <1>29, <1>30, <1>31, <1>32, <1>33, <1>34, <1>35, <1>36
        DEF TaskStep

\* ... and of the links.
LEMMA LinksTypeStep ==
  ASSUME LinksType, TaskType, PcInv, TaskStep
  PROVE  LinksType'
<1> USE DEF taskVars, bounds, Received, LinksType, TaskType, PcInv, InBringUp, BringPcs
<1>n. NLinks \in Nat \ {0}
  BY CaptureAssumption
<1>d. \A S : Drop(lk, S) \in [Links -> Link] /\ Drop(Unwanted(lk), S) \in [Links -> Link]
  BY DropType, UnwantedType DEF LinksType
<1>c. InBringUp \/ tpc = "startlink" => cur \in Links
  BY <1>n DEF Links
<1>1. CASE RecvAfterDown
  BY <1>1 DEF RecvAfterDown
<1>2. CASE RecvScanStart
  BY <1>2, SeenCleared DEF RecvScanStart
<1>3. CASE RecvDiscComplete
  BY <1>3 DEF RecvDiscComplete
<1>4. CASE ScanFail
  BY <1>4 DEF ScanFail
<1>5. CASE ScanFlag
  BY <1>5 DEF ScanFlag
<1>6. CASE RecvScanStop
  BY <1>6 DEF RecvScanStop
<1>7. CASE RecvRecStart
  BY <1>7, <1>n DEF RecvRecStart
<1>8. CASE RecvRecStop
  BY <1>8 DEF RecvRecStop
<1>9. CASE RecvDisconnect
  BY <1>9 DEF RecvDisconnect
<1>10. CASE RecvShutdown
  BY <1>10 DEF RecvShutdown
<1>11. CASE QueueTimeout
  BY <1>11 DEF QueueTimeout
<1>12. CASE Tick
  BY <1>12, <1>n, <1>d, <1>c DEF Tick
<1>13. CASE ReconnectTry
  BY <1>13 DEF ReconnectTry
<1>14. CASE ReconnectSkip
  BY <1>14, <1>n DEF ReconnectSkip
<1>15. CASE ReconnectEnd
  BY <1>15, <1>n DEF ReconnectEnd
<1>16. CASE Checks
  BY <1>16 DEF Checks
<1>17. CASE StartLink
  <2>1. cur \in Links /\ lk' = [lk EXCEPT ![cur].rx = FALSE]
    BY <1>17, <1>c DEF StartLink
  <2>2. [lk EXCEPT ![cur].rx = FALSE] \in [Links -> Link]
    BY <2>1, FieldsType
  <2> QED BY <2>1, <2>2
<1>18. CASE BringUp
  <2>1. cur \in Links
    BY <1>18, <1>c DEF BringUp
  <2>2. lk' = lk \/ lk' = [lk EXCEPT ![cur].addr = FALSE, ![cur].seen = FALSE]
    BY <1>18 DEF BringUp
  <2>3. [lk EXCEPT ![cur].addr = FALSE, ![cur].seen = FALSE] \in [Links -> Link]
    BY <2>1, FieldsType
  <2> QED BY <2>2, <2>3
<1>19. CASE ScanWait
  BY <1>19 DEF ScanWait
<1>20. CASE CheckAbort
  BY <1>20 DEF CheckAbort
<1>21. CASE Connect
  <2>1. cur \in Links
    BY <1>21, <1>c DEF Connect
  <2>2. lk' = lk \/ lk' = [lk EXCEPT ![cur].conn = TRUE, ![cur].sub = FALSE]
    BY <1>21 DEF Connect
  <2>3. [lk EXCEPT ![cur].conn = TRUE, ![cur].sub = FALSE] \in [Links -> Link]
    BY <2>1, FieldsType
  <2> QED BY <2>2, <2>3
<1>22. CASE Setup
  BY <1>22, <1>d, <1>c DEF Setup, Link
<1>23. CASE Commit
  <2>1. cur \in Links /\ lk' = [lk EXCEPT ![cur].sub = TRUE]
    BY <1>23, <1>c DEF Commit
  <2>2. [lk EXCEPT ![cur].sub = TRUE] \in [Links -> Link]
    BY <2>1, FieldsType
  <2> QED BY <2>1, <2>2
<1>24. CASE BringUpDone
  <2>1. cur \in Links
    BY <1>24, <1>c DEF BringUpDone
  <2>2. lk' = lk \/ lk' = [lk EXCEPT ![cur].want = TRUE]
    BY <1>24 DEF BringUpDone
  <2>3. [lk EXCEPT ![cur].want = TRUE] \in [Links -> Link]
    BY <2>1, FieldsType
  <2> QED BY <2>2, <2>3
<1>25. CASE NoLinkUp
  BY <1>25, <1>d, <1>c DEF NoLinkUp
<1>26. CASE OpenFile
  BY <1>26, <1>d, <1>c DEF OpenFile
<1>27. CASE RecordOn
  BY <1>27 DEF RecordOn
<1>28. CASE Recording
  BY <1>28 DEF Recording
<1>29. CASE Stop
  BY <1>29, <1>d, AllUnwanted DEF Stop
<1>30. CASE Quiesce
  BY <1>30 DEF Quiesce
<1>31. CASE CloseFile
  BY <1>31 DEF CloseFile
<1>32. CASE DropAll
  BY <1>32, <1>d, <1>c DEF DropAll
<1>33. CASE Done
  BY <1>33 DEF Done
<1>34. CASE Spend
  BY <1>34, <1>d, <1>c DEF Spend
<1>35. CASE HostStop
  BY <1>35 DEF HostStop
<1>36. CASE Give
  BY <1>36 DEF Give
<1> QED BY <1>1, <1>2, <1>3, <1>4, <1>5, <1>6, <1>7, <1>8, <1>9, <1>10, <1>11, <1>12, <1>13, <1>14, <1>15, <1>16, <1>17, <1>18, <1>19, <1>20, <1>21, <1>22, <1>23, <1>24, <1>25, <1>26, <1>27, <1>28, <1>29, <1>30, <1>31, <1>32, <1>33, <1>34, <1>35, <1>36
        DEF TaskStep

\* A step of the task drops the links before it shows a state in which none is held.
LEMMA LinkStep ==
  ASSUME LinksType, TaskType, PcInv, FileInv, LinkInv, TaskStep
  PROVE  LinkInv'
<1> USE DEF taskVars, bounds, ScanBegin, ScanEnd, Received, TaskType, TaskPcs, PcInv, InBringUp, BringPcs, FileInv, Starting, Running, Shows, Quiet, Resting, InScan, LinkInv, NoneHeld, NoneWanted
<1>n. NLinks \in Nat \ {0}
  BY CaptureAssumption
<1>1. CASE RecvAfterDown
  BY <1>1 DEF RecvAfterDown
<1>2. CASE RecvScanStart
  BY <1>2 DEF RecvScanStart, LinksType, Link
<1>3. CASE RecvDiscComplete
  BY <1>3 DEF RecvDiscComplete
<1>4. CASE ScanFail
  BY <1>4 DEF ScanFail
<1>5. CASE ScanFlag
  BY <1>5 DEF ScanFlag
<1>6. CASE RecvScanStop
  BY <1>6 DEF RecvScanStop
<1>7. CASE RecvRecStart
  BY <1>7, <1>n DEF RecvRecStart
<1>8. CASE RecvRecStop
  BY <1>8 DEF RecvRecStop
<1>9. CASE RecvDisconnect
  BY <1>9 DEF RecvDisconnect
<1>10. CASE RecvShutdown
  BY <1>10 DEF RecvShutdown
<1>11. CASE QueueTimeout
  BY <1>11 DEF QueueTimeout
<1>12. CASE Tick
  BY <1>12, <1>n DEF Tick
<1>13. CASE ReconnectTry
  BY <1>13 DEF ReconnectTry
<1>14. CASE ReconnectSkip
  BY <1>14, <1>n DEF ReconnectSkip
<1>15. CASE ReconnectEnd
  BY <1>15, <1>n DEF ReconnectEnd
<1>16. CASE Checks
  BY <1>16 DEF Checks
<1>17. CASE StartLink
  BY <1>17 DEF StartLink
<1>18. CASE BringUp
  BY <1>18 DEF BringUp
<1>19. CASE ScanWait
  BY <1>19 DEF ScanWait
<1>20. CASE CheckAbort
  BY <1>20 DEF CheckAbort
<1>21. CASE Connect
  BY <1>21 DEF Connect
<1>22. CASE Setup
  BY <1>22 DEF Setup
<1>23. CASE Commit
  BY <1>23 DEF Commit
<1>24. CASE BringUpDone
  BY <1>24, <1>n DEF BringUpDone
<1>25. CASE NoLinkUp
  BY <1>25, AllDropped DEF NoLinkUp
<1>26. CASE OpenFile
  BY <1>26, AllDropped DEF OpenFile
<1>27. CASE RecordOn
  BY <1>27 DEF RecordOn
<1>28. CASE Recording
  BY <1>28 DEF Recording
<1>29. CASE Stop
  BY <1>29, AllDropped, AllUnwanted DEF Stop
<1>30. CASE Quiesce
  BY <1>30 DEF Quiesce
<1>31. CASE CloseFile
  BY <1>31 DEF CloseFile
<1>32. CASE DropAll
  BY <1>32, StillUnwanted DEF DropAll
<1>33. CASE Done
  BY <1>33 DEF Done
<1>34. CASE Spend
  BY <1>34, AllDropped DEF Spend
<1>35. CASE HostStop
  BY <1>35 DEF HostStop
<1>36. CASE Give
  BY <1>36 DEF Give
<1> QED BY <1>1, <1>2, <1>3, <1>4, <1>5, <1>6, <1>7, <1>8, <1>9, <1>10, <1>11, <1>12, <1>13, <1>14, <1>15, <1>16, <1>17, <1>18, <1>19, <1>20, <1>21, <1>22, <1>23, <1>24, <1>25, <1>26, <1>27, <1>28, <1>29, <1>30, <1>31, <1>32, <1>33, <1>34, <1>35, <1>36
        DEF TaskStep

\* A step of the task keeps the invariant.
LEMMA TaskStepInv ==
  ASSUME CapInv, TaskStep
  PROVE  CapInv'
BY TaskTypeStep, PcStep, FileStep, FlagsTypeStep, QueueTypeStep, HostTypeStep,
   CallersTypeStep, LinksTypeStep, LinkStep
   DEF CapInv, TypeInv, PlaceInv

\* A callback takes no link up, and wants none.
LEMMA HostStepInv ==
  ASSUME CapInv, HostStep
  PROVE  CapInv'
<1> USE DEF callbackOnly, taskVars
<1>t. LinksType /\ QueueType /\ HostType /\ CallersType /\ FlagsType /\ TaskType
  BY DEF CapInv, TypeInv
<1>1. UNCHANGED <<state, recOn, store, tpc, cur, up, ret, scanRet, abort, bleDown, downSem,
                  cpc, calls>>
  BY DEF HostStep, Report, Notify, OnDisconnect, DiscEnds, OnDiscComplete
<1>2. /\ LinksType'
      /\ \A i \in Links : /\ lk'[i].want = lk[i].want
                          /\ lk'[i].conn = lk[i].conn \/ lk'[i].conn = FALSE
  <2>1. ASSUME NEW i \in Links, Report(i) \/ Notify(i) PROVE <1>2!:
    <3>1. \/ lk' = [lk EXCEPT ![i].addr = TRUE, ![i].seen = TRUE]
          \/ lk' = [lk EXCEPT ![i].rx = TRUE]
      BY <2>1 DEF Report, Notify
    <3>2. \A j \in Links : lk'[j].want = lk[j].want /\ lk'[j].conn = lk[j].conn
      BY <1>t, <3>1 DEF LinksType, Link
    <3>4. /\ [lk EXCEPT ![i].addr = TRUE, ![i].seen = TRUE] \in [Links -> Link]
          /\ [lk EXCEPT ![i].rx = TRUE] \in [Links -> Link]
      BY <1>t, FieldsType
    <3>5. LinksType'
      BY <3>1, <3>4 DEF LinksType
    <3> QED BY <3>2, <3>5
  <2>2. ASSUME NEW i \in Links, OnDisconnect(i) PROVE <1>2!:
    <3>1. lk' = Drop(lk, {i})
      BY <2>2 DEF OnDisconnect
    <3>2. lk' \in [Links -> Link]
      BY <1>t, <3>1, DropType DEF LinksType
    <3> QED BY <1>t, <3>1, <3>2 DEF LinksType, Link, Drop
  <2>3. CASE UNCHANGED lk
    BY <1>t, <2>3 DEF LinksType
  <2> QED BY <2>1, <2>2, <2>3 DEF HostStep, DiscEnds, OnDiscComplete
<1>3. QueueType'
  <2>1. queue' = queue \/ \E m \in {"disconnect", "disc_complete"} : queue' = Post(queue, m)
    BY DEF HostStep, Report, Notify, OnDisconnect, DiscEnds, OnDiscComplete
  <2>2. {"disconnect", "disc_complete"} \subseteq Messages
    BY DEF Messages
  <2> QED BY <1>t, <2>1, <2>2, PostType DEF QueueType
<1>4. HostType' /\ scanning' \in BOOLEAN /\ faults' \in Nat
  <2>1. HostType'
    BY <1>t DEF HostStep, Report, Notify, OnDisconnect, DiscEnds, OnDiscComplete, HostType, Radio
  <2>2. scanning' \in BOOLEAN
    BY <1>t DEF HostStep, Report, Notify, OnDisconnect, DiscEnds, OnDiscComplete, FlagsType
  <2>3. faults' \in Nat
    <3>1. faults' = faults \/ faults' = faults + 1
      BY DEF HostStep, Report, Notify, OnDisconnect, DiscEnds, OnDiscComplete, Fault
    <3> QED BY <1>t, <3>1 DEF CallersType
  <2> QED BY <2>1, <2>2, <2>3
<1>5. FlagsType' /\ TaskType' /\ CallersType'
  BY <1>t, <1>1, <1>4 DEF FlagsType, TaskType, CallersType
<1>6. PcInv' /\ FileInv'
  BY <1>1 DEF CapInv, PlaceInv, PcInv, FileInv, InBringUp, Starting, Running, InScan, Shows, Quiet
<1>7. LinkInv'
  BY <1>1, <1>2 DEF CapInv, PlaceInv, LinkInv, InScan, NoneHeld, NoneWanted
<1> QED BY <1>2, <1>3, <1>4, <1>5, <1>6, <1>7 DEF CapInv, TypeInv, PlaceInv

\* A caller touches the queue and s_abort only.
LEMMA CallerStepInv ==
  ASSUME CapInv, NEW c \in Callers, CallerStep(c)
  PROVE  CapInv'
<1> USE DEF callOnly, taskVars, Called
<1>t. LinksType /\ QueueType /\ HostType /\ CallersType /\ FlagsType /\ TaskType
  BY DEF CapInv, TypeInv
<1>1. UNCHANGED <<state, lk, recOn, bleDown, scanning, store, tpc, cur, up, ret, scanRet, radio,
                  faults>>
  BY DEF CallerStep, CapScanStart, CapScanStop, CapRecordStart, CapRecordStop, PostStop,
         CapBleShutdown, PostShutdown, JoinShutdown
<1>3. QueueType'
  <2>1. queue' = queue \/ \E m \in Commands : queue' = Post(queue, m)
    BY DEF CallerStep, CapScanStart, CapScanStop, CapRecordStart, CapRecordStop, PostStop,
           CapBleShutdown, PostShutdown, JoinShutdown, Commands
  <2> QED BY <1>t, <2>1, PostType DEF QueueType, Messages
<1>4. abort' \in BOOLEAN /\ downSem' \in {0, 1}
  BY <1>t DEF CallerStep, CapScanStart, CapScanStop, CapRecordStart, CapRecordStop, PostStop,
              CapBleShutdown, PostShutdown, JoinShutdown, FlagsType
<1>5. CallersType'
  <2>1. /\ calls' = calls \/ calls' = calls + 1
        /\ cpc' = cpc \/ \E to \in CallerPcs : cpc' = [cpc EXCEPT ![c] = to]
    BY DEF CallerStep, CapScanStart, CapScanStop, CapRecordStart, CapRecordStop, PostStop,
           CapBleShutdown, PostShutdown, JoinShutdown, CallerPcs
  <2> QED BY <1>t, <1>1, <2>1 DEF CallersType
<1>6. LinksType' /\ HostType' /\ FlagsType' /\ TaskType'
  BY <1>t, <1>1, <1>4 DEF LinksType, HostType, FlagsType, TaskType
<1>7. PcInv' /\ FileInv' /\ LinkInv'
  BY <1>1 DEF CapInv, PlaceInv, PcInv, FileInv, LinkInv, InBringUp, Starting, Running, InScan,
              Shows, Quiet, NoneHeld, NoneWanted
<1> QED BY <1>3, <1>5, <1>6, <1>7 DEF CapInv, TypeInv, PlaceInv

\* Every step keeps it, and it holds at the start.
LEMMA StepInv == CapInv /\ [Next]_vars => CapInv'
<1> SUFFICES ASSUME CapInv, [Next]_vars PROVE CapInv'
  OBVIOUS
<1>1. CASE UNCHANGED vars
  <2>1. UNCHANGED <<state, lk, queue, abort, recOn, bleDown, downSem, scanning, store, tpc, cur,
                    up, ret, scanRet, radio, cpc, calls, faults>>
    BY <1>1 DEF vars, taskVars, bounds
  <2>2. TypeInv'
    BY <2>1 DEF CapInv, TypeInv, LinksType, QueueType, HostType, CallersType, FlagsType, TaskType
  <2>3. PlaceInv'
    BY <2>1 DEF CapInv, PlaceInv, PcInv, FileInv, LinkInv, InBringUp, Starting, Running, InScan,
                Shows, Quiet, NoneHeld, NoneWanted
  <2> QED BY <2>2, <2>3 DEF CapInv
<1> QED BY <1>1, TaskStepInv, HostStepInv, CallerStepInv DEF Next

LEMMA InitInv == Init => CapInv
<1> SUFFICES ASSUME Init PROVE CapInv
  OBVIOUS
<1>n. NLinks \in Nat \ {0} /\ QLen \in Nat \ {0}
  BY CaptureAssumption
<1>1. TaskType /\ FlagsType /\ HostType
  <2>1. TaskType
    BY <1>n DEF Init, TaskType, TaskPcs
  <2>2. FlagsType
    BY DEF Init, FlagsType, States
  <2>3. HostType
    BY DEF Init, HostType, Radio
  <2> QED BY <2>1, <2>2, <2>3
<1>2. LinksType /\ NoneHeld
  BY DEF Init, LinksType, Link, NoneHeld
<1>3. QueueType /\ CallersType
  BY <1>n DEF Init, QueueType, CallersType, CallerPcs
<1>4. PcInv /\ FileInv
  BY DEF Init, PcInv, FileInv, InBringUp, BringPcs, Starting, Running, InScan, Shows, Quiet,
         Resting
<1>5. LinkInv
  BY <1>2 DEF Init, LinkInv, InScan
<1> QED BY <1>1, <1>2, <1>3, <1>4, <1>5 DEF CapInv, TypeInv, PlaceInv

\* Every reachable state of the capture task is well typed, with the length of its queue
\* and the bounds of its loops.
THEOREM WellTyped == Spec => []TypeOK
<1>1. CapInv => TypeOK
  BY DEF CapInv, TypeInv, TaskType, LinksType, QueueType, FlagsType, HostType, CallersType,
         Link, Radio, TypeOK
<1> QED BY <1>1, InitInv, StepInv, PTL DEF Spec

\* Notifications are recorded only into an open file, and a file is only open in a state
\* that will close it: whichever links, calls and faults come.
THEOREM RecordsSafely == Spec => []RecordsIntoFile
<1>1. CapInv => RecordsIntoFile
  <2> SUFFICES ASSUME CapInv PROVE RecordsIntoFile
    OBVIOUS
  <2>1. TaskType /\ FlagsType
    BY DEF CapInv, TypeInv
  <2>2. FileInv /\ PcInv
    BY DEF CapInv, PlaceInv
  <2>3. recOn => store = "open"
    BY <2>1, <2>2 DEF TaskType, TaskPcs, FileInv, PcInv, Starting, Running, InBringUp, BringPcs,
                      InScan, Shows, Quiet
  <2>4. store = "open" => state \in {"connecting", "recording", "stopping"}
    BY <2>1, <2>2 DEF TaskType, TaskPcs, FileInv, PcInv, Starting, Running, InBringUp, BringPcs,
                      InScan, Shows, Quiet
  <2> QED BY <2>3, <2>4 DEF RecordsIntoFile
<1> QED BY <1>1, InitInv, StepInv, PTL DEF Spec

\* Whenever the task is back at its queue, the state it published says whether a capture
\* records, is none of those that are passed through, and no link is held without a
\* capture: for any number of links and callers.
THEOREM SaysTheTruth == Spec => []StateTruthful
<1>1. CapInv => StateTruthful
  <2> SUFFICES ASSUME CapInv, AtRest PROVE StateTruthful
    BY DEF StateTruthful
  <2>1. /\ Quiet \/ Shows("recording", TRUE, "open")
        /\ state # "recording" => NoneHeld
    BY DEF CapInv, PlaceInv, FileInv, LinkInv, AtRest
  <2>2. (state = "recording") = recOn
    BY <2>1 DEF Quiet, Shows, Resting
  <2>3. state \notin {"connecting", "stopping"}
    BY <2>1 DEF Quiet, Shows, Resting
  <2>4. \A i \in Links : lk[i].conn \/ lk[i].want => state = "recording"
    BY <2>1 DEF NoneHeld
  <2> QED BY <2>2, <2>3, <2>4 DEF StateTruthful
<1> QED BY <1>1, InitInv, StepInv, PTL DEF Spec

-----------------------------------------------------------------------------
(***************************************************************************)
(* The refinement of CaptureApi.                                           *)
(***************************************************************************)

\* What the mapping makes of each place the task can be at.
LEMMA BusyIs ==
  /\ tpc \in {"stop", "quiesce", "close", "drop", "done"} =>
       Busy = IF ret = "shutdown" THEN "stopspend" ELSE "stop"
  /\ tpc \in {"shutdown", "hoststop"} => Busy = "spend"
  /\ tpc = "give" => Busy = "give"
  /\ tpc \notin {"stop", "quiesce", "close", "drop", "done", "shutdown", "hoststop", "give"} =>
       Busy = IF state = "connecting" THEN "start" ELSE "no"
BY DEF Busy

LEMMA BusyNext ==
  /\ tpc' \in {"stop", "quiesce", "close", "drop", "done"} =>
       Busy' = IF ret' = "shutdown" THEN "stopspend" ELSE "stop"
  /\ tpc' \in {"shutdown", "hoststop"} => Busy' = "spend"
  /\ tpc' = "give" => Busy' = "give"
  /\ tpc' \notin {"stop", "quiesce", "close", "drop", "done", "shutdown", "hoststop", "give"} =>
       Busy' = IF state' = "connecting" THEN "start" ELSE "no"
BY DEF Busy

\* How far BLE has been shut down, before a step and after it.
LEMMA BleIs ==
  ASSUME bleDown \in BOOLEAN
  PROVE  /\ radio.host = "down" => Ble = "down"
         /\ radio.host # "down" => Ble = IF bleDown = TRUE THEN "spent" ELSE "up"
BY DEF Ble

LEMMA BleNext ==
  ASSUME bleDown' \in BOOLEAN
  PROVE  /\ radio'.host = "down" => Ble' = "down"
         /\ radio'.host # "down" => Ble' = IF bleDown' = TRUE THEN "spent" ELSE "up"
BY DEF Ble

\* BLE is shut down for good, at the end of do_ble_shutdown() only.
DownInv ==
  /\ bleDown = TRUE => tpc \in {"wait", "tick", "hoststop", "give"} /\ state = "idle"
  /\ tpc \in {"hoststop", "give"} => bleDown = TRUE
  /\ radio.host = "down" => bleDown = TRUE /\ tpc # "hoststop"
  /\ InScan => state \in {"scanning", "armed"}

\* What a step does to NimBLE.
LEMMA HostKept ==
  ASSUME HostType, TaskStep
  PROVE  tpc = "hoststop" \/ radio'.host = radio.host
<1> USE DEF taskVars, bounds, ScanBegin, ScanEnd, HostType, Radio, Cancelled
<1>1. CASE RecvAfterDown
  BY <1>1 DEF RecvAfterDown
<1>2. CASE RecvScanStart
  BY <1>2 DEF RecvScanStart
<1>3. CASE RecvDiscComplete
  BY <1>3 DEF RecvDiscComplete
<1>4. CASE ScanFail
  BY <1>4 DEF ScanFail
<1>5. CASE ScanFlag
  BY <1>5 DEF ScanFlag
<1>6. CASE RecvScanStop
  BY <1>6 DEF RecvScanStop
<1>7. CASE RecvRecStart
  BY <1>7 DEF RecvRecStart
<1>8. CASE RecvRecStop
  BY <1>8 DEF RecvRecStop
<1>9. CASE RecvDisconnect
  BY <1>9 DEF RecvDisconnect
<1>10. CASE RecvShutdown
  BY <1>10 DEF RecvShutdown
<1>11. CASE QueueTimeout
  BY <1>11 DEF QueueTimeout
<1>12. CASE Tick
  BY <1>12 DEF Tick
<1>13. CASE ReconnectTry
  BY <1>13 DEF ReconnectTry
<1>14. CASE ReconnectSkip
  BY <1>14 DEF ReconnectSkip
<1>15. CASE ReconnectEnd
  BY <1>15 DEF ReconnectEnd
<1>16. CASE Checks
  BY <1>16 DEF Checks
<1>17. CASE StartLink
  BY <1>17 DEF StartLink
<1>18. CASE BringUp
  BY <1>18 DEF BringUp
<1>19. CASE ScanWait
  BY <1>19 DEF ScanWait
<1>20. CASE CheckAbort
  BY <1>20 DEF CheckAbort
<1>21. CASE Connect
  BY <1>21 DEF Connect
<1>22. CASE Setup
  BY <1>22 DEF Setup
<1>23. CASE Commit
  BY <1>23 DEF Commit
<1>24. CASE BringUpDone
  BY <1>24 DEF BringUpDone
<1>25. CASE NoLinkUp
  BY <1>25 DEF NoLinkUp
<1>26. CASE OpenFile
  BY <1>26 DEF OpenFile
<1>27. CASE RecordOn
  BY <1>27 DEF RecordOn
<1>28. CASE Recording
  BY <1>28 DEF Recording
<1>29. CASE Stop
  BY <1>29 DEF Stop
<1>30. CASE Quiesce
  BY <1>30 DEF Quiesce
<1>31. CASE CloseFile
  BY <1>31 DEF CloseFile
<1>32. CASE DropAll
  BY <1>32 DEF DropAll
<1>33. CASE Done
  BY <1>33 DEF Done
<1>34. CASE Spend
  BY <1>34 DEF Spend
<1>35. CASE Give
  BY <1>35 DEF Give
<1> QED BY <1>1, <1>2, <1>3, <1>4, <1>5, <1>6, <1>7, <1>8, <1>9, <1>10, <1>11, <1>12, <1>13, <1>14, <1>15, <1>16, <1>17, <1>18, <1>19, <1>20, <1>21, <1>22, <1>23, <1>24, <1>25, <1>26, <1>27, <1>28, <1>29, <1>30, <1>31, <1>32, <1>33, <1>34, <1>35
        DEF TaskStep, HostStop

\* do_ble_shutdown() goes through its steps in order, and nothing undoes them.
LEMMA DownStep ==
  ASSUME HostType, FlagsType, TaskType, PcInv, FileInv, DownInv, TaskStep
  PROVE  DownInv'
<1> USE DEF taskVars, bounds, ScanBegin, ScanEnd, Received, FlagsType, TaskType, TaskPcs, PcInv, InBringUp, BringPcs, FileInv, Starting, Running, Shows, Quiet, Resting, InScan, DownInv
<1>n. NLinks \in Nat \ {0}
  BY CaptureAssumption
<1>h. tpc = "hoststop" \/ radio'.host = radio.host
  BY HostKept
<1>1. CASE RecvAfterDown
  BY <1>1, <1>h DEF RecvAfterDown
<1>2. CASE RecvScanStart
  BY <1>2, <1>h DEF RecvScanStart
<1>3. CASE RecvDiscComplete
  BY <1>3, <1>h DEF RecvDiscComplete
<1>4. CASE ScanFail
  BY <1>4, <1>h DEF ScanFail
<1>5. CASE ScanFlag
  BY <1>5, <1>h DEF ScanFlag
<1>6. CASE RecvScanStop
  BY <1>6, <1>h DEF RecvScanStop
<1>7. CASE RecvRecStart
  BY <1>7, <1>n, <1>h DEF RecvRecStart
<1>8. CASE RecvRecStop
  BY <1>8, <1>h DEF RecvRecStop
<1>9. CASE RecvDisconnect
  BY <1>9, <1>h DEF RecvDisconnect
<1>10. CASE RecvShutdown
  BY <1>10, <1>h DEF RecvShutdown
<1>11. CASE QueueTimeout
  BY <1>11, <1>h DEF QueueTimeout
<1>12. CASE Tick
  BY <1>12, <1>n, <1>h DEF Tick
<1>13. CASE ReconnectTry
  BY <1>13, <1>h DEF ReconnectTry
<1>14. CASE ReconnectSkip
  BY <1>14, <1>n, <1>h DEF ReconnectSkip
<1>15. CASE ReconnectEnd
  BY <1>15, <1>n, <1>h DEF ReconnectEnd
<1>16. CASE Checks
  BY <1>16, <1>h DEF Checks
<1>17. CASE StartLink
  BY <1>17, <1>h DEF StartLink
<1>18. CASE BringUp
  BY <1>18, <1>h DEF BringUp
<1>19. CASE ScanWait
  BY <1>19, <1>h DEF ScanWait
<1>20. CASE CheckAbort
  BY <1>20, <1>h DEF CheckAbort
<1>21. CASE Connect
  BY <1>21, <1>h DEF Connect
<1>22. CASE Setup
  BY <1>22, <1>h DEF Setup
<1>23. CASE Commit
  BY <1>23, <1>h DEF Commit
<1>24. CASE BringUpDone
  BY <1>24, <1>n, <1>h DEF BringUpDone
<1>25. CASE NoLinkUp
  BY <1>25, <1>h DEF NoLinkUp
<1>26. CASE OpenFile
  BY <1>26, <1>h DEF OpenFile
<1>27. CASE RecordOn
  BY <1>27, <1>h DEF RecordOn
<1>28. CASE Recording
  BY <1>28, <1>h DEF Recording
<1>29. CASE Stop
  BY <1>29, <1>h DEF Stop
<1>30. CASE Quiesce
  BY <1>30, <1>h DEF Quiesce
<1>31. CASE CloseFile
  BY <1>31, <1>h DEF CloseFile
<1>32. CASE DropAll
  BY <1>32, <1>h DEF DropAll
<1>33. CASE Done
  BY <1>33, <1>h DEF Done
<1>34. CASE Spend
  BY <1>34, <1>h DEF Spend
<1>35. CASE HostStop
  BY <1>35, <1>h DEF HostStop
<1>36. CASE Give
  BY <1>36, <1>h DEF Give
<1> QED BY <1>1, <1>2, <1>3, <1>4, <1>5, <1>6, <1>7, <1>8, <1>9, <1>10, <1>11, <1>12, <1>13, <1>14, <1>15, <1>16, <1>17, <1>18, <1>19, <1>20, <1>21, <1>22, <1>23, <1>24, <1>25, <1>26, <1>27, <1>28, <1>29, <1>30, <1>31, <1>32, <1>33, <1>34, <1>35, <1>36
        DEF TaskStep

-----------------------------------------------------------------------------
(***************************************************************************)
(* Induction over data.  A theorem that takes a predicate as a parameter   *)
(* cannot be instantiated by the provers at hand; the same principle about *)
(* a set can.  It rests on the well-foundedness of the finite sets.        *)
(***************************************************************************)

\* Every non-empty set of naturals has a least element.
LEMMA NatMin ==
  ASSUME NEW T, T \subseteq Nat, T # {}
  PROVE \E n \in T : \A m \in T : n <= m
<1> DEFINE U == {1 .. n : n \in T}
<1>1. IsWellFoundedOn(StrictSubsetOrdering(Nat), FiniteSubsetsOf(Nat))
  BY FS_StrictSubsetOrderingWellFounded
<1>2. \A n \in T : 1 .. n \in FiniteSubsetsOf(Nat)
  BY FS_Interval DEF FiniteSubsetsOf
<1>3. U \subseteq FiniteSubsetsOf(Nat) /\ U # {}
  BY <1>2
<1>4. PICK u \in U : \A v \in U : ~ (<<v, u>> \in StrictSubsetOrdering(Nat))
  <2> HIDE DEF U
  <2> QED BY <1>1, <1>3, WFMin
<1>5. PICK n \in T : u = 1 .. n
  BY <1>4
<1>6. ASSUME NEW m \in T, ~ (n <= m) PROVE FALSE
  <2>1. m \in Nat /\ n \in Nat /\ m < n
    BY <1>6
  <2>2. 1 .. m \in U /\ 1 .. m \in SUBSET Nat /\ 1 .. n \in SUBSET Nat
    OBVIOUS
  <2>3. 1 .. m \subseteq 1 .. n
    BY <2>1
  <2>4. n \in 1 .. n /\ n \notin 1 .. m
    BY <2>1
  <2>5. <<1 .. m, 1 .. n>> \in StrictSubsetOrdering(Nat)
    BY <2>2, <2>3, <2>4 DEF StrictSubsetOrdering
  <2> QED BY <2>2, <2>5, <1>4, <1>5
<1> QED BY <1>6

\* Induction over the naturals, on a set.
LEMMA NatInd ==
  ASSUME NEW T, 0 \in T, \A n \in Nat : n \in T => n + 1 \in T
  PROVE  Nat \subseteq T
<1>1. SUFFICES ASSUME Nat \ T # {} PROVE FALSE
  OBVIOUS
<1>2. PICK n \in Nat \ T : \A m \in Nat \ T : n <= m
  BY <1>1, NatMin
<1>3. n - 1 \in Nat /\ n-1 \in T
  BY <1>2
<1> QED BY <1>2, <1>3

-----------------------------------------------------------------------------
(***************************************************************************)
(* CommandsIn(q), the commands that wait in the queue.                     *)
(***************************************************************************)

\* The commands l, with m when it is one.
Taken(l, m) == IF m \in Commands THEN Append(l, m) ELSE l

\* The prefixes' commands, as a function that obeys the recursion.
Lists(g, s, n) ==
  g = [i \in 0 .. n |-> IF i = 0 THEN <<>> ELSE Taken(g[i - 1], s[i])]

\* The recursion has a solution, ...
LEMMA ListsExist == \A s \in Seq(Messages) : \E g : Lists(g, s, Len(s))
<1> SUFFICES ASSUME NEW s \in Seq(Messages)
             PROVE  \E g : Lists(g, s, Len(s))
  OBVIOUS
<1> DEFINE T == {n \in Nat : \E g : Lists(g, s, n)}
<1>1. 0 \in T
  <2>1. Lists([i \in 0 .. 0 |-> <<>>], s, 0)
    BY DEF Lists
  <2> QED  BY <2>1
<1>2. ASSUME NEW n \in Nat, n \in T
      PROVE  n + 1 \in T
  <2>1. PICK g : Lists(g, s, n)
    BY <1>2
  <2> DEFINE h == [i \in 0 .. n + 1 |-> IF i = n + 1 THEN Taken(g[n], s[n + 1]) ELSE g[i]]
  <2>2. \A i \in 0 .. n : h[i] = g[i] /\ g[i] = IF i = 0 THEN <<>> ELSE Taken(g[i - 1], s[i])
    BY <2>1 DEF Lists
  <2>3. h[n + 1] = Taken(g[n], s[n + 1])
    OBVIOUS
  <2>4. \A i \in 0 .. n + 1 : h[i] = IF i = 0 THEN <<>> ELSE Taken(h[i - 1], s[i])
    <3> SUFFICES ASSUME NEW i \in 0 .. n + 1
                 PROVE  h[i] = IF i = 0 THEN <<>> ELSE Taken(h[i - 1], s[i])
      OBVIOUS
    <3> HIDE DEF h
    <3>1. CASE i = n + 1
      BY <2>2, <2>3, <3>1
    <3>2. CASE i \in 1 .. n
      <4>1. i - 1 \in 0 .. n /\ i \in 0 .. n /\ i # 0
        BY <3>2
      <4> QED  BY <2>2, <4>1
    <3>3. CASE i = 0
      BY <2>2, <3>3
    <3> QED  BY <3>1, <3>2, <3>3
  <2>5. h = [i \in 0 .. n + 1 |-> h[i]]
    OBVIOUS
  <2>6. Lists(h, s, n + 1)
    <3> HIDE DEF h
    <3>1. [i \in 0 .. n + 1 |-> h[i]]
            = [i \in 0 .. n + 1 |-> IF i = 0 THEN <<>> ELSE Taken(h[i - 1], s[i])]
      BY <2>4
    <3> QED  BY <2>5, <3>1 DEF Lists
  <2> QED  BY <2>6
<1>3. Nat \subseteq T
  <2> HIDE DEF T
  <2> QED  BY <1>1, <1>2, NatInd
<1> QED  BY <1>3

\* ... and CommandsIn() goes by it.
LEMMA CommandsInLists ==
  ASSUME NEW s \in Seq(Messages)
  PROVE  \E g : Lists(g, s, Len(s)) /\ CommandsIn(s) = g[Len(s)]
<1> DEFINE g == CHOOSE g : Lists(g, s, Len(s))
<1>1. Lists(g, s, Len(s))
  BY ListsExist
<1>2. CommandsIn(s) = g[Len(s)]
  BY DEF CommandsIn, Lists, Taken
<1> QED  BY <1>1, <1>2

\* The commands of the empty queue, and of a queue with one message more.
LEMMA CommandsInEmpty == CommandsIn(<<>>) = <<>>
<1>1. <<>> \in Seq(Messages) /\ Len(<<>>) = 0
  OBVIOUS
<1>2. PICK g : Lists(g, <<>>, 0) /\ CommandsIn(<<>>) = g[0]
  BY <1>1, CommandsInLists
<1> QED  BY <1>2 DEF Lists

LEMMA CommandsInAppend ==
  ASSUME NEW s \in Seq(Messages), NEW c \in Messages
  PROVE  CommandsIn(Append(s, c)) = Taken(CommandsIn(s), c)
<1> DEFINE t == Append(s, c)
           n == Len(s)
<1>1. t \in Seq(Messages) /\ Len(t) = n + 1 /\ t[n + 1] = c /\ n \in Nat
      /\ \A i \in 1 .. n : t[i] = s[i]
  BY AppendProperties
<1>2. PICK g : Lists(g, s, n) /\ CommandsIn(s) = g[n]
  BY CommandsInLists
<1>3. PICK h : Lists(h, t, n + 1) /\ CommandsIn(t) = h[n + 1]
  <2> HIDE DEF t, n
  <2> QED  BY <1>1, CommandsInLists
<1> HIDE DEF t, n
<1> DEFINE T == {i \in Nat : i <= n => h[i] = g[i]}
<1>4. 0 \in T
  BY <1>1, <1>2, <1>3 DEF Lists
<1>5. ASSUME NEW i \in Nat, i \in T
      PROVE  i + 1 \in T
  <2> SUFFICES ASSUME i + 1 <= n
               PROVE  h[i + 1] = g[i + 1]
    OBVIOUS
  <2>1. h[i] = g[i]
    BY <1>1, <1>5
  <2>2. i + 1 \in 1 .. n /\ i + 1 # 0 /\ i + 1 \in 0 .. n /\ i + 1 \in 0 .. n + 1
        /\ (i + 1) - 1 = i
    BY <1>1
  <2>3. g[i + 1] = Taken(g[i], s[i + 1])
    BY <1>2, <2>2 DEF Lists
  <2>4. h[i + 1] = Taken(h[i], t[i + 1])
    BY <1>3, <2>2 DEF Lists
  <2> QED  BY <1>1, <2>1, <2>2, <2>3, <2>4
<1>6. Nat \subseteq T
  <2> HIDE DEF T
  <2> QED  BY <1>4, <1>5, NatInd
<1>7. h[n] = g[n]
  BY <1>1, <1>6
<1>8. h[n + 1] = Taken(h[n], t[n + 1])
  <2>1. n + 1 \in 0 .. n + 1 /\ n + 1 # 0 /\ (n + 1) - 1 = n
    BY <1>1
  <2> QED  BY <1>3, <2>1 DEF Lists
<1>9. CommandsIn(t) = Taken(CommandsIn(s), c)
  BY <1>1, <1>2, <1>3, <1>7, <1>8
<1> QED  BY <1>9 DEF t

\* Induction over the length of a queue, on a set of sequences.
LEMMA QueueInd ==
  ASSUME NEW T, <<>> \in T, \A s \in Seq(Messages), c \in Messages : s \in T => Append(s, c) \in T
  PROVE  Seq(Messages) \subseteq T
<1> DEFINE U == {n \in Nat : \A s \in Seq(Messages) : Len(s) = n => s \in T}
<1>1. 0 \in U
  <2>1. \A s \in Seq(Messages) : Len(s) = 0 => s = <<>>
    BY EmptySeq
  <2> QED  BY <2>1
<1>2. ASSUME NEW n \in Nat, n \in U
      PROVE  n + 1 \in U
  <2> SUFFICES ASSUME NEW s \in Seq(Messages), Len(s) = n + 1
               PROVE  s \in T
    OBVIOUS
  <2>1. s # <<>>
    OBVIOUS
  <2>2. PICK r \in Seq(Messages), c \in Messages : s = Append(r, c)
    BY <2>1, SequenceEmptyOrAppend
  <2>3. Len(s) = Len(r) + 1 /\ Len(r) \in Nat
    BY <2>2
  <2>4. Len(r) = n
    BY <2>3
  <2> QED  BY <1>2, <2>2, <2>4
<1>3. Nat \subseteq U
  <2> HIDE DEF U
  <2> QED  BY <1>1, <1>2, NatInd
<1> QED  BY <1>3

\* Those are commands, and no more than there are messages.
LEMMA CommandsInType ==
  \A s \in Seq(Messages) :
    CommandsIn(s) \in Seq(Commands) /\ Len(CommandsIn(s)) <= Len(s)
<1> DEFINE T == {s \in Seq(Messages) :
                   CommandsIn(s) \in Seq(Commands) /\ Len(CommandsIn(s)) <= Len(s)}
<1>1. <<>> \in T
  <2>1. <<>> \in Seq(Messages) /\ <<>> \in Seq(Commands) /\ Len(<<>>) <= Len(<<>>)
    OBVIOUS
  <2> QED  BY <2>1, CommandsInEmpty
<1>2. ASSUME NEW s \in Seq(Messages), NEW c \in Messages, s \in T
      PROVE  Append(s, c) \in T
  <2> DEFINE l == CommandsIn(s)
  <2>1. CommandsIn(Append(s, c)) = Taken(l, c)
    BY CommandsInAppend
  <2>2. l \in Seq(Commands) /\ Len(l) <= Len(s) /\ Len(l) \in Nat /\ Len(s) \in Nat
    BY <1>2
  <2> HIDE DEF l
  <2>3. Append(s, c) \in Seq(Messages) /\ Len(Append(s, c)) = Len(s) + 1
    BY AppendProperties
  <2>4. Taken(l, c) \in Seq(Commands) /\ Len(Taken(l, c)) <= Len(s) + 1
    BY <2>2, AppendProperties DEF Taken
  <2> QED  BY <2>1, <2>3, <2>4
<1>3. Seq(Messages) \subseteq T
  <2> HIDE DEF T
  <2> QED  BY <1>1, <1>2, QueueInd
<1> QED  BY <1>3

\* Of a queue, and of the commands in it, the first are taken together.
HeadsAgree(s) ==
  IF Head(s) \in Commands
  THEN /\ CommandsIn(s) # <<>> /\ Head(CommandsIn(s)) = Head(s)
       /\ CommandsIn(Tail(s)) = Tail(CommandsIn(s))
  ELSE CommandsIn(Tail(s)) = CommandsIn(s)

LEMMA CommandsInTail ==
  ASSUME NEW q \in Seq(Messages), q # <<>>
  PROVE  HeadsAgree(q)
<1> DEFINE T == {s \in Seq(Messages) : s # <<>> => HeadsAgree(s)}
<1>1. <<>> \in T
  OBVIOUS
<1>2. ASSUME NEW s \in Seq(Messages), NEW c \in Messages, s \in T
      PROVE  Append(s, c) \in T
  <2> DEFINE t == Append(s, c)
             l == CommandsIn(s)
  <2>1. t \in Seq(Messages)
    OBVIOUS
  <2>2. CommandsIn(t) = Taken(l, c)
    BY CommandsInAppend
  <2>3. l \in Seq(Commands)
    BY CommandsInType
  <2>4. ASSUME s = <<>> PROVE HeadsAgree(t)
    <3>1. Head(t) = c /\ Tail(t) = <<>>
      BY <2>4
    <3>2. l = <<>>
      BY <2>4, CommandsInEmpty
    <3> HIDE DEF t, l
    <3>3. CASE c \in Commands
      <4>1. CommandsIn(t) = <<c>>
        BY <2>2, <3>2, <3>3 DEF Taken
      <4>2. <<c>> # <<>> /\ Head(<<c>>) = c /\ Tail(<<c>>) = <<>>
        OBVIOUS
      <4> QED  BY <3>1, <3>3, <4>1, <4>2, CommandsInEmpty DEF HeadsAgree
    <3>4. CASE c \notin Commands
      <4>1. CommandsIn(t) = <<>>
        BY <2>2, <3>2, <3>4 DEF Taken
      <4> QED  BY <2>1, <3>1, <3>4, <4>1, CommandsInEmpty DEF HeadsAgree
    <3> QED  BY <3>3, <3>4
  <2>5. ASSUME s # <<>> PROVE HeadsAgree(t)
    <3>1. Head(t) = Head(s) /\ Tail(t) = Append(Tail(s), c) /\ Tail(s) \in Seq(Messages)
      BY <2>5
    <3>2. HeadsAgree(s)
      BY <1>2, <2>5
    <3>3. CommandsIn(Tail(t)) = Taken(CommandsIn(Tail(s)), c)
      BY <3>1, CommandsInAppend
    <3> HIDE DEF t
    <3>4. CASE Head(s) \in Commands
      <4>1. l # <<>> /\ Head(l) = Head(s) /\ CommandsIn(Tail(s)) = Tail(l)
        BY <3>2, <3>4 DEF HeadsAgree
      <4> HIDE DEF l
      <4>2. /\ Taken(l, c) # <<>> /\ Head(Taken(l, c)) = Head(l)
            /\ Tail(Taken(l, c)) = Taken(Tail(l), c)
        <5>1. CASE c \in Commands
          <6>1. /\ Append(l, c) # <<>> /\ Head(Append(l, c)) = Head(l)
                /\ Tail(Append(l, c)) = Append(Tail(l), c)
            BY <2>3, <4>1
          <6> QED  BY <5>1, <6>1 DEF Taken
        <5>2. CASE c \notin Commands
          BY <4>1, <5>2 DEF Taken
        <5> QED  BY <5>1, <5>2
      <4> QED  BY <2>2, <3>1, <3>3, <3>4, <4>1, <4>2 DEF HeadsAgree
    <3>5. CASE Head(s) \notin Commands
      BY <2>1, <2>2, <3>1, <3>2, <3>3, <3>5 DEF HeadsAgree
    <3> QED  BY <3>4, <3>5
  <2> QED  BY <2>1, <2>4, <2>5
<1>3. Seq(Messages) \subseteq T
  <2> HIDE DEF T
  <2> QED  BY <1>1, <1>2, QueueInd
<1> QED  BY <1>3

\* A command that is posted is the last one, or lost; no other message is seen.
LEMMA CommandsInPost ==
  ASSUME NEW q \in Seq(Messages), Len(q) <= QLen, NEW m \in Messages
  PROVE  IF m \in Commands
         THEN \/ /\ Len(CommandsIn(q)) < QLen
                 /\ CommandsIn(Post(q, m)) = Append(CommandsIn(q), m)
              \/ CommandsIn(Post(q, m)) = CommandsIn(q)
         ELSE CommandsIn(Post(q, m)) = CommandsIn(q)
<1>1. QLen \in Nat
  BY CaptureAssumption
<1>2. Len(CommandsIn(q)) <= Len(q) /\ Len(CommandsIn(q)) \in Nat /\ Len(q) \in Nat
  BY CommandsInType
<1>3. CommandsIn(Append(q, m)) = Taken(CommandsIn(q), m)
  BY CommandsInAppend
<1> QED BY <1>1, <1>2, <1>3 DEF Post, Taken

\* A message is received: the commands lose their first, or nothing.
LEMMA ReceivedIs ==
  ASSUME QueueType, NEW m \in Messages, Received(m)
  PROVE  /\ tpc = "wait"
         /\ IF m \in Commands
            THEN /\ CommandsIn(queue) # <<>> /\ Head(CommandsIn(queue)) = m
                 /\ CommandsIn(queue') = Tail(CommandsIn(queue))
            ELSE CommandsIn(queue') = CommandsIn(queue)
<1>1. tpc = "wait" /\ queue # <<>> /\ Head(queue) = m /\ queue' = Tail(queue)
  BY DEF Received
<1>2. HeadsAgree(queue)
  BY <1>1, CommandsInTail DEF QueueType
<1> QED BY <1>1, <1>2 DEF HeadsAgree

\* A command is received when the task is busy with nothing: CaptureApi takes it.
LEMMA TookIs ==
  ASSUME QueueType, NEW m \in Commands, Received(m), Busy = "no"
  PROVE  Api!Took(m)
<1>1. m \in Messages
  BY DEF Messages
<1> QED BY <1>1, ReceivedIs DEF Api!Took

\* A message is posted: the commands gain it at the end, or nothing.
LEMMA PostedIs ==
  ASSUME QueueType, NEW m \in Messages, queue' = Post(queue, m)
  PROVE  IF m \in Commands
         THEN \/ /\ Len(CommandsIn(queue)) < QLen
                 /\ CommandsIn(queue') = Append(CommandsIn(queue), m)
              \/ CommandsIn(queue') = CommandsIn(queue)
         ELSE CommandsIn(queue') = CommandsIn(queue)
BY CommandsInPost DEF QueueType

\* A step that leaves NimBLE and s_ble_down alone.
LEMMA BleSame ==
  ASSUME radio'.host = radio.host, bleDown' = bleDown
  PROVE  Ble' = Ble
BY DEF Ble

\* A step that CaptureApi does not see.
LEMMA NotSeen ==
  ASSUME state' = state, CommandsIn(queue') = CommandsIn(queue), Ble' = Ble,
         downSem' = downSem, Busy' = Busy
  PROVE  UNCHANGED Api!capVars
BY DEF Api!capVars

\* The task goes from one place to another within what it is busy with.
LEMMA BusySame ==
  ASSUME state' = state, ret' = ret,
         \/ tpc' = tpc
         \/ {tpc, tpc'} \subseteq {"stop", "quiesce", "close", "drop", "done"}
         \/ /\ tpc \notin {"stop", "quiesce", "close", "drop", "done", "shutdown", "hoststop",
                           "give"}
            /\ tpc' \notin {"stop", "quiesce", "close", "drop", "done", "shutdown", "hoststop",
                            "give"}
  PROVE  Busy' = Busy
<1>1. CASE tpc' = tpc
  BY <1>1 DEF Busy
<1>2. CASE {tpc, tpc'} \subseteq {"stop", "quiesce", "close", "drop", "done"}
  BY <1>2, BusyIs, BusyNext
<1>3. CASE /\ tpc \notin {"stop", "quiesce", "close", "drop", "done", "shutdown", "hoststop",
                          "give"}
           /\ tpc' \notin {"stop", "quiesce", "close", "drop", "done", "shutdown", "hoststop",
                           "give"}
  BY <1>3, BusyIs, BusyNext
<1> QED BY <1>1, <1>2, <1>3

LEMMA InnerSteps ==
  ASSUME TypeInv, PlaceInv, DownInv,
         \/ ScanFlag \/ QueueTimeout \/ ReconnectTry \/ ReconnectSkip \/ ReconnectEnd \/ StartLink
         \/ BringUp \/ ScanWait \/ CheckAbort \/ Connect \/ Setup \/ Commit \/ BringUpDone
         \/ RecordOn \/ Quiesce \/ CloseFile \/ DropAll
  PROVE  UNCHANGED Api!capVars
<1> USE DEF bounds, taskVars
<1>t. TaskType /\ HostType /\ FlagsType
  BY DEF TypeInv
<1>1. state' = state /\ queue' = queue /\ bleDown' = bleDown /\ downSem' = downSem
  BY DEF ScanFlag, QueueTimeout, ReconnectTry, ReconnectSkip, ReconnectEnd, StartLink, BringUp,
         ScanWait, CheckAbort, Connect, Setup, Commit, BringUpDone, RecordOn, Quiesce, CloseFile,
         DropAll
<1>2. radio'.host = radio.host
  <2>1. tpc # "hoststop"
    BY DEF ScanFlag, QueueTimeout, ReconnectTry, ReconnectSkip, ReconnectEnd, StartLink, BringUp,
           ScanWait, CheckAbort, Connect, Setup, Commit, BringUpDone, RecordOn, Quiesce, CloseFile,
           DropAll
  <2> QED BY <1>t, <2>1, HostKept DEF TaskStep
<1>3. Busy' = Busy
  <2>1. CASE \/ ScanFlag \/ QueueTimeout \/ StartLink \/ BringUp \/ ScanWait \/ CheckAbort
             \/ Connect \/ Setup \/ Commit \/ BringUpDone \/ RecordOn
    <3>1. /\ tpc \notin {"stop", "quiesce", "close", "drop", "done", "shutdown", "hoststop",
                         "give"}
          /\ tpc' \notin {"stop", "quiesce", "close", "drop", "done", "shutdown", "hoststop",
                          "give"}
      BY <1>t, <2>1 DEF ScanFlag, QueueTimeout, StartLink, BringUp, ScanWait, CheckAbort, Connect,
                        Setup, Commit, BringUpDone, RecordOn, ScanBegin, TaskType
    <3>2. CASE ret' = ret
      BY <1>1, <3>1, <3>2, BusySame
    <3> QED BY <1>1, <3>1, BusyIs, BusyNext
  <2>2. CASE ReconnectTry \/ ReconnectSkip \/ ReconnectEnd
    <3>1. /\ tpc \notin {"stop", "quiesce", "close", "drop", "done", "shutdown", "hoststop",
                         "give"}
          /\ tpc' \notin {"stop", "quiesce", "close", "drop", "done", "shutdown", "hoststop",
                          "give"}
      BY <2>2 DEF ReconnectTry, ReconnectSkip, ReconnectEnd
    <3> QED BY <1>1, <3>1, BusyIs, BusyNext
  <2>3. CASE Quiesce \/ CloseFile \/ DropAll
    <3>1. {tpc, tpc'} \subseteq {"stop", "quiesce", "close", "drop", "done"} /\ ret' = ret
      BY <2>3 DEF Quiesce, CloseFile, DropAll
    <3> QED BY <1>1, <3>1, BusySame
  <2> QED BY <2>1, <2>2, <2>3
<1> QED BY <1>1, <1>2, <1>3, BleSame, NotSeen

MapInv == TypeInv /\ PlaceInv /\ DownInv

ApiStep == Api!CapNext \/ UNCHANGED Api!capVars

\* At the queue, the task is busy with nothing.
LEMMA AtQueue ==
  ASSUME MapInv, tpc = "wait"
  PROVE  /\ Busy = "no" /\ state \in Resting \cup {"recording"}
         /\ bleDown = FALSE => Ble = "up"
         /\ bleDown = TRUE => Ble # "up"
<1>1. state \in Resting \cup {"recording"}
  BY DEF MapInv, PlaceInv, FileInv, Quiet, Shows
<1>2. Busy = "no"
  BY <1>1, BusyIs DEF Resting
<1>3. bleDown \in BOOLEAN
  BY DEF MapInv, TypeInv, FlagsType
<1>4. bleDown = FALSE => radio.host # "down"
  BY DEF MapInv, DownInv
<1> QED BY <1>1, <1>2, <1>3, <1>4, BleIs

\* A command that leaves the task with nothing to do.
LEMMA IgnoreIs ==
  ASSUME MapInv, NEW m \in Commands \ {"shutdown", "rec_stop"}, Received(m),
         \/ bleDown = TRUE
         \/ m = "scan_start" /\ state \in {"connecting", "recording", "stopping"}
         \/ m = "scan_stop" /\ state \notin {"scanning", "armed"}
         \/ m = "rec_start" /\ state # "armed",
         state' = state, Ble' = Ble, downSem' = downSem,
         tpc' \in {"wait", "tick"}
  PROVE  Api!CapNext
<1>1. tpc = "wait"
  BY DEF Received
<1>2. Busy = "no" /\ (bleDown = TRUE => Ble # "up") /\ state # "connecting"
  BY <1>1, AtQueue DEF Resting
<1>3. Api!Took(m)
  BY <1>2, TookIs DEF MapInv, TypeInv
<1>4. Busy' = Busy
  BY <1>2, BusyNext
<1>5. Api!Ignore
  BY <1>2, <1>3, <1>4 DEF Api!Ignore, Api!Commands, Commands
<1> QED BY <1>5 DEF Api!CapNext, Api!CapStep

LEMMA AfterDownIs ==
  ASSUME MapInv, RecvAfterDown
  PROVE  ApiStep
<1>1. PICK m \in Messages \ {"shutdown"} : Received(m)
  BY DEF RecvAfterDown
<1>2. /\ UNCHANGED <<state, bleDown, downSem, radio, tpc, ret>> /\ bleDown = TRUE
  <2>1. bleDown \in BOOLEAN
    BY DEF MapInv, TypeInv, FlagsType
  <2> QED BY <2>1 DEF RecvAfterDown, taskVars
<1>3. tpc = "wait"
  BY <1>1 DEF Received
<1>4. Ble' = Ble
  BY <1>2, BleSame
<1>5. Busy' = Busy
  BY <1>2, BusySame
<1>6. CASE m \in Commands \ {"shutdown", "rec_stop"}
  BY <1>1, <1>2, <1>3, <1>4, <1>6, IgnoreIs DEF ApiStep
<1>7. CASE m = "rec_stop"
  <2>1. Api!Took("rec_stop")
    BY <1>1, <1>3, <1>7, AtQueue, TookIs DEF MapInv, TypeInv, Commands
  <2>2. Api!IgnoreStop
    BY <1>2, <1>3, <1>4, <1>5, <2>1, AtQueue DEF Api!IgnoreStop
  <2> QED BY <2>2 DEF ApiStep, Api!CapNext, Api!CapStep
<1>8. CASE m \notin Commands
  <2>1. CommandsIn(queue') = CommandsIn(queue)
    BY <1>1, <1>8, ReceivedIs DEF MapInv, TypeInv
  <2> QED BY <1>2, <1>4, <1>5, <2>1, NotSeen DEF ApiStep
<1> QED BY <1>6, <1>7, <1>8 DEF Commands

\* Each command that is received is the command of CaptureApi, also one that is refused.
LEMMA ScanStartIs ==
  ASSUME MapInv, RecvScanStart
  PROVE  ApiStep
<1>1. Received("scan_start") /\ bleDown = FALSE /\ tpc = "wait"
  BY DEF MapInv, TypeInv, FlagsType, RecvScanStart, Received
<1>2. bleDown' = bleDown /\ downSem' = downSem
  BY DEF RecvScanStart
<1>3. radio'.host = radio.host
  BY <1>1, HostKept DEF MapInv, TypeInv, TaskStep
<1>4. Ble' = Ble
  BY <1>2, <1>3, BleSame
<1>5. "scan_start" \in Commands \ {"shutdown", "rec_stop"}
  BY DEF Commands
<1>6. CASE state \in {"connecting", "recording", "stopping"}
  <2>1. tpc' = "tick" /\ state' = state
    BY <1>6 DEF RecvScanStart
  <2> QED BY <1>1, <1>2, <1>4, <1>5, <1>6, <2>1, IgnoreIs DEF ApiStep
<1>7. CASE state \notin {"connecting", "recording", "stopping"}
  <2>1. state' = "scanning" /\ tpc' \in {"scanflag", "scanfail"}
    BY <1>7 DEF RecvScanStart, ScanBegin
  <2>2. Busy = "no" /\ Ble = "up" /\ Busy' = "no"
    BY <1>1, <2>1, AtQueue, BusyNext
  <2>3. Api!Took("scan_start")
    BY <1>1, <1>5, <2>2, TookIs DEF MapInv, TypeInv
  <2>4. Api!StartScan
    BY <1>2, <1>4, <1>7, <2>1, <2>2, <2>3 DEF Api!StartScan
  <2> QED BY <2>4 DEF ApiStep, Api!CapNext, Api!CapStep
<1> QED BY <1>6, <1>7

LEMMA ScanStopIs ==
  ASSUME MapInv, RecvScanStop
  PROVE  ApiStep
<1>1. Received("scan_stop") /\ bleDown = FALSE /\ tpc = "wait" /\ tpc' = "tick"
  BY DEF MapInv, TypeInv, FlagsType, RecvScanStop, Received
<1>2. bleDown' = bleDown /\ downSem' = downSem
  BY DEF RecvScanStop
<1>3. radio'.host = radio.host
  BY <1>1, HostKept DEF MapInv, TypeInv, TaskStep
<1>4. Ble' = Ble
  BY <1>2, <1>3, BleSame
<1>5. "scan_stop" \in Commands \ {"shutdown", "rec_stop"}
  BY DEF Commands
<1>6. CASE state \notin {"scanning", "armed"}
  <2>1. state' = state
    BY <1>6 DEF RecvScanStop
  <2> QED BY <1>1, <1>2, <1>4, <1>5, <1>6, <2>1, IgnoreIs DEF ApiStep
<1>7. CASE state \in {"scanning", "armed"}
  <2>1. state' = "idle"
    BY <1>7 DEF RecvScanStop
  <2>2. Busy = "no" /\ Ble = "up" /\ Busy' = "no"
    BY <1>1, <2>1, AtQueue, BusyNext
  <2>3. Api!Took("scan_stop")
    BY <1>1, <1>5, <2>2, TookIs DEF MapInv, TypeInv
  <2>4. Api!StopScan
    BY <1>2, <1>4, <1>7, <2>1, <2>2, <2>3 DEF Api!StopScan
  <2> QED BY <2>4 DEF ApiStep, Api!CapNext, Api!CapStep
<1> QED BY <1>6, <1>7

LEMMA RecStartIs ==
  ASSUME MapInv, RecvRecStart
  PROVE  ApiStep
<1>1. Received("rec_start") /\ bleDown = FALSE /\ tpc = "wait"
  BY DEF MapInv, TypeInv, FlagsType, RecvRecStart, Received
<1>2. bleDown' = bleDown /\ downSem' = downSem
  BY DEF RecvRecStart
<1>3. radio'.host = radio.host
  BY <1>1, HostKept DEF MapInv, TypeInv, TaskStep
<1>4. Ble' = Ble
  BY <1>2, <1>3, BleSame
<1>5. "rec_start" \in Commands \ {"shutdown", "rec_stop"}
  BY DEF Commands
<1>6. CASE state # "armed"
  <2>1. state' = state /\ tpc' = "tick"
    BY <1>6 DEF RecvRecStart
  <2> QED BY <1>1, <1>2, <1>4, <1>5, <1>6, <2>1, IgnoreIs DEF ApiStep
<1>7. CASE state = "armed"
  <2>1. state' = "connecting" /\ tpc' = "startlink"
    BY <1>7 DEF RecvRecStart
  <2>2. Busy = "no" /\ Ble = "up" /\ Busy' = "start"
    BY <1>1, <2>1, AtQueue, BusyNext
  <2>3. Api!Took("rec_start")
    BY <1>1, <1>5, <2>2, TookIs DEF MapInv, TypeInv
  <2>4. Api!StartRecord
    BY <1>2, <1>4, <1>7, <2>1, <2>2, <2>3 DEF Api!StartRecord
  <2> QED BY <2>4 DEF ApiStep, Api!CapNext, Api!CapStep
<1> QED BY <1>6, <1>7

LEMMA RecStopIs ==
  ASSUME MapInv, RecvRecStop
  PROVE  ApiStep
<1>1. /\ Received("rec_stop") /\ bleDown = FALSE /\ tpc = "wait"
      /\ tpc' = "stop" /\ ret' = "tick"
  BY DEF MapInv, TypeInv, FlagsType, RecvRecStop, Received
<1>2. /\ bleDown' = bleDown /\ downSem' = downSem /\ state' = state /\ radio' = radio
  BY DEF RecvRecStop
<1>4. Ble' = Ble
  BY <1>2, BleSame
<1>5. "rec_stop" \in Commands
  BY DEF Commands
<1>6. Busy = "no" /\ Ble = "up" /\ Busy' = "stop"
  BY <1>1, AtQueue, BusyNext
<1>7. Api!Took("rec_stop")
  BY <1>1, <1>5, <1>6, TookIs DEF MapInv, TypeInv
<1>8. Api!TakeStop
  BY <1>2, <1>4, <1>6, <1>7 DEF Api!TakeStop
<1> QED BY <1>8 DEF ApiStep, Api!CapNext, Api!CapStep

LEMMA ShutdownIs ==
  ASSUME MapInv, RecvShutdown
  PROVE  ApiStep
<1>1. Received("shutdown") /\ tpc = "wait" /\ bleDown \in BOOLEAN
  BY DEF MapInv, TypeInv, FlagsType, RecvShutdown, Received
<1>2. bleDown' = bleDown /\ state' = state /\ radio' = radio
  BY DEF RecvShutdown
<1>4. Ble' = Ble
  BY <1>2, BleSame
<1>5. "shutdown" \in Commands
  BY DEF Commands
<1>6. Busy = "no" /\ state # "connecting"
  BY <1>1, AtQueue DEF Resting
<1>7. Api!Took("shutdown")
  BY <1>1, <1>5, <1>6, TookIs DEF MapInv, TypeInv
<1>8. CASE bleDown = TRUE
  <2>1. downSem' = 1 /\ tpc' = "tick"
    BY <1>8 DEF RecvShutdown
  <2>2. Busy' = "no" /\ Ble # "up"
    BY <1>1, <1>2, <1>6, <1>8, <2>1, BusyNext, AtQueue
  <2>3. Api!TakeShutdown
    BY <1>2, <1>4, <1>6, <1>7, <2>1, <2>2 DEF Api!TakeShutdown
  <2> QED BY <2>3 DEF ApiStep, Api!CapNext, Api!CapStep
<1>9. CASE bleDown = FALSE
  <2>1. downSem' = downSem /\ tpc' = "stop" /\ ret' = "shutdown"
    BY <1>9 DEF RecvShutdown
  <2>2. Busy' = "stopspend" /\ Ble = "up"
    BY <1>1, <1>9, <2>1, BusyNext, AtQueue
  <2>3. Api!TakeShutdown
    BY <1>2, <1>4, <1>7, <2>1, <2>2 DEF Api!TakeShutdown
  <2> QED BY <2>3 DEF ApiStep, Api!CapNext, Api!CapStep
<1> QED BY <1>1, <1>8, <1>9

\* What the callbacks post, no caller sees.
LEMMA CallbackMessages ==
  ASSUME MapInv, RecvDiscComplete \/ RecvDisconnect
  PROVE  ApiStep
<1>1. PICK m \in Messages \ Commands : Received(m)
  BY DEF RecvDiscComplete, RecvDisconnect, Messages, Commands
<1>2. /\ bleDown' = bleDown /\ downSem' = downSem /\ state' = state /\ tpc = "wait"
      /\ tpc' \in {"tick", "scanflag", "scanfail"}
  BY DEF RecvDiscComplete, RecvDisconnect, ScanBegin, Received
<1>3. radio'.host = radio.host
  BY <1>2, HostKept DEF MapInv, TypeInv, TaskStep
<1>4. Ble' = Ble
  BY <1>2, <1>3, BleSame
<1>5. Busy' = Busy
  BY <1>2, BusyIs, BusyNext
<1>6. CommandsIn(queue') = CommandsIn(queue)
  BY <1>1, ReceivedIs DEF MapInv, TypeInv
<1> QED BY <1>2, <1>4, <1>5, <1>6, NotSeen DEF ApiStep

\* What a scan comes to, without a command.
LEMMA ScanStepIs ==
  ASSUME MapInv, tpc \in {"tick", "scanfail"}, tpc' \in {"tick", "wait"},
         \/ state = "scanning" /\ state' = "armed"
         \/ state \in {"scanning", "armed"} /\ state' = "idle",
         UNCHANGED <<queue, radio, bleDown, downSem>>
  PROVE  ApiStep
<1>1. Ble' = Ble
  BY BleSame
<1>2. Busy = "no" /\ Busy' = "no"
  BY BusyIs, BusyNext
<1>3. Api!ScanStep
  BY <1>1, <1>2 DEF Api!ScanStep
<1> QED BY <1>3 DEF ApiStep, Api!CapNext, Api!CapStep

\* A scan that fails, and one that has found every device.
LEMMA ScanFailIs ==
  ASSUME MapInv, ScanFail
  PROVE  ApiStep
<1>1. /\ tpc = "scanfail" /\ tpc' = "tick" /\ state' = "idle"
      /\ UNCHANGED <<queue, radio, bleDown, downSem>>
  BY DEF ScanFail
<1>2. state \in {"scanning", "armed"}
  BY <1>1 DEF MapInv, DownInv, InScan
<1> QED BY <1>1, <1>2, ScanStepIs

LEMMA TickIs ==
  ASSUME MapInv, Tick
  PROVE  ApiStep
<1>1. /\ tpc = "tick" /\ tpc' \in {"wait", "reconnect"} /\ UNCHANGED <<queue, radio, bleDown, downSem>>
  BY DEF Tick
<1>2. CASE state' = state
  <2>1. Ble' = Ble /\ Busy' = Busy
    BY <1>1, <1>2, BleSame, BusyIs, BusyNext
  <2> QED BY <1>1, <1>2, <2>1, NotSeen DEF ApiStep
<1>3. CASE state = "scanning" /\ state' = "armed" /\ tpc' = "wait"
  BY <1>1, <1>3, ScanStepIs
<1> QED BY <1>2, <1>3 DEF Tick

\* The checks of tick_recording(), which may stop the capture.
LEMMA ChecksIs ==
  ASSUME MapInv, Checks
  PROVE  ApiStep
<1>1. /\ tpc = "checks" /\ UNCHANGED <<state, queue, radio, bleDown, downSem>>
      /\ tpc' = "wait" \/ (tpc' = "stop" /\ ret' = "wait")
  BY DEF Checks
<1>2. state = "recording"
  BY <1>1 DEF MapInv, PlaceInv, FileInv, Running, Shows
<1>3. Ble' = Ble
  BY <1>1, BleSame
<1>4. Busy = "no"
  BY <1>1, <1>2, BusyIs
<1>5. CASE tpc' = "wait"
  <2>1. Busy' = "no"
    BY <1>1, <1>2, <1>5, BusyNext
  <2> QED BY <1>1, <1>3, <1>4, <2>1, NotSeen DEF ApiStep
<1>6. CASE tpc' = "stop" /\ ret' = "wait"
  <2>1. Busy' = "stop"
    BY <1>6, BusyNext
  <2>2. Api!StopsItself
    BY <1>1, <1>2, <1>3, <1>4, <2>1 DEF Api!StopsItself
  <2> QED BY <2>2 DEF ApiStep, Api!CapNext, Api!CapStep
<1> QED BY <1>1, <1>5, <1>6

\* do_record_start() comes to an end.
LEMMA StartedIs ==
  ASSUME MapInv, tpc \in {"started", "recon", "recording"}, state' \in {"recording", "scanning", "error"},
         tpc' \in {"tick", "scanflag", "scanfail"},
         UNCHANGED <<queue, bleDown, downSem>>, radio'.host = radio.host
  PROVE  ApiStep
<1>1. Ble' = Ble
  BY BleSame
<1>2. state = "connecting"
  BY DEF MapInv, PlaceInv, FileInv, Starting, Shows
<1>3. Busy = "start" /\ Busy' = "no"
  BY <1>2, BusyIs, BusyNext
<1>4. Api!Started
  BY <1>1, <1>3 DEF Api!Started
<1> QED BY <1>4 DEF ApiStep, Api!CapNext, Api!CapStep

\* ... without a link, without a file, or recording.
LEMMA StartEndsIs ==
  ASSUME MapInv, NoLinkUp \/ OpenFile \/ Recording
  PROVE  ApiStep
<1>h. radio'.host = radio.host
  <2>1. tpc # "hoststop"
    BY DEF NoLinkUp, OpenFile, Recording
  <2> QED BY <2>1, HostKept DEF MapInv, TypeInv, TaskStep
<1>1. CASE NoLinkUp
  <2>1. /\ tpc = "started" /\ state' = "scanning" /\ tpc' \in {"scanflag", "scanfail"}
        /\ UNCHANGED <<queue, bleDown, downSem>>
    BY <1>1 DEF NoLinkUp, ScanBegin
  <2> QED BY <1>h, <2>1, StartedIs
<1>2. CASE OpenFile
  <2>1. /\ tpc = "started" /\ UNCHANGED <<queue, bleDown, downSem>>
        /\ \/ tpc' = "recon" /\ state' = state
           \/ tpc' = "tick" /\ state' = "error"
    BY <1>2 DEF OpenFile
  <2>2. CASE tpc' = "tick" /\ state' = "error"
    BY <1>h, <2>1, <2>2, StartedIs
  <2>3. CASE tpc' = "recon" /\ state' = state
    <3>1. Ble' = Ble /\ Busy' = Busy
      BY <1>h, <2>1, <2>3, BleSame, BusyIs, BusyNext
    <3> QED BY <2>1, <2>3, <3>1, NotSeen DEF ApiStep
  <2> QED BY <2>1, <2>2, <2>3
<1>3. CASE Recording
  <2>1. /\ tpc = "recording" /\ state' = "recording" /\ tpc' = "tick"
        /\ UNCHANGED <<queue, bleDown, downSem>>
    BY <1>3 DEF Recording
  <2> QED BY <1>h, <2>1, StartedIs
<1> QED BY <1>1, <1>2, <1>3

\* do_record_stop()
LEMMA StopIs ==
  ASSUME MapInv, Stop
  PROVE  ApiStep
<1>1. /\ tpc = "stop" /\ ret' = ret /\ UNCHANGED <<queue, radio, bleDown, downSem>>
      /\ IF state \in {"recording", "connecting"}
         THEN state' = "stopping" /\ tpc' \in {"quiesce", "drop"}
         ELSE state' = state /\ tpc' = ret
  BY DEF Stop
<1>2. ret \in {"tick", "wait", "shutdown"} /\ state \in Resting \cup {"recording"}
  BY <1>1 DEF MapInv, PlaceInv, PcInv, FileInv, Quiet, Shows
<1>3. Ble' = Ble
  BY <1>1, BleSame
<1>4. Busy = IF ret = "shutdown" THEN "stopspend" ELSE "stop"
  BY <1>1, BusyIs
<1>5. CASE state \in {"recording", "connecting"}
  <2>1. Busy' = Busy
    BY <1>1, <1>4, <1>5, BusyNext
  <2>2. Api!Stopping
    BY <1>1, <1>3, <1>4, <1>5, <2>1 DEF Api!Stopping, Api!Capturing
  <2> QED BY <2>2 DEF ApiStep, Api!CapNext, Api!CapStep
<1>6. CASE state \notin {"recording", "connecting"}
  <2>1. Busy' = IF ret = "shutdown" THEN "spend" ELSE "no"
    BY <1>1, <1>2, <1>6, BusyNext
  <2>2. Api!Stopped
    BY <1>4, <2>1 DEF Api!Stopped
  <2>3. state # "stopping"
    BY <1>2 DEF Resting
  <2>4. Api!Stopping
    BY <1>1, <1>3, <1>4, <1>6, <2>2, <2>3 DEF Api!Stopping, Api!Capturing
  <2> QED BY <2>4 DEF ApiStep, Api!CapNext, Api!CapStep
<1> QED BY <1>5, <1>6

\* ... and its end, after which a shutdown goes on.
LEMMA DoneIs ==
  ASSUME MapInv, Done
  PROVE  ApiStep
<1>1. /\ tpc = "done" /\ tpc' = ret /\ state' = "done"
      /\ UNCHANGED <<queue, radio, bleDown, downSem>>
  BY DEF Done
<1>2. ret \in {"tick", "wait", "shutdown"} /\ state = "stopping"
  BY <1>1 DEF MapInv, PlaceInv, PcInv, FileInv, Shows
<1>3. Ble' = Ble
  BY <1>1, BleSame
<1>4. Busy = IF ret = "shutdown" THEN "stopspend" ELSE "stop"
  BY <1>1, BusyIs
<1>5. Busy' = IF ret = "shutdown" THEN "spend" ELSE "no"
  BY <1>1, <1>2, BusyNext
<1>6. Api!Stopped
  BY <1>4, <1>5 DEF Api!Stopped
<1>7. Api!Stopping
  BY <1>1, <1>2, <1>3, <1>4, <1>6 DEF Api!Stopping, Api!Capturing
<1> QED BY <1>7 DEF ApiStep, Api!CapNext, Api!CapStep

\* do_ble_shutdown()
LEMMA SpendIs ==
  ASSUME MapInv, Spend
  PROVE  ApiStep
<1>1. /\ tpc = "shutdown" /\ tpc' = "hoststop" /\ state' = "idle" /\ bleDown' = TRUE
      /\ UNCHANGED <<queue, downSem>>
  BY DEF Spend
<1>2. bleDown = FALSE /\ radio.host # "down"
  BY <1>1 DEF MapInv, TypeInv, FlagsType, DownInv
<1>3. radio'.host # "down"
  BY <1>1, <1>2, HostKept DEF MapInv, TypeInv, TaskStep
<1>4. Ble = "up" /\ Ble' = "spent"
  BY <1>1, <1>2, <1>3, BleIs, BleNext
<1>5. Busy = "spend" /\ Busy' = "spend"
  BY <1>1, BusyIs, BusyNext
<1>6. Api!Spending
  BY <1>1, <1>4, <1>5 DEF Api!Spending
<1> QED BY <1>6 DEF ApiStep, Api!CapNext, Api!CapStep

\* NimBLE has stopped, and the caller is answered.
LEMMA HostStopIs ==
  ASSUME MapInv, HostStop
  PROVE  ApiStep
<1>1. /\ tpc = "hoststop" /\ tpc' = "give" /\ state' = state /\ bleDown' = bleDown
      /\ UNCHANGED <<queue, downSem>> /\ radio'.host = "down"
  BY DEF HostStop
<1>2. bleDown = TRUE /\ radio.host # "down"
  BY <1>1 DEF MapInv, DownInv
<1>4. Ble = "spent" /\ Ble' = "down"
  BY <1>1, <1>2, BleIs, BleNext
<1>5. Busy = "spend" /\ Busy' = "give"
  BY <1>1, BusyIs, BusyNext
<1>6. Api!Spending
  BY <1>1, <1>4, <1>5 DEF Api!Spending
<1> QED BY <1>6 DEF ApiStep, Api!CapNext, Api!CapStep

LEMMA GiveIs ==
  ASSUME MapInv, Give
  PROVE  ApiStep
<1>1. /\ tpc = "give" /\ tpc' = "tick" /\ state' = state /\ downSem' = 1
      /\ UNCHANGED <<queue, radio, bleDown>>
  BY DEF Give
<1>2. state # "connecting"
  BY <1>1 DEF MapInv, PlaceInv, FileInv, Quiet, Resting
<1>3. Ble' = Ble
  BY <1>1, BleSame
<1>4. Busy = "give" /\ Busy' = "no"
  BY <1>1, <1>2, BusyIs, BusyNext
<1>5. Api!Giving
  BY <1>1, <1>3, <1>4 DEF Api!Giving
<1> QED BY <1>5 DEF ApiStep, Api!CapNext, Api!CapStep

\* Every step of the task is one of CaptureApi, or not seen; so is every callback, and
\* every call.
LEMMA TaskStepIs ==
  ASSUME MapInv, TaskStep
  PROVE  ApiStep
<1>1. CASE \/ ScanFlag \/ QueueTimeout \/ ReconnectTry \/ ReconnectSkip \/ ReconnectEnd
           \/ StartLink \/ BringUp \/ ScanWait \/ CheckAbort \/ Connect \/ Setup \/ Commit
           \/ BringUpDone \/ RecordOn \/ Quiesce \/ CloseFile \/ DropAll
  BY <1>1, InnerSteps DEF MapInv, ApiStep
<1> QED BY <1>1, AfterDownIs, ScanStartIs, ScanStopIs, RecStartIs, RecStopIs, ShutdownIs,
           CallbackMessages, ScanFailIs, TickIs, ChecksIs, StartEndsIs, StopIs, DoneIs, SpendIs,
           HostStopIs, GiveIs DEF TaskStep

\* The callbacks: no caller sees them.
LEMMA HostStepIs ==
  ASSUME MapInv, HostStep
  PROVE  ApiStep
<1> USE DEF callbackOnly, taskVars
<1>1. UNCHANGED <<state, tpc, ret, bleDown, downSem>>
  BY DEF HostStep, Report, Notify, OnDisconnect, DiscEnds, OnDiscComplete
<1>2. radio'.host = radio.host
  BY DEF HostStep, Report, Notify, OnDisconnect, DiscEnds, OnDiscComplete, MapInv, TypeInv,
         HostType, Radio
<1>3. CommandsIn(queue') = CommandsIn(queue)
  <2>1. queue' = queue \/ \E m \in {"disconnect", "disc_complete"} : queue' = Post(queue, m)
    BY DEF HostStep, Report, Notify, OnDisconnect, DiscEnds, OnDiscComplete
  <2>2. \A m \in {"disconnect", "disc_complete"} : m \in Messages /\ m \notin Commands
    BY DEF Messages, Commands
  <2> QED BY <2>1, <2>2, PostedIs DEF MapInv, TypeInv
<1>4. Ble' = Ble /\ Busy' = Busy
  BY <1>1, <1>2, BleSame, BusySame
<1> QED BY <1>1, <1>3, <1>4, NotSeen DEF ApiStep

\* The public functions: a command is posted, or the semaphore is taken.
LEMMA CallerStepIs ==
  ASSUME MapInv, NEW c \in Callers, CallerStep(c)
  PROVE  ApiStep
<1> USE DEF callOnly, taskVars
<1>1. UNCHANGED <<state, tpc, ret, bleDown, radio>>
  BY DEF CallerStep, CapScanStart, CapScanStop, CapRecordStart, CapRecordStop, PostStop,
         CapBleShutdown, PostShutdown, JoinShutdown
<1>2. Ble' = Ble /\ Busy' = Busy
  BY <1>1, BleSame, BusySame
<1>3. \/ downSem' = downSem /\ queue' = queue
      \/ downSem = 1 /\ downSem' = 0 /\ queue' = queue
      \/ downSem' = downSem /\ \E m \in Commands : queue' = Post(queue, m)
  BY DEF CallerStep, CapScanStart, CapScanStop, CapRecordStart, CapRecordStop, PostStop,
         CapBleShutdown, PostShutdown, JoinShutdown, Commands
<1>4. CASE downSem' = downSem /\ queue' = queue
  BY <1>1, <1>2, <1>4, NotSeen DEF ApiStep
<1>5. CASE downSem = 1 /\ downSem' = 0 /\ queue' = queue
  <2>1. Api!TakeSem
    BY <1>1, <1>2, <1>5 DEF Api!TakeSem
  <2> QED BY <2>1 DEF ApiStep, Api!CapNext
<1>6. ASSUME NEW m \in Commands, downSem' = downSem, queue' = Post(queue, m)
      PROVE  ApiStep
  <2>1. \/ /\ Len(CommandsIn(queue)) < QLen
           /\ CommandsIn(queue') = Append(CommandsIn(queue), m)
        \/ CommandsIn(queue') = CommandsIn(queue)
    BY <1>6, PostedIs DEF MapInv, TypeInv, Messages
  <2>2. Api!Post(m)
    BY <1>1, <1>2, <1>6, <2>1 DEF Api!Post
  <2>3. m \in Api!Commands
    BY DEF Api!Commands, Commands
  <2> QED BY <2>2, <2>3 DEF ApiStep, Api!CapNext
<1> QED BY <1>3, <1>4, <1>5, <1>6

\* Every step is, and MapInv, on which that rests, is kept.
LEMMA ApiStepIs == MapInv /\ [Next]_vars => [Api!CapNext]_(Api!capVars)
<1> SUFFICES ASSUME MapInv, [Next]_vars PROVE ApiStep
  BY DEF ApiStep
<1>1. CASE UNCHANGED vars
  <2>1. UNCHANGED <<state, queue, radio, bleDown, downSem, tpc, ret>>
    BY <1>1 DEF vars, taskVars
  <2>2. Ble' = Ble /\ Busy' = Busy
    BY <2>1, BleSame, BusySame
  <2> QED BY <2>1, <2>2, NotSeen DEF ApiStep
<1> QED BY <1>1, TaskStepIs, HostStepIs, CallerStepIs DEF Next

LEMMA MapStep == MapInv /\ [Next]_vars => MapInv'
<1> SUFFICES ASSUME MapInv, [Next]_vars PROVE MapInv'
  OBVIOUS
<1>1. CapInv'
  BY StepInv DEF MapInv, CapInv
<1>2. ASSUME TaskStep PROVE DownInv'
  BY <1>2, DownStep DEF MapInv, DownInv, TypeInv, PlaceInv
<1>3. ASSUME ~TaskStep PROVE DownInv'
  <2>1. UNCHANGED <<state, tpc, scanRet, bleDown>>
    BY <1>3 DEF Next, HostStep, Report, Notify, OnDisconnect, DiscEnds, OnDiscComplete,
                callbackOnly, CallerStep, CapScanStart, CapScanStop, CapRecordStart, CapRecordStop,
                PostStop, CapBleShutdown, PostShutdown, JoinShutdown, callOnly, vars, taskVars
  <2>2. radio'.host = radio.host
    BY <1>3 DEF Next, HostStep, Report, Notify, OnDisconnect, DiscEnds, OnDiscComplete,
                CallerStep, CapScanStart, CapScanStop, CapRecordStart, CapRecordStop,
                PostStop, CapBleShutdown, PostShutdown, JoinShutdown, callOnly, vars,
                MapInv, TypeInv, HostType, Radio
  <2> QED BY <2>1, <2>2 DEF MapInv, DownInv, InScan
<1>4. DownInv'
  BY <1>2, <1>3
<1> QED BY <1>1, <1>4 DEF MapInv, CapInv

\* The capture task is CaptureApi to its callers, step by step: for any number of links,
\* callers and faults, and any length of the queue.
THEOREM TaskIsApi == Spec => ImplementsApi
<1>1. Init => Api!CapInit /\ MapInv
  <2> SUFFICES ASSUME Init PROVE Api!CapInit /\ MapInv
    OBVIOUS
  <2>1. CapInv
    BY InitInv
  <2>2. DownInv
    BY DEF Init, DownInv, InScan
  <2>3. Busy = "no"
    BY BusyIs DEF Init
  <2>4. Ble = "up"
    BY <2>1, BleIs DEF Init, CapInv, TypeInv, FlagsType
  <2>5. CommandsIn(queue) = <<>>
    BY CommandsInEmpty DEF Init
  <2> QED BY <2>1, <2>2, <2>3, <2>4, <2>5 DEF Init, Api!CapInit, MapInv, CapInv
<1> QED BY <1>1, MapStep, ApiStepIs, PTL DEF Spec, ImplementsApi, Api!CapSpec

-----------------------------------------------------------------------------
(***************************************************************************)
(* ImuLog: OneTaskPerRun for any number of task control blocks.  It is not *)
(* inductive: that the next run begins without a task needs that there is  *)
(* none from the moment the token was drained, and no token either.        *)
(***************************************************************************)

\* Between the drain and xTaskCreate() there is neither a task nor a token.
CleanStart ==
  /\ api \in {"drained", "create"} => Alive = {} /\ done = 0
  /\ api = "create" => run

ImuInv == ImuTypeOK /\ OneTaskPerRun /\ (~late => CleanStart)

\* The invariant holds at the start.
LEMMA ImuInitInv == ImuInit => ImuInv
  BY DEF ImuInit, ImuInv, ImuTypeOK, OneTaskPerRun, CleanStart, Alive

\* A step of the task takes it further, or ends it.
LEMMA TaskMoves ==
  ASSUME ImuTypeOK, NEW t \in Tasks, ImuTask(t)
  PROVE  /\ ImuTypeOK' /\ t \in Alive /\ Alive' \subseteq Alive
         /\ UNCHANGED <<run, api, mine, late>>
         /\ done' = done \/ Alive' = Alive \ {t}
<1>1. CASE ImuLoop(t)
  BY <1>1 DEF ImuLoop, ImuTypeOK, Alive
<1>2. CASE ImuRead(t)
  BY <1>2 DEF ImuRead, ImuTypeOK, Alive
<1>3. CASE ImuWrite(t)
  BY <1>3 DEF ImuWrite, ImuTypeOK, Alive
<1>4. CASE ImuLeave(t)
  BY <1>4 DEF ImuLeave, ImuTypeOK, Alive
<1>5. CASE ImuGive(t)
  BY <1>5 DEF ImuGive, ImuTypeOK, Alive
<1> QED BY <1>1, <1>2, <1>3, <1>4, <1>5 DEF ImuTask

\* Every step keeps it.
LEMMA ImuStepInv == ImuInv /\ [ImuNext]_imuVars => ImuInv'
<1> SUFFICES ASSUME ImuInv, [ImuNext]_imuVars PROVE ImuInv'
  OBVIOUS
<1> USE DEF ImuInv, CleanStart
<1>1. CASE StartDrain
  BY <1>1 DEF StartDrain, ImuTypeOK, OneTaskPerRun, Alive
<1>2. CASE StartRun
  BY <1>2 DEF StartRun, ImuTypeOK, OneTaskPerRun, Alive
<1>3. CASE StartCreate
  <2>1. PICK t \in Tasks \ Alive :
          task' = t /\ mine' = t /\ ipc' = [ipc EXCEPT ![t] = "loop"]
    BY <1>3 DEF StartCreate
  <2>2. api' = "idle" /\ api = "create" /\ UNCHANGED <<run, done, late>>
    BY <1>3 DEF StartCreate
  <2>3. ImuTypeOK'
    BY <2>1, <2>2 DEF ImuTypeOK
  <2>4. Alive' = Alive \cup {t}
    BY <2>1 DEF Alive, ImuTypeOK
  <2>5. ~late => done = 0 /\ run /\ Alive' = {mine'}
    BY <2>1, <2>2, <2>4
  <2> QED BY <2>2, <2>3, <2>5 DEF OneTaskPerRun
<1>4. CASE StartCreateFails
  BY <1>4 DEF StartCreateFails, ImuTypeOK, OneTaskPerRun, Alive
<1>5. CASE StopRun
  BY <1>5 DEF StopRun, ImuTypeOK, OneTaskPerRun, Alive
<1>6. CASE StopTake
  BY <1>6 DEF StopTake, ImuTypeOK, OneTaskPerRun, Alive
<1>7. CASE StopTimeout
  BY <1>7 DEF StopTimeout, ImuTypeOK, OneTaskPerRun, Alive
<1>8. ASSUME NEW t \in Tasks, ImuTask(t) PROVE ImuInv'
  <2>1. /\ ImuTypeOK' /\ t \in Alive /\ Alive' \subseteq Alive
        /\ UNCHANGED <<run, api, mine, late>>
        /\ done' = done \/ Alive' = Alive \ {t}
    BY <1>8, TaskMoves
  <2>2. ~late => Alive \ {t} = {}
    BY <2>1 DEF OneTaskPerRun
  <2> QED BY <2>1, <2>2 DEF OneTaskPerRun
<1>9. CASE UNCHANGED imuVars
  BY <1>9 DEF imuVars, ImuTypeOK, OneTaskPerRun, Alive
<1> QED
  BY <1>1, <1>2, <1>3, <1>4, <1>5, <1>6, <1>7, <1>8, <1>9 DEF ImuNext, ImuApi

\* The flags and the task blocks keep their types.
THEOREM ImuWellTyped == ImuSpec => []ImuTypeOK
<1>1. ImuInv => ImuTypeOK
  BY DEF ImuInv
<1> QED BY ImuInitInv, ImuStepInv, <1>1, PTL DEF ImuSpec

\* At most one imu task for each run and none after its stop has returned, however many
\* control blocks there are, unless a stop timed out and its task outlived it.
THEOREM RunsAlone == ImuSpec => []OneTaskPerRun
<1>1. ImuInv => OneTaskPerRun
  BY DEF ImuInv
<1> QED BY ImuInitInv, ImuStepInv, <1>1, PTL DEF ImuSpec
=============================================================================
