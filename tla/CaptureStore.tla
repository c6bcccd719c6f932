---------------------------- MODULE CaptureStore ----------------------------
(***************************************************************************)
(* main/capture_store.c: the on-flash log a Capture is written into.       *)
(*                                                                         *)
(* Four kinds of actor meet here.  Producers - the NimBLE host task, the   *)
(* capture task, the IMU task, a console or button task writing a Marker - *)
(* call store_write(), which only pushes into a RAM ring.  The writer task *)
(* drains the ring into the file.  The capture task opens and closes the   *)
(* file with store_begin() and store_end().  The console deletes captures  *)
(* with store_remove() and store_remove_all().  A power cut may happen     *)
(* between any two steps.                                                  *)
(*                                                                         *)
(* One step is one critical section (s_ring_mux, s_file_mtx) or one access *)
(* to a volatile flag, so that every interleaving of the tasks the RTOS    *)
(* can produce is a behaviour of the model.                                *)
(*                                                                         *)
(* Bytes are counted in cells: a record occupies `len` cells, the ring     *)
(* holds RingCells of them and the writer moves DrainCells at a time, so   *)
(* a record may wrap and may be split between two flash writes.            *)
(***************************************************************************)
EXTENDS Integers, FiniteSets, SequencesExt

CONSTANTS
  Producers,    \* the tasks that call store_write()
  Writer,       \* the writer task, author of the "storage full" event
  Lens,         \* record sizes, in cells
  RingCells,    \* RING_BYTES
  DrainCells,   \* DRAIN_BYTES
  DrainPasses,  \* DRAIN_PASSES
  SyncCells,    \* SYNC_BYTES
  MaxSeq,       \* the highest sequence number a file name can carry (9999)
  MaxStamps,    \* bound: how many records the producers offer
  MaxCuts,      \* bound: how many power cuts happen
  QuietEnd,     \* no producer is inside store_write() when store_end() is
                \* called: what do_record_stop() arranges by clearing s_rec_on,
                \* joining the IMU task and waiting 20 ms
  QuietRemove   \* captures are deleted only while no file is open

ASSUME StoreAssumption ==
  /\ IsFiniteSet(Producers) /\ Producers # {} /\ Writer \notin Producers
  /\ Lens \subseteq Nat \ {0}
  /\ RingCells \in Nat \ {0}
  /\ DrainCells \in Nat \ {0}
  /\ DrainPasses \in Nat \ {0}
  /\ SyncCells \in Nat \ {0}
  /\ MaxSeq \in Nat \ {0}
  /\ MaxStamps \in Nat
  /\ MaxCuts \in Nat
  /\ QuietEnd \in BOOLEAN
  /\ QuietRemove \in BOOLEAN

\* One drain_pass() reaches a record boundary even while every producer adds the
\* record it had checked s_full for.  A pass that finds fewer than DRAIN_BYTES in
\* the ring moves less than it could; s of them may come before a record that is
\* too long to be moved by what is left.  The code's 16 passes of 1 KB, ring of
\* 12 KB and records of at most 261 bytes do for its five producers: the host
\* task, the capture task, the IMU task, the console and the menu.
ASSUME DrainAssumption ==
  LET n == Cardinality(Producers) IN
  \A l \in Lens, s \in 0 .. n :
    s = 0 \/ (n + 1 - s) * l > DrainCells =>
      DrainPasses * DrainCells >= RingCells + n * l + s * (DrainCells - 1)

VARIABLES
  files,     \* the FAT directory: what each sequence number holds
  fileOpen,  \* s_file # NULL
  seq,       \* s_seq
  active,    \* s_active
  stopReq,   \* s_stop_req
  full,      \* s_full
  lastT,     \* s_last_t_ms
  ring,      \* s_ring between tail and head
  dropped,   \* s_dropped
  doneSem,   \* tokens in s_done_sem
  api,       \* where the capture task is in store_begin() / store_end()
  wpc,       \* where the writer task is
  wret,      \* where drain_pass() returns to
  wbuf,      \* s_drain
  pass,      \* i of drain_pass()
  stopping,  \* the writer's local of that name
  ppc,       \* where each producer is in store_write()
  prec,      \* the record each producer is writing
  clock,     \* esp_timer: strictly increasing over the records stamped
  rm,        \* the sequence numbers a console command has yet to remove
  cuts,      \* power cuts so far
  accepted,  \* history: records pushed since the last ring_reset()
  offered,   \* history: store_write() calls that found s_active set since then
  owed       \* history: accepted, at the time the stop was requested

storeVars  == <<fileOpen, seq, active, stopReq, full, lastT, doneSem, api>>
writerVars == <<wpc, wret, wbuf, pass, stopping>>
ringVars   == <<ring, dropped>>
prodVars   == <<ppc, prec, clock>>
histVars   == <<accepted, offered, owed>>
vars == <<files, storeVars, writerVars, ringVars, prodVars, rm, cuts, histVars>>

-----------------------------------------------------------------------------
(***************************************************************************)
(* Records, cells and files.                                               *)
(***************************************************************************)
Seqs == 1 .. MaxSeq

Stamps == Nat

\* wflog_rec_t.  `cap` is a history field: the capture that was being recorded
\* when its author found s_active set.
Rec == [by : Producers \cup {Writer}, t : Stamps, len : Lens, cap : Seqs]

\* One cell of a record, the k-th.
Cell == [rec : Rec, k : Nat \ {0}]

CellsOf(r) == [k \in 1 .. r.len |-> [rec |-> r, k |-> k]]

Listed(recs, c) ==
  IF c.k = c.rec.len /\ c.rec.by # Writer THEN Append(recs, c.rec) ELSE recs

\* What wfl_next() walks: the records of which the last cell is there, and among
\* them the ones that came through the ring.
Queued(cells) ==
  LET upTo[i \in 0 .. Len(cells)] ==
        IF i = 0 THEN <<>> ELSE Listed(upTo[i - 1], cells[i])
  IN  upTo[Len(cells)]

\* A directory entry.  "open" is the capture being written, "cut" one that a
\* power cut left behind, "closed" one that store_end() finished.  `synced`
\* cells have reached the flash; `hdr` tells whether the header has.
File == [st : {"absent", "open", "cut", "closed"}, hdr : BOOLEAN,
         cells : Seq(Cell), synced : Nat, dur : Stamps]

Absent   == [st |-> "absent", hdr |-> FALSE, cells |-> <<>>, synced |-> 0, dur |-> 0]
NewFile  == [Absent EXCEPT !.st = "open"]

Exists(n) == files[n].st # "absent"

\* Mutation of IsMaxSeq: the comparison is missing, any entry is taken.
IsMaxSeqUnordered(n) == IF \A m \in Seqs : ~Exists(m) THEN n = 0 ELSE n \in Seqs /\ Exists(n)

\* scan_max_seq(): n is the highest number in the directory, 0 when it is empty.
IsMaxSeq(n) ==
  /\ n \in {0} \cup {m \in Seqs : Exists(m)}
  /\ \A m \in Seqs : m > n => ~Exists(m)

Unsynced == Len(files[seq].cells) - files[seq].synced

\* fflush() and fsync().
Synced(f) == [f EXCEPT !.synced = Len(f.cells)]

\* What a power cut leaves of a file of which k cells reached the flash.
CutAt(f, k) ==
  [st |-> "cut", hdr |-> f.hdr, cells |-> SubSeq(f.cells, 1, k), synced |-> k, dur |-> f.dur]

InFlight(p) == ppc[p] # "idle"

\* What is written to s_file reaches the directory entry while there is one: a
\* file that was unlinked under the writer swallows it.
WriteFile(f) ==
  files' = IF Exists(seq) THEN [files EXCEPT ![seq] = f] ELSE files

-----------------------------------------------------------------------------
Init ==
  /\ files = [n \in Seqs |-> Absent]
  /\ fileOpen = FALSE /\ seq = 1 /\ active = FALSE /\ stopReq = FALSE
  /\ full = FALSE /\ lastT = 0 /\ doneSem = 0 /\ api = "idle"
  /\ ring = <<>> /\ dropped = 0
  /\ wpc = "none" /\ wret = "flag" /\ wbuf = <<>> /\ pass = 0 /\ stopping = FALSE
  /\ ppc = [p \in Producers |-> "idle"]
  /\ prec \in [Producers -> {[by |-> Writer, t |-> 0, len |-> l, cap |-> 1] : l \in Lens}]
  /\ \A p, q \in Producers : prec[p] = prec[q]
  /\ clock = 0 /\ rm = {} /\ cuts = 0
  /\ accepted = <<>> /\ offered = 0 /\ owed = <<>>

-----------------------------------------------------------------------------
(***************************************************************************)
(* store_begin(), on the capture task.                                     *)
(***************************************************************************)

\* Up to and including fopen() and s_seq: the number after the highest one.
BeginOpen ==
  /\ api = "idle" /\ ~active /\ ~fileOpen
  /\ \E n \in 0 .. MaxSeq - 1 :
       /\ IsMaxSeq(n)
       /\ files' = [files EXCEPT ![n + 1] = NewFile]
       /\ seq' = n + 1
  /\ fileOpen' = TRUE
  /\ api' = "opened"
  /\ UNCHANGED <<active, stopReq, full, lastT, doneSem, writerVars, ringVars,
                 prodVars, rm, cuts, histVars>>

\* The flags and the ring are reset, then the header is written and synced.
BeginHeader ==
  /\ api = "opened"
  /\ full' = FALSE /\ stopReq' = FALSE /\ lastT' = 0
  /\ ring' = <<>> /\ dropped' = 0
  /\ accepted' = <<>> /\ offered' = 0 /\ owed' = <<>>
  /\ WriteFile([files[seq] EXCEPT !.hdr = TRUE])
  /\ api' = "ready"
  /\ UNCHANGED <<fileOpen, seq, active, doneSem, writerVars, prodVars, rm, cuts>>

\* The header write failed, or the writer task could not be created.
BeginFail ==
  /\ api \in {"opened", "ready"}
  /\ files' = [files EXCEPT ![seq] = Absent]
  /\ fileOpen' = FALSE
  /\ api' = "idle"
  /\ IF api = "opened"
     THEN /\ full' = FALSE /\ stopReq' = FALSE /\ lastT' = 0
          /\ ring' = <<>> /\ dropped' = 0
          /\ accepted' = <<>> /\ offered' = 0 /\ owed' = <<>>
          /\ UNCHANGED doneSem
     ELSE /\ doneSem' = 0
          /\ UNCHANGED <<full, stopReq, lastT, ringVars, histVars>>
  /\ UNCHANGED <<seq, active, writerVars, prodVars, rm, cuts>>

\* A stale give is taken back and the writer task is created.
BeginLaunch ==
  /\ api = "ready"
  /\ doneSem' = 0
  /\ wpc' = "pop" /\ wret' = "flag" /\ wbuf' = <<>> /\ pass' = 0 /\ stopping' = FALSE
  /\ api' = "launched"
  /\ UNCHANGED <<files, fileOpen, seq, active, stopReq, full, lastT, ringVars,
                 prodVars, rm, cuts, histVars>>

BeginActivate ==
  /\ api = "launched"
  /\ active' = TRUE
  /\ api' = "idle"
  /\ UNCHANGED <<files, fileOpen, seq, stopReq, full, lastT, doneSem, writerVars,
                 ringVars, prodVars, rm, cuts, histVars>>

\* store_set_addrs(): the header is patched in place and the file synced.
SetAddrs ==
  /\ api = "idle" /\ active /\ fileOpen
  /\ WriteFile(Synced(files[seq]))
  /\ UNCHANGED <<storeVars, writerVars, ringVars, prodVars, rm, cuts, histVars>>

-----------------------------------------------------------------------------
(***************************************************************************)
(* store_end(), on the capture task.                                       *)
(***************************************************************************)
\* Mutation of EndCall: do_record_stop() does not wait for the producers.
EndCallEarly ==
  /\ api = "idle" /\ active
  /\ active' = FALSE
  /\ api' = "ending"
  /\ UNCHANGED <<files, fileOpen, seq, stopReq, full, lastT, doneSem, writerVars,
                 ringVars, prodVars, rm, cuts, histVars>>

EndCall ==
  /\ api = "idle" /\ active
  /\ QuietEnd => \A p \in Producers : ~InFlight(p)
  /\ active' = FALSE
  /\ api' = "ending"
  /\ UNCHANGED <<files, fileOpen, seq, stopReq, full, lastT, doneSem, writerVars,
                 ringVars, prodVars, rm, cuts, histVars>>

\* Mutation of EndRequest: the writer is joined without being asked to stop.
EndRequestSilent ==
  /\ api = "ending"
  /\ owed' = accepted
  /\ api' = "joining"
  /\ UNCHANGED <<files, fileOpen, seq, active, stopReq, full, lastT, doneSem, writerVars,
                 ringVars, prodVars, rm, cuts, accepted, offered>>

EndRequest ==
  /\ api = "ending"
  /\ stopReq' = TRUE
  /\ owed' = accepted
  /\ api' = "joining"
  /\ UNCHANGED <<files, fileOpen, seq, active, full, lastT, doneSem, writerVars,
                 ringVars, prodVars, rm, cuts, accepted, offered>>

\* Mutation of EndJoin: the take has a timeout, and its result is not looked at.
EndJoinTimeout ==
  /\ api = "joining"
  /\ doneSem' = 0
  /\ api' = "joined"
  /\ UNCHANGED <<files, fileOpen, seq, active, stopReq, full, lastT, writerVars,
                 ringVars, prodVars, rm, cuts, histVars>>

\* The take of s_done_sem, without a timeout.
EndJoin ==
  /\ api = "joining" /\ doneSem = 1
  /\ doneSem' = 0
  /\ api' = "joined"
  /\ UNCHANGED <<files, fileOpen, seq, active, stopReq, full, lastT, writerVars,
                 ringVars, prodVars, rm, cuts, histVars>>

\* The duration is patched into the header, the file is synced and closed.
EndClose ==
  /\ api = "joined"
  /\ WriteFile([Synced(files[seq]) EXCEPT !.dur = lastT, !.st = "closed"])
  /\ fileOpen' = FALSE
  /\ api' = "idle"
  /\ UNCHANGED <<seq, active, stopReq, full, lastT, doneSem, writerVars, ringVars,
                 prodVars, rm, cuts, histVars>>

-----------------------------------------------------------------------------
(***************************************************************************)
(* store_write(), on any producer.                                         *)
(***************************************************************************)

\* cap_record(): a producer that sees s_rec_on stamps a record, then calls.
Stamp(p) ==
  /\ ppc[p] = "idle" /\ active
  /\ clock < MaxStamps
  /\ clock' = clock + 1
  /\ \E l \in Lens : prec' = [prec EXCEPT ![p] = [by |-> p, t |-> clock + 1,
                                                  len |-> l, cap |-> seq]]
  /\ ppc' = [ppc EXCEPT ![p] = "called"]
  /\ UNCHANGED <<files, storeVars, writerVars, ringVars, rm, cuts, histVars>>

\* "not recording is normal, not a loss"
CheckActive(p) ==
  /\ ppc[p] = "called"
  /\ IF active
     THEN /\ ppc' = [ppc EXCEPT ![p] = "active"]
          /\ prec' = [prec EXCEPT ![p].cap = seq]
          /\ offered' = offered + 1
     ELSE /\ ppc' = [ppc EXCEPT ![p] = "idle"]
          /\ UNCHANGED <<prec, offered>>
  /\ UNCHANGED <<files, storeVars, writerVars, ringVars, clock, rm, cuts, accepted, owed>>

\* Mutation of CheckFull: a record for a full partition is not counted.
CheckFullSilent(p) ==
  /\ ppc[p] = "active"
  /\ ppc' = [ppc EXCEPT ![p] = IF full THEN "idle" ELSE "push"]
  /\ UNCHANGED <<files, storeVars, writerVars, ringVars, prec, clock, rm, cuts, histVars>>

CheckFull(p) ==
  /\ ppc[p] = "active"
  /\ ppc' = [ppc EXCEPT ![p] = IF full THEN "idle" ELSE "push"]
  /\ dropped' = IF full THEN dropped + 1 ELSE dropped
  /\ UNCHANGED <<files, storeVars, writerVars, ring, prec, clock, rm, cuts, histVars>>

\* Mutation of Push: the ring takes as much of a record as there is room for.
PushTorn(p) ==
  /\ ppc[p] = "push"
  /\ LET room == RingCells - Len(ring)
         n == IF room < prec[p].len THEN room ELSE prec[p].len
     IN  ring' = ring \o SubSeq(CellsOf(prec[p]), 1, n)
  /\ accepted' = Append(accepted, prec[p])
  /\ ppc' = [ppc EXCEPT ![p] = "pushed"]
  /\ UNCHANGED <<files, storeVars, writerVars, dropped, prec, clock, rm, cuts, offered, owed>>

\* ring_push(): a record goes in whole or is counted as a drop.
Push(p) ==
  /\ ppc[p] = "push"
  /\ IF RingCells - Len(ring) >= prec[p].len
     THEN /\ ring' = ring \o CellsOf(prec[p])
          /\ accepted' = Append(accepted, prec[p])
          /\ ppc' = [ppc EXCEPT ![p] = "pushed"]
          /\ UNCHANGED dropped
     ELSE /\ dropped' = dropped + 1
          /\ ppc' = [ppc EXCEPT ![p] = "idle"]
          /\ UNCHANGED <<ring, accepted>>
  /\ UNCHANGED <<files, storeVars, writerVars, prec, clock, rm, cuts, offered, owed>>

NoteT(p) ==
  /\ ppc[p] = "pushed"
  /\ lastT' = prec[p].t
  /\ ppc' = [ppc EXCEPT ![p] = "idle"]
  /\ UNCHANGED <<files, fileOpen, seq, active, stopReq, full, doneSem, api, writerVars,
                 ringVars, prec, clock, rm, cuts, histVars>>

-----------------------------------------------------------------------------
(***************************************************************************)
(* writer_task().                                                          *)
(***************************************************************************)

\* Starts drain_pass(); it returns to `to`.
Drain(to) == wpc' = "pop" /\ wret' = to /\ pass' = 0

\* Mutation of WriterPop: the tail is set to the head, whatever was copied.
WriterPopAll ==
  /\ wpc = "pop"
  /\ IF pass < DrainPasses /\ ring # <<>>
     THEN LET n == IF Len(ring) < DrainCells THEN Len(ring) ELSE DrainCells
          IN  /\ wbuf' = SubSeq(ring, 1, n)
              /\ ring' = <<>>
              /\ wpc' = "write"
              /\ UNCHANGED pass
     ELSE /\ wpc' = wret
          /\ pass' = 0
          /\ UNCHANGED <<wbuf, ring>>
  /\ UNCHANGED <<files, storeVars, wret, stopping, dropped, prodVars, rm, cuts, histVars>>

\* ring_pop(), or the end of drain_pass().
WriterPop ==
  /\ wpc = "pop"
  /\ IF pass < DrainPasses /\ ring # <<>>
     THEN LET n == IF Len(ring) < DrainCells THEN Len(ring) ELSE DrainCells
          IN  /\ wbuf' = SubSeq(ring, 1, n)
              /\ ring' = SubSeq(ring, n + 1, Len(ring))
              /\ wpc' = "write"
              /\ UNCHANGED pass
     ELSE /\ wpc' = wret
          /\ pass' = 0
          /\ UNCHANGED <<wbuf, ring>>
  /\ UNCHANGED <<files, storeVars, wret, stopping, dropped, prodVars, rm, cuts, histVars>>

\* The fwrite() of what was popped.
WriterWrite ==
  /\ wpc = "write"
  /\ WriteFile([files[seq] EXCEPT !.cells = @ \o wbuf])
  /\ wbuf' = <<>>
  /\ pass' = pass + 1
  /\ wpc' = "pop"
  /\ UNCHANGED <<storeVars, wret, stopping, ringVars, prodVars, rm, cuts, histVars>>

\* Mutation of WriterReadStop: what was queued since the drain is not drained.
WriterReadStopOnce ==
  /\ wpc = "flag"
  /\ stopping' = stopReq
  /\ wpc' = "decide"
  /\ UNCHANGED <<files, storeVars, wret, wbuf, pass, ringVars, prodVars, rm, cuts, histVars>>

\* "Read the stop flag after the drain, then drain once more"
WriterReadStop ==
  /\ wpc = "flag"
  /\ stopping' = stopReq
  /\ IF stopReq THEN Drain("decide") ELSE wpc' = "decide" /\ UNCHANGED <<wret, pass>>
  /\ UNCHANGED <<files, storeVars, wbuf, ringVars, prodVars, rm, cuts, histVars>>

\* sync_file(), when it is due: the writer stops, SYNC_BYTES were written or
\* SYNC_MS have passed.  The last may be the case at any time.
WriterSync ==
  /\ wpc = "decide"
  /\ WriteFile(Synced(files[seq]))
  /\ wpc' = IF stopping THEN "exit" ELSE "space"
  /\ UNCHANGED <<storeVars, wret, wbuf, pass, stopping, ringVars, prodVars, rm, cuts,
                 histVars>>

\* Mutation of WriterNoSync: only the time since the last sync counts.
WriterNoSyncByTime ==
  /\ wpc = "decide" /\ ~stopping
  /\ Drain("flag")
  /\ UNCHANGED <<files, storeVars, wbuf, stopping, ringVars, prodVars, rm, cuts, histVars>>

WriterNoSync ==
  /\ wpc = "decide" /\ ~stopping
  /\ Unsynced < SyncCells
  /\ Drain("flag")
  /\ UNCHANGED <<files, storeVars, wbuf, stopping, ringVars, prodVars, rm, cuts, histVars>>

\* check_space(): enough is free, or the capture was closed off before.
WriterSpaceLeft ==
  /\ wpc = "space"
  /\ Drain("flag")
  /\ UNCHANGED <<files, storeVars, wbuf, stopping, ringVars, prodVars, rm, cuts, histVars>>

\* check_space(): less than MIN_FREE_BYTES, found out for the first time.
WriterSpaceLow ==
  /\ wpc = "space" /\ ~full
  /\ clock < MaxStamps
  /\ full' = TRUE
  /\ Drain("event")
  /\ UNCHANGED <<files, fileOpen, seq, active, stopReq, lastT, doneSem, api, wbuf,
                 stopping, ringVars, prodVars, rm, cuts, histVars>>

\* write_direct(): the "storage full" event goes straight to the file.
WriterEvent ==
  /\ wpc = "event"
  /\ clock' = clock + 1
  /\ \E l \in Lens :
       WriteFile([files[seq] EXCEPT !.cells =
         @ \o CellsOf([by |-> Writer, t |-> clock + 1, len |-> l, cap |-> seq])])
  /\ wpc' = "eventsync"
  /\ UNCHANGED <<storeVars, wret, wbuf, pass, stopping, ringVars, ppc, prec, rm, cuts,
                 histVars>>

WriterEventSync ==
  /\ wpc = "eventsync"
  /\ WriteFile(Synced(files[seq]))
  /\ Drain("flag")
  /\ UNCHANGED <<storeVars, wbuf, stopping, ringVars, prodVars, rm, cuts, histVars>>

WriterExit ==
  /\ wpc = "exit"
  /\ doneSem' = 1
  /\ wpc' = "none"
  /\ UNCHANGED <<files, fileOpen, seq, active, stopReq, full, lastT, api, wret, wbuf,
                 pass, stopping, ringVars, prodVars, rm, cuts, histVars>>

WriterStep ==
  \/ WriterPop \/ WriterWrite \/ WriterReadStop \/ WriterSync \/ WriterNoSync
  \/ WriterSpaceLeft \/ WriterSpaceLow \/ WriterEvent \/ WriterEventSync \/ WriterExit

-----------------------------------------------------------------------------
(***************************************************************************)
(* store_remove() and store_remove_all(), on the console task.             *)
(***************************************************************************)
MayRemove == QuietRemove => ~fileOpen

RemoveOne ==
  /\ rm = {} /\ MayRemove
  /\ \E n \in Seqs : Exists(n) /\ rm' = {n}
  /\ UNCHANGED <<files, storeVars, writerVars, ringVars, prodVars, cuts, histVars>>

RemoveAll ==
  /\ rm = {} /\ MayRemove
  /\ ~active                         \* "never delete the file being written"
  /\ rm' = {n \in Seqs : Exists(n)}
  /\ UNCHANGED <<files, storeVars, writerVars, ringVars, prodVars, cuts, histVars>>

\* One call of store_remove(); unlink() fails on a file that is not there.
RemoveStep ==
  /\ MayRemove
  /\ \E n \in rm :
       /\ rm' = rm \ {n}
       /\ files' = IF active /\ n = seq THEN files ELSE [files EXCEPT ![n] = Absent]
  /\ UNCHANGED <<storeVars, writerVars, ringVars, prodVars, cuts, histVars>>

-----------------------------------------------------------------------------
(***************************************************************************)
(* A power cut.  The RAM is gone; of the open file, what was synced is     *)
(* there, and any part of what was not.  The unit boots into Init's state, *)
(* with the files it finds.                                                *)
(***************************************************************************)
PowerCut ==
  /\ cuts < MaxCuts
  /\ cuts' = cuts + 1
  /\ \/ /\ fileOpen /\ Exists(seq)
        /\ \E k \in files[seq].synced .. Len(files[seq].cells) :
             files' = [files EXCEPT ![seq] = CutAt(@, k)]
     \/ /\ fileOpen /\ Exists(seq) /\ ~files[seq].hdr
        /\ files' = [files EXCEPT ![seq] = Absent]
     \/ /\ ~(fileOpen /\ Exists(seq))
        /\ UNCHANGED files
  /\ fileOpen' = FALSE /\ seq' = 1 /\ active' = FALSE /\ stopReq' = FALSE
  /\ full' = FALSE /\ lastT' = 0 /\ doneSem' = 0 /\ api' = "idle"
  /\ ring' = <<>> /\ dropped' = 0
  /\ wpc' = "none" /\ wret' = "flag" /\ wbuf' = <<>> /\ pass' = 0 /\ stopping' = FALSE
  /\ ppc' = [p \in Producers |-> "idle"]
  /\ rm' = {}
  /\ accepted' = <<>> /\ offered' = 0 /\ owed' = <<>>
  /\ UNCHANGED <<prec, clock>>

-----------------------------------------------------------------------------
ApiStep ==
  \/ BeginOpen \/ BeginHeader \/ BeginFail \/ BeginLaunch \/ BeginActivate
  \/ EndCall \/ EndRequest \/ EndJoin \/ EndClose \/ SetAddrs

ProducerStep(p) == Stamp(p) \/ CheckActive(p) \/ CheckFull(p) \/ Push(p) \/ NoteT(p)

RemoveAny == RemoveOne \/ RemoveAll \/ RemoveStep

Next ==
  \/ ApiStep \/ WriterStep \/ RemoveAny \/ PowerCut
  \/ \E p \in Producers : ProducerStep(p)

Spec == Init /\ [][Next]_vars

\* The tasks are never starved: each blocks between two steps of its loop, so
\* the scheduler reaches all of them.  Nothing makes a producer stamp, the
\* capture task begin or end, or the console remove.
ApiContinue ==
  \/ BeginHeader \/ BeginFail \/ BeginLaunch \/ BeginActivate
  \/ EndRequest \/ EndJoin \/ EndClose

ProducerContinue(p) == CheckActive(p) \/ CheckFull(p) \/ Push(p) \/ NoteT(p)

Fairness ==
  /\ WF_vars(WriterStep)
  /\ WF_vars(ApiContinue)
  /\ \A p \in Producers : WF_vars(ProducerContinue(p))

FairSpec == Spec /\ Fairness

-----------------------------------------------------------------------------
(***************************************************************************)
(* Invariants.                                                             *)
(***************************************************************************)
WriterPcs == {"none", "pop", "write", "flag", "decide", "space", "event",
              "eventsync", "exit"}

ApiPcs == {"idle", "opened", "ready", "launched", "ending", "joining", "joined"}

\* Every variable of the store holds a value of its kind.
TypeOK ==
  /\ files \in [Seqs -> File]
  /\ fileOpen \in BOOLEAN /\ seq \in Seqs /\ active \in BOOLEAN
  /\ stopReq \in BOOLEAN /\ full \in BOOLEAN /\ lastT \in Stamps
  /\ doneSem \in {0, 1} /\ api \in ApiPcs
  /\ wpc \in WriterPcs /\ wret \in {"flag", "decide", "event"}
  /\ wbuf \in Seq(Cell) /\ pass \in 0 .. DrainPasses /\ stopping \in BOOLEAN
  /\ ring \in Seq(Cell) /\ dropped \in Nat
  /\ ppc \in [Producers -> {"idle", "called", "active", "push", "pushed"}]
  /\ prec \in [Producers -> Rec] /\ clock \in Nat
  /\ rm \in SUBSET Seqs /\ cuts \in Nat
  /\ accepted \in Seq(Rec) /\ offered \in Nat /\ owed \in Seq(Rec)

\* The writer task never runs without a FILE* to write to, whatever the order
\* in which it and store_end() get to run ("closing the file while the writer
\* still holds the FILE* would be a use-after-free"): it is gone before the
\* file is closed, and before the next one is opened.
WriterHoldsFile ==
  /\ wpc # "none" => fileOpen
  /\ api \in {"opened", "ready", "joined"} => wpc = "none"

\* Cells follow each other as records laid end to end do.
Framed(cells) ==
  \A i \in DOMAIN cells :
    IF i = 1 \/ cells[i - 1].k = cells[i - 1].rec.len
    THEN cells[i].k = 1
    ELSE cells[i].rec = cells[i - 1].rec /\ cells[i].k = cells[i - 1].k + 1

EndsWhole(cells) == cells # <<>> => Last(cells).k = Last(cells).rec.len

\* A host can walk every file record by record, the ones a power cut left
\* included, of which only the last record may be torn: records that wrapped
\* in the ring, were split between two flash writes or were joined by the
\* "storage full" event are whole again, and nothing is there before the header.
Parsable ==
  \A n \in Seqs :
    /\ Framed(files[n].cells)
    /\ files[n].cells # <<>> => files[n].hdr
    /\ files[n].st = "closed" => files[n].hdr /\ EndsWhole(files[n].cells)

\* While a capture is open, the records on flash, in the writer's buffer and in
\* the ring are together, and in this order, the ones store_write() accepted.
Conservation ==
  fileOpen /\ api # "opened" /\ Exists(seq) =>
    Queued(files[seq].cells \o wbuf \o ring) = accepted

\* The producers inside store_write() that were counted in, but not yet decided on.
Undecided == {p \in Producers : ppc[p] \in {"active", "push"}}

\* Every store_write() of the capture ends up as an accepted record or in
\* s_dropped, or has yet to be decided.
Accounted ==
  fileOpen /\ api # "opened" =>
    offered = Len(accepted) + dropped + Cardinality(Undecided)

\* When store_end() has joined the writer, every record accepted before it asked
\* the writer to stop is in the file ("so a record queued just before
\* store_end() still lands in the file").
EndFlushes ==
  api = "joined" /\ Exists(seq) => IsPrefix(owed, Queued(files[seq].cells))

\* What a power cut may take from the file is bounded: less than SYNC_BYTES when
\* the writer starts a round, and what the two drains of the round add.
CutLossBounded ==
  /\ wpc = "pop" /\ wret = "flag" /\ pass = 0 => Unsynced < SyncCells
  /\ fileOpen => Unsynced <= SyncCells - 1 + 2 * DrainPasses * DrainCells

\* A file holds records of its own capture only.
NoForeign ==
  \A n \in Seqs : \A i \in DOMAIN files[n].cells : files[n].cells[i].rec.cap = n

-----------------------------------------------------------------------------
(***************************************************************************)
(* Action properties, liveness and refinement.                             *)
(***************************************************************************)

\* A capture that was finished, or that a power cut left behind, is never
\* written again: its number is not reused while it is there, and a writer that
\* is late cannot reach it.
ClosedImmutable ==
  [][\A n \in Seqs : files[n].st \in {"closed", "cut"} => files'[n] \in {files[n], Absent}]_vars

\* store_begin() and store_end() return: the join without a timeout is answered.
ApiReturns == (api # "idle") ~> (api = "idle")

\* The records a reader of the file will get to see, were it closed now.
LogOf(n) ==
  IF fileOpen /\ n = seq
  THEN IF api = "opened" THEN <<>> ELSE Queued(files[n].cells \o wbuf \o ring)
  ELSE Queued(files[n].cells)

LogState(n) ==
  CASE files[n].st = "absent" -> "absent"
    [] files[n].st = "open" -> "open"
    [] OTHER -> "final"

Abstract == INSTANCE CaptureLog WITH
  Numbers <- Seqs,
  Records <- [by : Producers, t : 0 .. MaxStamps + 1, len : Lens, cap : Seqs],
  state <- [n \in Seqs |-> LogState(n)],
  log <- [n \in Seqs |-> LogOf(n)]

\* The ring, the writer task and the file implement the numbered log of
\* CaptureLog.
ImplementsLog == Abstract!LogSpec

-----------------------------------------------------------------------------
(***************************************************************************)
(* What a comment of the code says, and the code does not do.              *)
(***************************************************************************)
\* capture_store.c: "never delete the file being written".
OpenFileStays == fileOpen => Exists(seq)
=============================================================================
