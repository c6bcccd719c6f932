--------------------------------- MODULE Trip ---------------------------------
(***************************************************************************)
(* main/wfest/wfest.c and main/est_store.c: the distance, the road and the *)
(* energy that Consumption divides, and what survives a power cut.         *)
(*                                                                         *)
(* The NimBLE host task feeds the frames of the Controller into the state  *)
(* under s_mux.  The capture task copies it out under the same lock when a *)
(* capture ends, and writes the copy to NVS outside it.  The bike cuts the *)
(* power at any moment; the Controller counts on while the Monitor is off. *)
(*                                                                         *)
(* Metres, watt-hours and time are whole numbers of a small unit, and a    *)
(* quotient is rounded down; nothing else of the arithmetic is left out.   *)
(* Of the charge figures only whether there are any, counted against this  *)
(* build's Rated Capacity, is modelled.                                    *)
(***************************************************************************)
EXTENDS Integers

CONSTANTS
  DtMax,      \* WF_EST_DT_MAX_MS
  DistTau,    \* WF_EST_DIST_TAU_S
  BucketM,    \* WF_EST_CONS_BUCKET_M
  Buckets,    \* WF_EST_CONS_BUCKETS
  CountM,     \* metres of one count of the Odometer
  Span,       \* the values of the Odometer, 2^16
  Version,    \* WF_EST_PERSIST_VERSION
  Saved,      \* what may be in flash when the Monitor is first used
  Unknown,    \* no road speed: the wheel geometry has not arrived
  Speeds,     \* road speeds, metres per unit of time, or Unknown
  Powers,     \* watt-hours per unit of time
  Gaps,       \* times between two frames of a kind
  Reading,    \* the Odometer when the Monitor is first used
  MaxRide,    \* bound: metres between two power cuts
  MaxWh,      \* bound: energy, either way
  MaxRolls,   \* bound: counts of the Odometer
  MaxCuts,    \* bound: power cuts
  MaxSaves    \* bound: captures that end

\* WF_EST_PERSIST_VERSION_MIN
VersionMin == 1

ASSUME TripAssumption ==
  /\ {DtMax, DistTau, BucketM, Buckets, CountM} \subseteq Nat \ {0}
  /\ Version \in Nat /\ Version >= 3
  /\ Span \in Nat /\ Span >= 4 /\ Span % 2 = 0 /\ Reading \in 0 .. Span - 1
  /\ DtMax <= DistTau
  /\ Speeds \subseteq Nat \cup {Unknown} /\ Gaps \subseteq Nat /\ Powers \subseteq Int
  /\ Saved \subseteq [version : Nat, valid : BOOLEAN, distValid : BOOLEAN, dist : Nat,
                      m : Nat, wh : Int, winM : Nat, winWh : Int]
  /\ \A b \in Saved : ~b.distValid => b.dist = 0
  /\ {MaxRide, MaxWh, MaxRolls, MaxCuts, MaxSaves} \subseteq Nat

VARIABLES
  on,            \* the Monitor has power
  dist,          \* distance_m
  odo,           \* odo_seen, odo_counts, odo_distance_m
  timed,         \* which of speed_t_valid and power_t_valid is set
  known,         \* speed_seen or distance_restored
  ring, head, filled,   \* cons_m and cons_wh, cons_head, cons_filled
  part,          \* cons_part_m, cons_part_wh
  alltime,       \* alltime_m, alltime_wh
  charge,        \* acquired or restored
  copy,          \* est_persist(): the copy that is being written, or Absent
  blob,          \* the NVS blob, or Absent
  reading,       \* the bike: its Odometer
  moved,         \* history: counts since the Odometer was last heard, -1 if set back
  rolls, cuts, saves,   \* history: how many there were
  road,          \* history: the distance at acquisition, and the counts since, in metres
  start,         \* history: alltime at power-on
  ended,         \* history: the totals when a capture last ended
  failed         \* history: a save failed since, or the power went

estVars == <<dist, odo, timed, known, ring, head, filled, part, alltime, charge>>
nvsVars == <<copy, blob, saves, ended, failed>>
bikeVars == <<reading, moved, rolls>>
vars == <<on, estVars, nvsVars, bikeVars, cuts, road, start>>

WindowM == Buckets * BucketM

None == [m |-> 0, wh |-> 0]

Plus(x, y) == [m |-> x.m + y.m, wh |-> x.wh + y.wh]

\* cons_window(): "summed in index order"
Window(r) ==
  LET upTo[n \in 0 .. Buckets] == IF n = 0 THEN None ELSE Plus(upTo[n - 1], r[n - 1])
  IN  upTo[Buckets]

-----------------------------------------------------------------------------
(***************************************************************************)
(* What is saved, and what of it a build makes use of.                     *)
(***************************************************************************)
Absent == [version |-> 0, valid |-> FALSE, distValid |-> FALSE, dist |-> 0,
           m |-> 0, wh |-> 0, winM |-> 0, winWh |-> 0]

\* wf_est_persist_decode(): a layout this build knows, and the fields it had.
Decode(b) ==
  LET since(n, x, none) == IF b.version >= n THEN x ELSE none IN
    IF b.version \notin VersionMin .. Version THEN Absent
    ELSE [version |-> b.version, valid |-> b.valid,
          distValid |-> since(2, b.distValid, FALSE), dist |-> since(2, b.dist, 0),
          m |-> since(3, b.m, 0), wh |-> since(3, b.wh, 0),
          winM |-> since(3, b.winM, 0), winWh |-> since(3, b.winWh, 0)]

\* n spread evenly over the ring
Share(n, i) == n \div Buckets + (IF i < n % Buckets THEN 1 ELSE 0)

\* wf_est_init(), with what est_store_load() found
WfEstInit(b) ==
  LET r == Decode(b) IN
    /\ dist' = IF r.distValid THEN r.dist ELSE 0
    /\ known' = r.distValid
    /\ odo' = [seen |-> FALSE, counts |-> 0, dist |-> 0]
    /\ timed' = {}
    /\ alltime' = [m |-> r.m, wh |-> r.wh]
    /\ ring' = [i \in 0 .. Buckets - 1 |->
                  IF r.winM >= WindowM
                  THEN [m |-> Share(r.winM, i), wh |-> Share(r.winWh, i)] ELSE None]
    /\ head' = 0
    /\ filled' = IF r.winM >= WindowM THEN Buckets ELSE 0
    /\ part' = None
    /\ charge' = r.valid

\* Mutation of WfEstSave: the totals of the ride are saved, not those of its life.
WfEstSaveRide ==
  LET w == IF filled >= Buckets THEN Window(ring) ELSE None IN
    [version |-> Version, valid |-> charge, distValid |-> known \/ odo.seen,
     dist |-> dist, m |-> alltime.m - start.m, wh |-> alltime.wh - start.wh,
     winM |-> w.m, winWh |-> w.wh]

\* wf_est_save() of a Monitor that has come as far as this
WfEstSave ==
  LET w == IF filled >= Buckets THEN Window(ring) ELSE None IN
    [version |-> Version, valid |-> charge, distValid |-> known \/ odo.seen,
     dist |-> dist, m |-> alltime.m, wh |-> alltime.wh, winM |-> w.m, winWh |-> w.wh]

-----------------------------------------------------------------------------
(***************************************************************************)
(* The bike.                                                               *)
(***************************************************************************)

\* Half the Odometer's span is never covered between two of its frames.
Rolls ==
  /\ rolls < MaxRolls
  /\ odo.seen => moved \in 0 .. Span \div 2 - 1
  /\ reading' = (reading + 1) % Span
  /\ moved' = (IF odo.seen THEN moved + 1 ELSE 0) /\ rolls' = rolls + 1
  /\ UNCHANGED <<on, estVars, nvsVars, cuts, road, start>>

\* "a reading that went backwards"
SetBack ==
  /\ rolls < MaxRolls
  /\ odo.seen /\ moved = 0
  /\ reading' = (reading - 1) % Span
  /\ moved' = -1 /\ rolls' = rolls + 1
  /\ UNCHANGED <<on, estVars, nvsVars, cuts, road, start>>

\* What is in memory is gone.
PowerCut ==
  /\ on /\ cuts < MaxCuts
  /\ on' = FALSE /\ cuts' = cuts + 1
  /\ copy' = Absent /\ failed' = (failed \/ copy # Absent)
  /\ WfEstInit(Absent)
  /\ moved' = 0 /\ road' = 0 /\ start' = None
  /\ UNCHANGED <<blob, saves, ended, reading, rolls>>

\* cap_init()
PowerOn ==
  /\ ~on /\ on' = TRUE
  /\ WfEstInit(blob)
  /\ start' = alltime'
  /\ UNCHANGED <<nvsVars, bikeVars, cuts, road>>

-----------------------------------------------------------------------------
(***************************************************************************)
(* The frames, on the host task.                                           *)
(***************************************************************************)

\* Mutation of Credit: half the span is taken for a step back.
CreditHalf(d) == IF d >= Span \div 2 THEN 0 ELSE CountM * d

\* "More than half the counter's span forward is more plausibly a reading that went
\* backwards"
Credit(d) == IF d > Span \div 2 THEN 0 ELSE CountM * d

\* odo_fold()
OdoFrame ==
  /\ on
  /\ IF odo.seen
     THEN /\ odo' = [odo EXCEPT !.counts = reading,
                                !.dist = @ + Credit((reading - odo.counts) % Span)]
          /\ road' = road + CountM * (IF moved < 0 THEN 0 ELSE moved)
     ELSE /\ odo' = [seen |-> TRUE, counts |-> reading, dist |-> dist]
          /\ road' = dist
  /\ moved' = 0
  /\ UNCHANGED <<on, dist, timed, known, ring, head, filled, part, alltime, charge,
                 nvsVars, reading, rolls, cuts, start>>

Capped(dt) == IF dt > DtMax THEN DtMax ELSE dt

\* "Floored at zero": what a motion frame adds to the distance.
Step(v, dt) ==
  LET pull == IF odo.seen THEN ((odo.dist - dist) * dt) \div DistTau ELSE 0
      step == (IF v = Unknown THEN 0 ELSE v * dt) + pull
  IN  IF step < 0 THEN 0 ELSE step

\* Mutation of CloseBucket: the energy stays in the bucket in progress.
CloseBucketKeeps(p) ==
  /\ ring' = [ring EXCEPT ![head] = p]
  /\ head' = (head + 1) % Buckets
  /\ filled' = IF filled < Buckets THEN filled + 1 ELSE filled
  /\ part' = [p EXCEPT !.m = 0]

\* cons_close_bucket()
CloseBucket(p) ==
  /\ ring' = [ring EXCEPT ![head] = p]
  /\ head' = (head + 1) % Buckets
  /\ filled' = IF filled < Buckets THEN filled + 1 ELSE filled
  /\ part' = None

\* Mutation of Full: the bucket is closed by the frame before.
FullBefore(p) == p.m + 1 >= BucketM

Full(p) == p.m >= BucketM

\* distance_step(): the first frame starts the clock, and one without a gap is ignored.
MotionFrame(v, dt) ==
  /\ on
  /\ timed' = timed \cup {"motion"}
  /\ IF "motion" \notin timed \/ dt = 0
     THEN UNCHANGED <<dist, known, alltime, part, ring, head, filled>>
     ELSE LET s == Step(v, Capped(dt))
              p == Plus(part, [m |-> s, wh |-> 0])
          IN  /\ alltime.m + s <= start.m + MaxRide
              /\ dist' = dist + s
              /\ known' = (known \/ v # Unknown)
              /\ alltime' = Plus(alltime, [m |-> s, wh |-> 0])
              /\ IF Full(p) THEN CloseBucket(p)
                 ELSE part' = p /\ UNCHANGED <<ring, head, filled>>
  /\ UNCHANGED <<on, odo, charge, nvsVars, bikeVars, cuts, road, start>>

\* wf_est_feed_ctrl() with a frame of the power block
PowerFrame(w, dt) ==
  /\ on
  /\ timed' = timed \cup {"power"}
  /\ LET d == IF "power" \notin timed THEN None ELSE [m |-> 0, wh |-> w * Capped(dt)] IN
       /\ alltime.wh + d.wh \in -MaxWh .. MaxWh
       /\ alltime' = Plus(alltime, d)
       /\ part' = Plus(part, d)
  /\ UNCHANGED <<on, dist, odo, known, ring, head, filled, charge,
                 nvsVars, bikeVars, cuts, road, start>>

\* wf_est_feed_bms()
BmsAnswer ==
  /\ on /\ ~charge /\ charge' = TRUE
  /\ UNCHANGED <<on, dist, odo, timed, known, ring, head, filled, part, alltime,
                 nvsVars, bikeVars, cuts, road, start>>

-----------------------------------------------------------------------------
(***************************************************************************)
(* est_persist(), on the capture task when a capture ends.                 *)
(***************************************************************************)
TotalsOf(b) == [dist |-> b.dist, m |-> b.m, wh |-> b.wh]

\* Mutation of WorthAWrite: energy alone is not.
WorthAWriteDist(p) == p.valid \/ p.distValid \/ p.m > 0

\* "Any one of the three is worth a write on its own"
WorthAWrite(p) == p.valid \/ p.distValid \/ p.m > 0 \/ p.wh # 0

EstPersist ==
  /\ on /\ copy = Absent /\ saves < MaxSaves
  /\ saves' = saves + 1
  /\ copy' = IF WorthAWrite(WfEstSave) THEN WfEstSave ELSE Absent
  /\ ended' = TotalsOf(WfEstSave) /\ failed' = FALSE
  /\ UNCHANGED <<on, estVars, blob, bikeVars, cuts, road, start>>

\* est_store_save().  One that fails may have replaced the blob: nvs_set_blob() comes
\* before nvs_commit().
EstStoreSave ==
  /\ on /\ copy # Absent
  /\ copy' = Absent
  /\ \/ blob' = copy /\ UNCHANGED failed
     \/ blob' \in {blob, copy} /\ failed' = TRUE
  /\ UNCHANGED <<on, estVars, saves, ended, bikeVars, cuts, road, start>>

-----------------------------------------------------------------------------
Init ==
  /\ on = FALSE
  /\ dist = 0 /\ odo = [seen |-> FALSE, counts |-> 0, dist |-> 0]
  /\ timed = {} /\ known = FALSE
  /\ ring = [i \in 0 .. Buckets - 1 |-> None] /\ head = 0 /\ filled = 0
  /\ part = None /\ alltime = None /\ charge = FALSE
  /\ copy = Absent /\ blob \in Saved
  /\ reading = Reading /\ moved = 0 /\ rolls = 0 /\ cuts = 0 /\ saves = 0
  /\ road = 0 /\ start = None
  /\ ended = TotalsOf(Decode(blob)) /\ failed = FALSE

Next ==
  \/ Rolls \/ SetBack \/ PowerCut \/ PowerOn
  \/ OdoFrame
  \/ \E v \in Speeds, dt \in Gaps : MotionFrame(v, dt)
  \/ \E w \in Powers, dt \in Gaps : PowerFrame(w, dt)
  \/ BmsAnswer
  \/ EstPersist \/ EstStoreSave

Spec == Init /\ [][Next]_vars

-----------------------------------------------------------------------------
\* The Anchor of the distance is the road the Odometer has counted since it was first
\* heard, wrap included, and a reading that went backwards neither adds to it nor
\* takes from it.
OdometerAccount == on /\ odo.seen => odo.dist = road

\* "the summed metres are a kilometre by construction", also of a window that came
\* back from flash: wf_est_get() divides by it without another guard.
WindowWhole == on /\ filled >= Buckets => Window(ring).m >= WindowM

\* Until the ring first turns, no metre and no watt-hour since power-on is missing from
\* it and the bucket in progress, and none is in there twice.
WindowAccount ==
  on /\ filled < Buckets => Plus(Plus(Window(ring), part), start) = alltime

\* When a capture has ended and its state is saved, the totals of that moment are what
\* the next start will find, also those of a ride that only drew energy, and whatever
\* was fed meanwhile.  All of them at 0 are the same as none, and are not saved.
KeptIsLatest ==
  copy = Absent /\ ~failed /\ ended # [dist |-> 0, m |-> 0, wh |-> 0] =>
    TotalsOf(Decode(blob)) = ended

\* The figures that outlive a ride do as Totals promises.
Live == IF on THEN [dist |-> dist, m |-> alltime.m, wh |-> alltime.wh]
              ELSE TotalsOf(Decode(blob))

Abstract == INSTANCE Totals WITH
  live <- Live,
  taken <- IF copy = Absent THEN TotalsOf(Decode(blob)) ELSE TotalsOf(copy),
  kept <- TotalsOf(Decode(blob))

ImplementsTotals == Abstract!TotalsSpec
=============================================================================
