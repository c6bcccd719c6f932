------------------------------ MODULE Trip_proofs ------------------------------
(***************************************************************************)
(* The totals of Trip do as Totals promises, for every size of the window, *)
(* every span of the Odometer, every speed, power and gap, and however     *)
(* often the power is cut; and what the display reads of the buckets is    *)
(* what the ring holds, summed over a window of any number of buckets.     *)
(***************************************************************************)
EXTENDS Trip, FiniteSetTheorems, TLAPS

\* What a build that decodes b will find: numbers, and no distance unless it says so.
Readable(b) ==
  /\ Decode(b).dist \in Int /\ Decode(b).m \in Int /\ Decode(b).wh \in Int
  /\ Decode(b).distValid \in BOOLEAN
  /\ ~Decode(b).distValid => Decode(b).dist = 0

\* b is decoded as it was encoded.
Faithful(b) == TotalsOf(Decode(b)) = TotalsOf(b)

LiveInv ==
  /\ on \in BOOLEAN /\ known \in BOOLEAN
  /\ odo \in [seen : BOOLEAN, counts : Int, dist : Int] /\ reading \in Int
  /\ dist \in Int /\ alltime \in [m : Int, wh : Int]
  /\ ~known /\ ~odo.seen => dist = 0

KeptInv ==
  /\ Readable(blob)
  /\ copy # Absent => Readable(copy) /\ Faithful(copy)

Inv == LiveInv /\ KeptInv

-----------------------------------------------------------------------------
LEMMA DecodeAbsent == Decode(Absent) = Absent
  BY TripAssumption DEF Decode, Absent, VersionMin

\* Whatever was in flash when the Monitor was first used can be made use of.
LEMMA SavedReadable == ASSUME NEW b \in Saved PROVE Readable(b)
<1>1. /\ b.version \in Nat /\ b.distValid \in BOOLEAN
      /\ b.dist \in Nat /\ b.m \in Nat /\ b.wh \in Int
  BY TripAssumption
<1>2. ~b.distValid => b.dist = 0
  BY TripAssumption
<1>3. CASE b.version \notin VersionMin .. Version
  <2>1. Decode(b) = Absent
    BY <1>3 DEF Decode
  <2>2. Absent.dist = 0 /\ Absent.m = 0 /\ Absent.wh = 0 /\ Absent.distValid = FALSE
    BY DEF Absent
  <2>3. Decode(b).dist = 0 /\ Decode(b).m = 0 /\ Decode(b).wh = 0
    BY <2>1, <2>2
  <2>4. Decode(b).distValid \in BOOLEAN
    BY <2>1, <2>2, Zenon
  <2> QED BY <2>3, <2>4 DEF Readable
<1>4. CASE b.version \in VersionMin .. Version
  <2>1. /\ Decode(b).dist = IF b.version >= 2 THEN b.dist ELSE 0
        /\ Decode(b).m = IF b.version >= 3 THEN b.m ELSE 0
        /\ Decode(b).wh = IF b.version >= 3 THEN b.wh ELSE 0
    BY <1>4 DEF Decode
  <2>2. Decode(b).distValid = IF b.version >= 2 THEN b.distValid ELSE FALSE
    BY <1>4 DEF Decode
  <2>3. Decode(b).distValid \in BOOLEAN
    BY <1>1, <2>2, Zenon
  <2>4. Decode(b).dist \in Int /\ Decode(b).m \in Int /\ Decode(b).wh \in Int
    BY <1>1, <2>1
  <2>5. ~Decode(b).distValid => Decode(b).dist = 0
    <3>1. CASE b.version >= 2
      <4>1. Decode(b).distValid = b.distValid /\ Decode(b).dist = b.dist
        BY <3>1, <2>1, <2>2, Zenon
      <4> QED BY <4>1, <1>2, Zenon
    <3>2. CASE ~(b.version >= 2)
      BY <3>2, <2>1
    <3> QED BY <3>1, <3>2
  <2> QED BY <2>3, <2>4, <2>5 DEF Readable
<1> QED BY <1>3, <1>4

\* A copy this build has made is decoded as it was.
LEMMA OwnCopy ==
  ASSUME LiveInv
  PROVE  /\ WfEstSave # Absent
         /\ Readable(WfEstSave) /\ Faithful(WfEstSave)
         /\ TotalsOf(WfEstSave) = [dist |-> dist, m |-> alltime.m, wh |-> alltime.wh]
<1> DEFINE b == WfEstSave
<1>1. /\ b.version = Version /\ b.distValid = (known \/ odo.seen)
      /\ b.dist = dist /\ b.m = alltime.m /\ b.wh = alltime.wh
  BY DEF WfEstSave
<1>2. b.version \in VersionMin .. Version /\ b.version >= 3 /\ b.version >= 2
  BY <1>1, TripAssumption DEF VersionMin
<1>3. /\ Decode(b).dist = dist /\ Decode(b).m = alltime.m /\ Decode(b).wh = alltime.wh
      /\ Decode(b).distValid = (known \/ odo.seen)
  <2> HIDE DEF b
  <2> QED BY <1>1, <1>2 DEF Decode
<1>4. b.version # Absent.version
  BY <1>1, TripAssumption DEF Absent
<1> QED BY <1>1, <1>3, <1>4 DEF LiveInv, Readable, Faithful, TotalsOf

\* A step of the distance is a number, and never takes anything back.
LEMMA StepNat ==
  ASSUME LiveInv, NEW v \in Speeds, NEW dt \in Nat
  PROVE  /\ Step(v, dt) \in Nat
         /\ v = Unknown /\ ~odo.seen => Step(v, dt) = 0
<1> DEFINE pull == IF odo.seen THEN ((odo.dist - dist) * dt) \div DistTau ELSE 0
           run == IF v = Unknown THEN 0 ELSE v * dt
<1>1. DistTau \in Nat \ {0} /\ (v = Unknown \/ v \in Nat)
  BY TripAssumption
<1>2. (odo.dist - dist) * dt \in Int
  BY DEF LiveInv
<1>3. pull \in Int
  <2> HIDE DEF run
  <2> DEFINE x == (odo.dist - dist) * dt
  <2>1. x \in Int BY <1>2
  <2> HIDE DEF x
  <2>2. x \div DistTau \in Int BY <2>1, <1>1
  <2> QED BY <2>2 DEF x
<1>4. run \in Int
  BY <1>1
<1>5. Step(v, dt) = IF run + pull < 0 THEN 0 ELSE run + pull
  BY DEF Step
<1>6. v = Unknown /\ ~odo.seen => run = 0 /\ pull = 0
  OBVIOUS
<1> HIDE DEF run, pull
<1> QED BY <1>3, <1>4, <1>5, <1>6

-----------------------------------------------------------------------------
(***************************************************************************)
(* The invariant.                                                          *)
(***************************************************************************)
LEMMA InitInv == Init => Inv
<1> SUFFICES ASSUME Init PROVE Inv
  OBVIOUS
<1>1. LiveInv
  <2>1. on = FALSE /\ known = FALSE /\ dist = 0 /\ reading = Reading
    BY DEF Init
  <2>2. odo = [seen |-> FALSE, counts |-> 0, dist |-> 0] /\ alltime = [m |-> 0, wh |-> 0]
    BY DEF Init, None
  <2>3. on \in BOOLEAN /\ known \in BOOLEAN
    BY <2>1, Zenon
  <2>4. Reading \in Int
    BY TripAssumption
  <2> QED BY <2>1, <2>2, <2>3, <2>4 DEF LiveInv
<1>2. blob \in Saved /\ copy = Absent
  BY DEF Init
<1> QED BY <1>1, <1>2, SavedReadable DEF Inv, KeptInv

\* What wf_est_init() leaves, of flash that can be made use of.
LEMMA InitLive ==
  ASSUME NEW b, Readable(b), WfEstInit(b)
  PROVE  /\ known' \in BOOLEAN /\ odo' \in [seen : BOOLEAN, counts : Int, dist : Int]
         /\ dist' = Decode(b).dist /\ dist' \in Int
         /\ alltime' = [m |-> Decode(b).m, wh |-> Decode(b).wh]
         /\ alltime' \in [m : Int, wh : Int]
         /\ ~known' /\ ~odo'.seen => dist' = 0
<1>1. /\ known' = Decode(b).distValid
      /\ dist' = IF Decode(b).distValid THEN Decode(b).dist ELSE 0
      /\ alltime' = [m |-> Decode(b).m, wh |-> Decode(b).wh]
      /\ odo' = [seen |-> FALSE, counts |-> 0, dist |-> 0]
  BY DEF WfEstInit
<1> QED BY <1>1 DEF Readable

LEMMA AbsentReadable == Readable(Absent)
<1>1. Absent.dist = 0 /\ Absent.m = 0 /\ Absent.wh = 0 /\ Absent.distValid = FALSE
  BY DEF Absent
<1>2. Decode(Absent).distValid \in BOOLEAN
  BY <1>1, DecodeAbsent, Zenon
<1>3. Decode(Absent).dist = 0 /\ Decode(Absent).m = 0 /\ Decode(Absent).wh = 0
  BY <1>1, DecodeAbsent
<1> QED BY <1>2, <1>3 DEF Readable

\* s metres are covered, at a speed of v.
Covers(v, s) ==
  /\ dist' = dist + s
  /\ alltime' = [m |-> alltime.m + s, wh |-> alltime.wh]
  /\ known' = (known \/ v # Unknown)
  /\ v = Unknown /\ ~odo.seen => s = 0

\* The distance and the road of the average take the same step.
LEMMA MotionStep ==
  ASSUME LiveInv, NEW v \in Speeds, NEW dt \in Gaps, MotionFrame(v, dt)
  PROVE  UNCHANGED <<dist, known, alltime>> \/ \E s \in Nat : Covers(v, s)
<1>1. CASE "motion" \notin timed \/ dt = 0
  BY <1>1 DEF MotionFrame
<1>2. CASE ~("motion" \notin timed \/ dt = 0)
  <2> DEFINE s == Step(v, Capped(dt))
  <2>1. Capped(dt) \in Nat
    BY TripAssumption DEF Capped
  <2>2. s \in Nat /\ (v = Unknown /\ ~odo.seen => s = 0)
    BY <2>1, StepNat
  <2>3. /\ dist' = dist + s /\ known' = (known \/ v # Unknown)
        /\ alltime' = Plus(alltime, [m |-> s, wh |-> 0])
    BY <1>2 DEF MotionFrame
  <2> HIDE DEF s
  <2>4. alltime' = [m |-> alltime.m + s, wh |-> alltime.wh]
    BY <2>3 DEF Plus, LiveInv
  <2>5. Covers(v, s)
    BY <2>2, <2>3, <2>4, Zenon DEF Covers
  <2> QED BY <2>2, <2>5
<1> QED BY <1>1, <1>2

\* A frame of the power block leaves both distances alone.
LEMMA PowerStep ==
  ASSUME LiveInv, NEW w \in Powers, NEW dt \in Gaps, PowerFrame(w, dt)
  PROVE  /\ alltime' \in [m : Int, wh : Int] /\ alltime'.m = alltime.m
         /\ UNCHANGED <<on, dist, odo, known, nvsVars, reading>>
<1> DEFINE d == IF "power" \notin timed THEN None ELSE [m |-> 0, wh |-> w * Capped(dt)]
<1>1. w * Capped(dt) \in Int
  <2>1. Capped(dt) \in Int /\ w \in Int
    BY TripAssumption DEF Capped
  <2> QED BY <2>1
<1>2. d.m = 0 /\ d.wh \in Int
  BY <1>1 DEF None
<1>3. alltime' = Plus(alltime, d)
  BY DEF PowerFrame
<1> HIDE DEF d
<1>4. alltime' = [m |-> alltime.m + d.m, wh |-> alltime.wh + d.wh]
  BY <1>3 DEF Plus
<1>5. UNCHANGED <<on, dist, odo, known, nvsVars, reading>>
  BY DEF PowerFrame, bikeVars
<1> QED BY <1>2, <1>4, <1>5 DEF LiveInv

\* The Anchor stays a number.
LEMMA OdoStep ==
  ASSUME LiveInv, OdoFrame
  PROVE  /\ odo' \in [seen : BOOLEAN, counts : Int, dist : Int] /\ odo'.seen
         /\ UNCHANGED <<on, dist, known, alltime, nvsVars, reading>>
<1>1. UNCHANGED <<on, dist, known, alltime, nvsVars, reading>>
  BY DEF OdoFrame
<1>2. CASE odo.seen
  <2> DEFINE c == Credit((reading - odo.counts) % Span)
  <2>1. (reading - odo.counts) % Span \in Int
    BY TripAssumption DEF LiveInv
  <2>2. c \in Int
    BY <2>1, TripAssumption DEF Credit
  <2>3. odo' = [odo EXCEPT !.counts = reading, !.dist = @ + c]
    BY <1>2 DEF OdoFrame
  <2> HIDE DEF c
  <2>4. odo' = [seen |-> TRUE, counts |-> reading, dist |-> odo.dist + c]
    BY <1>2, <2>3 DEF LiveInv
  <2> QED BY <1>1, <2>2, <2>4 DEF LiveInv
<1>3. CASE ~odo.seen
  <2>1. odo' = [seen |-> TRUE, counts |-> reading, dist |-> dist]
    BY <1>3 DEF OdoFrame
  <2> QED BY <1>1, <2>1 DEF LiveInv
<1> QED BY <1>2, <1>3

\* What KeptInv speaks of.
LEMMA KeptUnchanged == KeptInv /\ UNCHANGED <<copy, blob>> => KeptInv'
  BY DEF KeptInv, Readable, Faithful, TotalsOf, Decode

\* What LiveInv speaks of.
LEMMA LiveUnchanged ==
  LiveInv /\ UNCHANGED <<on, known, odo, reading, dist, alltime>> => LiveInv'
  BY DEF LiveInv

LEMMA StepInv == Inv /\ [Next]_vars => Inv'
<1> SUFFICES ASSUME Inv, [Next]_vars PROVE Inv'
  OBVIOUS
<1> USE DEF Inv
<1>1. CASE Rolls \/ SetBack
  <2>1. UNCHANGED <<on, known, odo, dist, alltime, copy, blob>>
    BY <1>1 DEF Rolls, SetBack, estVars, nvsVars
  <2>2. reading' \in Int
    BY <1>1, TripAssumption DEF Rolls, SetBack, LiveInv
  <2> QED BY <2>1, <2>2, KeptUnchanged DEF LiveInv
<1>2. CASE PowerCut
  <2>1. on' = FALSE /\ copy' = Absent /\ blob' = blob /\ reading' = reading
        /\ WfEstInit(Absent)
    BY <1>2 DEF PowerCut
  <2>2. KeptInv'
    BY <2>1 DEF KeptInv, Readable, Decode
  <2>3. on' \in BOOLEAN
    BY <2>1, Zenon
  <2> QED BY <2>1, <2>2, <2>3, InitLive, AbsentReadable DEF LiveInv
<1>3. CASE PowerOn
  <2>1. on' = TRUE /\ copy' = copy /\ blob' = blob /\ reading' = reading
        /\ WfEstInit(blob)
    BY <1>3 DEF PowerOn, nvsVars, bikeVars
  <2>2. on' \in BOOLEAN
    BY <2>1, Zenon
  <2>3. Readable(blob)
    BY DEF KeptInv
  <2> QED BY <2>1, <2>2, <2>3, InitLive, KeptUnchanged DEF LiveInv
<1>4. CASE OdoFrame
  <2>1. UNCHANGED <<copy, blob>>
    BY <1>4, OdoStep DEF nvsVars
  <2>2. LiveInv'
    BY <1>4, OdoStep DEF LiveInv
  <2> QED BY <2>1, <2>2, KeptUnchanged
<1>5. ASSUME NEW v \in Speeds, NEW dt \in Gaps, MotionFrame(v, dt) PROVE Inv'
  <2>1. UNCHANGED <<on, odo, reading, copy, blob>>
    BY <1>5 DEF MotionFrame, nvsVars, bikeVars
  <2>2. CASE UNCHANGED <<dist, known, alltime>>
    BY <2>1, <2>2, LiveUnchanged, KeptUnchanged
  <2>3. ASSUME NEW s \in Nat, Covers(v, s) PROVE Inv'
    <3>1. dist' \in Int /\ alltime' \in [m : Int, wh : Int]
      <4>1. dist' = dist + s /\ alltime' = [m |-> alltime.m + s, wh |-> alltime.wh]
        BY <2>3, Zenon DEF Covers
      <4> QED BY <4>1 DEF LiveInv
    <3>2. known' \in BOOLEAN
      BY <2>3, Zenon DEF LiveInv, Covers
    <3>3. ~known' /\ ~odo'.seen => dist' = 0
      <4> SUFFICES ASSUME ~known', ~odo'.seen PROVE dist' = 0
        OBVIOUS
      <4>1. ~known /\ v = Unknown /\ ~odo.seen
        BY <2>1, <2>3, Zenon DEF Covers
      <4>2. s = 0 /\ dist = 0
        BY <4>1, <2>3 DEF LiveInv, Covers
      <4>3. dist' = dist + s
        BY <2>3, Zenon DEF Covers
      <4> QED BY <4>2, <4>3
    <3>4. on' \in BOOLEAN
      BY <2>1, Zenon DEF LiveInv
    <3>5. LiveInv'
      BY <2>1, <3>1, <3>2, <3>3, <3>4 DEF LiveInv
    <3> QED BY <2>1, <3>5, KeptUnchanged
  <2> QED BY <1>5, <2>2, <2>3, MotionStep
<1>6. ASSUME NEW w \in Powers, NEW dt \in Gaps, PowerFrame(w, dt) PROVE Inv'
  <2>1. UNCHANGED <<copy, blob>>
    BY <1>6, PowerStep DEF nvsVars
  <2>2. LiveInv'
    BY <1>6, PowerStep DEF LiveInv
  <2> QED BY <2>1, <2>2, KeptUnchanged
<1>7. CASE BmsAnswer
  BY <1>7, LiveUnchanged, KeptUnchanged DEF BmsAnswer, nvsVars, bikeVars
<1>8. CASE EstPersist
  <2>1. UNCHANGED <<on, known, odo, reading, dist, alltime, blob>>
    BY <1>8 DEF EstPersist, estVars, bikeVars
  <2>2. copy' = WfEstSave \/ copy' = Absent
    BY <1>8 DEF EstPersist
  <2>3. Readable(WfEstSave) /\ Faithful(WfEstSave)
    BY OwnCopy
  <2>4. copy' # Absent => Readable(copy') /\ Faithful(copy')
    BY <2>2, <2>3, Zenon
  <2>5. Readable(blob')
    BY <2>1 DEF KeptInv
  <2> QED BY <2>1, <2>4, <2>5, LiveUnchanged DEF KeptInv, Readable, Faithful, TotalsOf, Decode
<1>9. CASE EstStoreSave
  <2>1. UNCHANGED <<on, known, odo, reading, dist, alltime>> /\ copy' = Absent
    BY <1>9 DEF EstStoreSave, estVars, bikeVars
  <2>2. blob' \in {blob, copy} /\ copy # Absent
    BY <1>9 DEF EstStoreSave
  <2>3. Readable(blob)'
    BY <2>2 DEF KeptInv, Readable, Decode
  <2> QED BY <2>1, <2>3, LiveUnchanged DEF KeptInv
<1>10. CASE UNCHANGED vars
  BY <1>10, LiveUnchanged, KeptUnchanged DEF vars, estVars, nvsVars, bikeVars
<1> QED BY <1>1, <1>2, <1>3, <1>4, <1>5, <1>6, <1>7, <1>8, <1>9, <1>10 DEF Next
-----------------------------------------------------------------------------
(***************************************************************************)
(* The refinement.                                                         *)
(***************************************************************************)
Kept == TotalsOf(Decode(blob))
Taken == IF copy = Absent THEN Kept ELSE TotalsOf(copy)

LEMMA InitRefines == Init => Abstract!TotalsInit
  BY DEF Init, Abstract!TotalsInit, Live

\* Every step of Trip is one of Totals or none.
LEMMA StepRefines ==
  Inv /\ [Next]_vars => [Abstract!TotalsNext]_<<Live, Taken, Kept>>
<1> SUFFICES ASSUME Inv, [Next]_vars
             PROVE  Abstract!TotalsNext \/ UNCHANGED <<Live, Taken, Kept>>
  OBVIOUS
<1> USE DEF Inv
<1>a. UNCHANGED <<copy, blob>> => UNCHANGED <<Taken, Kept>>
  BY DEF Taken, Kept, TotalsOf, Decode
<1>b. UNCHANGED <<on, dist, alltime, blob>> => UNCHANGED Live
  BY DEF Live, TotalsOf, Decode
<1>1. CASE Rolls \/ SetBack
  <2>1. UNCHANGED <<on, dist, alltime, copy, blob>>
    BY <1>1 DEF Rolls, SetBack, estVars, nvsVars
  <2> QED BY <2>1, <1>a, <1>b
<1>2. CASE PowerCut
  <2>1. on' = FALSE /\ copy' = Absent /\ blob' = blob
    BY <1>2 DEF PowerCut
  <2>2. Kept' = Kept
    BY <2>1 DEF Kept, TotalsOf, Decode
  <2>3. Live' = Kept' /\ Taken' = Kept'
    BY <2>1 DEF Live, Taken, Kept, TotalsOf, Decode, Absent
  <2>4. Abstract!Lose
    BY <2>2, <2>3 DEF Abstract!Lose, Live, Taken, Kept
  <2> QED BY <2>4 DEF Abstract!TotalsNext
<1>3. CASE PowerOn
  <2>1. on = FALSE /\ on' = TRUE /\ copy' = copy /\ blob' = blob /\ WfEstInit(blob)
    BY <1>3 DEF PowerOn, nvsVars
  <2>2. /\ dist' = Decode(blob).dist
        /\ alltime' = [m |-> Decode(blob).m, wh |-> Decode(blob).wh]
    BY <2>1, InitLive DEF KeptInv
  <2>3. Live' = Live
    BY <2>1, <2>2 DEF Live, TotalsOf
  <2> QED BY <2>1, <2>3, <1>a
<1>4. CASE OdoFrame
  <2>1. UNCHANGED <<on, dist, alltime, copy, blob>>
    BY <1>4, OdoStep DEF nvsVars
  <2> QED BY <2>1, <1>a, <1>b
<1>5. ASSUME NEW v \in Speeds, NEW dt \in Gaps, MotionFrame(v, dt)
      PROVE  Abstract!TotalsNext \/ UNCHANGED <<Live, Taken, Kept>>
  <2>1. on /\ UNCHANGED <<on, copy, blob>>
    BY <1>5 DEF MotionFrame, nvsVars
  <2>2. CASE UNCHANGED <<dist, known, alltime>>
    BY <2>1, <2>2, <1>a, <1>b
  <2>3. ASSUME NEW s \in Nat, Covers(v, s) PROVE Abstract!Ride
    <3>a. dist' = dist + s /\ alltime' = [m |-> alltime.m + s, wh |-> alltime.wh]
      BY <2>3, Zenon DEF Covers
    <3>1. /\ Live = [dist |-> dist, m |-> alltime.m, wh |-> alltime.wh]
          /\ Live' = [dist |-> dist + s, m |-> alltime.m + s, wh |-> alltime.wh]
      BY <2>1, <3>a DEF Live
    <3>2. dist \in Int /\ alltime.m \in Int
      BY DEF LiveInv
    <3>3. /\ Live'.dist >= Live.dist /\ Live'.wh = Live.wh
          /\ Live'.dist - Live.dist = Live'.m - Live.m
      BY <3>1, <3>2
    <3> QED BY <3>3, <2>1, <1>a DEF Abstract!Ride, Taken, Kept
  <2> QED BY <1>5, <2>2, <2>3, MotionStep DEF Abstract!TotalsNext
<1>6. ASSUME NEW w \in Powers, NEW dt \in Gaps, PowerFrame(w, dt)
      PROVE  Abstract!TotalsNext
  <2>1. /\ on /\ UNCHANGED <<on, dist, copy, blob>>
        /\ alltime'.m = alltime.m
    BY <1>6, PowerStep DEF PowerFrame, nvsVars
  <2>2. Live'.dist = Live.dist /\ Live'.m = Live.m
    BY <2>1 DEF Live
  <2>3. Abstract!Draw
    BY <2>1, <2>2, <1>a DEF Abstract!Draw, Taken, Kept
  <2> QED BY <2>3 DEF Abstract!TotalsNext
<1>7. CASE BmsAnswer
  BY <1>7, <1>a, <1>b DEF BmsAnswer, nvsVars
<1>8. CASE EstPersist
  <2>1. on /\ copy = Absent /\ UNCHANGED <<on, dist, alltime, blob>>
    BY <1>8 DEF EstPersist, estVars
  <2>2. Live' = Live /\ Kept' = Kept
    BY <2>1, <1>b DEF Kept, TotalsOf, Decode
  <2>3. CASE copy' = WfEstSave
    <3>1. TotalsOf(copy') = Live
      BY <2>1, <2>3, OwnCopy DEF Live
    <3>2. Taken' = Live
      BY <2>3, <3>1, OwnCopy DEF Taken
    <3>3. Abstract!Copy
      BY <2>2, <3>2 DEF Abstract!Copy, Taken, Kept
    <3> QED BY <3>3 DEF Abstract!TotalsNext
  <2>4. CASE copy' = Absent
    BY <2>1, <2>2, <2>4, <1>a
  <2> QED BY <1>8, <2>3, <2>4 DEF EstPersist
<1>9. CASE EstStoreSave
  <2>1. on /\ copy # Absent /\ copy' = Absent /\ blob' \in {blob, copy}
        /\ UNCHANGED <<on, dist, alltime>>
    BY <1>9 DEF EstStoreSave, estVars
  <2>2. Live' = Live
    BY <2>1 DEF Live
  <2>3. Taken' = Kept'
    BY <2>1 DEF Taken, Kept, TotalsOf, Decode
  <2>4. CASE blob' = copy
    <3>1. Taken = TotalsOf(Decode(copy))
      BY <2>1 DEF Taken, KeptInv, Faithful
    <3>2. Kept' = TotalsOf(Decode(copy))
      BY <2>4 DEF Kept, TotalsOf, Decode
    <3>3. Abstract!Keep
      BY <2>2, <2>3, <3>1, <3>2 DEF Abstract!Keep, Taken, Kept
    <3> QED BY <3>3 DEF Abstract!TotalsNext
  <2>5. CASE blob' = blob
    <3>1. Kept' = Kept
      BY <2>5 DEF Kept, TotalsOf, Decode
    <3>2. Abstract!Drop
      BY <2>2, <2>3, <3>1 DEF Abstract!Drop, Taken, Kept
    <3> QED BY <3>2 DEF Abstract!TotalsNext
  <2> QED BY <2>1, <2>4, <2>5
<1>10. CASE UNCHANGED vars
  BY <1>10, <1>a, <1>b DEF vars, estVars, nvsVars
<1> QED BY <1>1, <1>2, <1>3, <1>4, <1>5, <1>6, <1>7, <1>8, <1>9, <1>10 DEF Next

\* The distance and the totals of the all-time average do as Totals promises: they move
\* together, they are saved together, and a power cut takes them back to what was saved,
\* whatever size the window is, however far and fast the bike goes and wherever the cut
\* falls.
THEOREM TripKeepsTotals == Spec => ImplementsTotals
<1>1. Spec => []Inv
  BY InitInv, StepInv, PTL DEF Spec
<1> QED BY <1>1, InitRefines, StepRefines, PTL
        DEF Spec, ImplementsTotals, Abstract!TotalsSpec, Taken, Kept

-----------------------------------------------------------------------------
(***************************************************************************)
(* The Anchor of the distance.                                             *)
(***************************************************************************)

\* How far the Odometer has come since its last frame, which may be around its end.
OdoInv ==
  /\ reading \in 0 .. Span - 1 /\ moved \in -1 .. Span \div 2
  /\ odo.seen => /\ odo.counts \in 0 .. Span - 1
                 /\ odo.dist = road
                 /\ reading - odo.counts \in {moved, moved - Span, moved + Span}

\* A count forward and one back, around the end of the Odometer.
LEMMA Around ==
  ASSUME NEW x \in 0 .. Span - 1
  PROVE  /\ (x + 1) % Span = IF x = Span - 1 THEN 0 ELSE x + 1
         /\ (x - 1) % Span = IF x = 0 THEN Span - 1 ELSE x - 1
<1>1. Span \in Nat \ {0} /\ Span >= 4
  BY TripAssumption
<1> QED BY <1>1

\* The credit of a frame is what the bike has covered since the one before it.
LEMMA CreditTrue ==
  ASSUME OdoInv, odo.seen
  PROVE  Credit((reading - odo.counts) % Span) = CountM * (IF moved < 0 THEN 0 ELSE moved)
<1> DEFINE d == (reading - odo.counts) % Span
<1>1. Span \in Nat \ {0} /\ Span >= 4 /\ Span % 2 = 0 /\ CountM \in Nat
  BY TripAssumption
<1>2. /\ moved \in -1 .. Span \div 2
      /\ reading \in 0 .. Span - 1 /\ odo.counts \in 0 .. Span - 1
      /\ reading - odo.counts \in {moved, moved - Span, moved + Span}
  BY DEF OdoInv
<1>3. d = IF moved < 0 THEN Span - 1 ELSE moved
  BY <1>1, <1>2
<1>4. Credit(d) = IF d > Span \div 2 THEN 0 ELSE CountM * d
  BY DEF Credit
<1> HIDE DEF d
<1>5. CASE moved < 0
  BY <1>1, <1>2, <1>3, <1>4, <1>5
<1>6. CASE ~(moved < 0)
  BY <1>1, <1>2, <1>3, <1>4, <1>6
<1> QED BY <1>5, <1>6 DEF d

LEMMA InitOdo == Init => OdoInv
<1> SUFFICES ASSUME Init PROVE OdoInv
  OBVIOUS
<1>1. odo.seen = FALSE /\ reading = Reading /\ moved = 0
  BY DEF Init
<1> QED BY <1>1, TripAssumption DEF OdoInv

LEMMA StepOdo == Inv /\ OdoInv /\ [Next]_vars => OdoInv'
<1> SUFFICES ASSUME Inv, OdoInv, [Next]_vars PROVE OdoInv'
  OBVIOUS
<1>s. Span \in Nat \ {0} /\ Span >= 4 /\ Span % 2 = 0
  BY TripAssumption
<1>l. LiveInv
  BY DEF Inv
<1>1. CASE Rolls
  <2>1. /\ odo' = odo /\ road' = road /\ reading' = (reading + 1) % Span
        /\ moved' = (IF odo.seen THEN moved + 1 ELSE 0)
        /\ odo.seen => moved \in 0 .. Span \div 2 - 1
    BY <1>1 DEF Rolls, estVars
  <2>2. reading' = IF reading = Span - 1 THEN 0 ELSE reading + 1
    BY <2>1, Around DEF OdoInv
  <2> QED BY <1>s, <1>l, <2>1, <2>2 DEF OdoInv, LiveInv
<1>2. CASE SetBack
  <2>1. /\ odo' = odo /\ road' = road /\ reading' = (reading - 1) % Span
        /\ moved = 0 /\ moved' = -1
    BY <1>2 DEF SetBack, estVars
  <2>2. reading' = IF reading = 0 THEN Span - 1 ELSE reading - 1
    BY <2>1, Around DEF OdoInv
  <2> QED BY <1>s, <1>l, <2>1, <2>2 DEF OdoInv, LiveInv
<1>3. CASE PowerCut
  <2>1. odo'.seen = FALSE /\ moved' = 0 /\ reading' = reading
    BY <1>3 DEF PowerCut, WfEstInit
  <2> QED BY <1>s, <2>1 DEF OdoInv
<1>4. CASE PowerOn
  <2>1. odo'.seen = FALSE /\ moved' = moved /\ reading' = reading
    BY <1>4 DEF PowerOn, WfEstInit, bikeVars
  <2> QED BY <2>1 DEF OdoInv
<1>5. CASE OdoFrame
  <2>1. reading' = reading /\ moved' = 0
    BY <1>5 DEF OdoFrame
  <2>2. CASE odo.seen
    <3> DEFINE c == Credit((reading - odo.counts) % Span)
               n == CountM * (IF moved < 0 THEN 0 ELSE moved)
    <3>1. odo' = [odo EXCEPT !.counts = reading, !.dist = @ + c] /\ road' = road + n
      BY <1>5, <2>2 DEF OdoFrame
    <3>2. c = n
      BY <2>2, CreditTrue
    <3> HIDE DEF c, n
    <3>3. odo'.counts = reading /\ odo'.dist = road'
      BY <1>l, <2>2, <3>1, <3>2 DEF LiveInv, OdoInv
    <3> QED BY <1>s, <2>1, <3>3 DEF OdoInv
  <2>3. CASE ~odo.seen
    <3>1. odo'.counts = reading /\ odo'.dist = dist /\ road' = dist
      BY <1>5, <2>3 DEF OdoFrame
    <3> QED BY <1>s, <2>1, <3>1 DEF OdoInv
  <2> QED BY <2>2, <2>3
<1>6. ASSUME UNCHANGED <<odo, bikeVars, road>> PROVE OdoInv'
  BY <1>6 DEF OdoInv, bikeVars
<1>7. ASSUME NEW v \in Speeds, NEW dt \in Gaps, MotionFrame(v, dt) PROVE OdoInv'
  BY <1>6, <1>7 DEF MotionFrame
<1>8. ASSUME NEW w \in Powers, NEW dt \in Gaps, PowerFrame(w, dt) PROVE OdoInv'
  BY <1>6, <1>8 DEF PowerFrame
<1>9. CASE BmsAnswer \/ EstPersist \/ EstStoreSave
  BY <1>6, <1>9 DEF BmsAnswer, EstPersist, EstStoreSave, estVars
<1>10. CASE UNCHANGED vars
  BY <1>6, <1>10 DEF vars, estVars
<1> QED BY <1>1, <1>2, <1>3, <1>4, <1>5, <1>7, <1>8, <1>9, <1>10 DEF Next

\* Whatever the Odometer's span and the metres of a count, and wherever the counter
\* wraps, the Anchor is the road covered since it was first heard.
THEOREM AnchorIsTheRoad == Spec => []OdometerAccount
<1>1. OdoInv => OdometerAccount
  BY DEF OdoInv, OdometerAccount
<1> QED BY <1>1, InitInv, StepInv, InitOdo, StepOdo, PTL DEF Spec

-----------------------------------------------------------------------------
(***************************************************************************)
(* Induction on the number of buckets.  A theorem that takes a predicate   *)
(* as a parameter cannot be instantiated by the provers at hand; the same  *)
(* principle about a set can.                                              *)
(***************************************************************************)

\* Every non-empty set of naturals has a least element.
LEMMA NatMin ==
  ASSUME NEW T, T \subseteq Nat, T # {}
  PROVE \E n \in T : \A m \in T : n <= m
<1> DEFINE U == {1 .. n : n \in T}
<1>1. IsWellFoundedOn(StrictSubsetOrdering(Nat), FiniteSubsetsOf(Nat))
  BY FS_StrictSubsetOrderingWellFounded
<1>2. \A n \in T : 1 .. n \in FiniteSubsetsOf(Nat)
  BY FS_Interval DEF FiniteSubsetsOf
<1>3. U \subseteq FiniteSubsetsOf(Nat) /\ U # {}
  BY <1>2
<1>4. PICK u \in U : \A v \in U : ~ (<<v, u>> \in StrictSubsetOrdering(Nat))
  <2> HIDE DEF U
  <2> QED BY <1>1, <1>3, WFMin
<1>5. PICK n \in T : u = 1 .. n
  BY <1>4
<1>6. ASSUME NEW m \in T, ~ (n <= m) PROVE FALSE
  <2>1. m \in Nat /\ n \in Nat /\ m < n
    BY <1>6
  <2>2. 1 .. m \in U /\ 1 .. m \in SUBSET Nat /\ 1 .. n \in SUBSET Nat
    OBVIOUS
  <2>3. 1 .. m \subseteq 1 .. n
    BY <2>1
  <2>4. n \in 1 .. n /\ n \notin 1 .. m
    BY <2>1
  <2>5. <<1 .. m, 1 .. n>> \in StrictSubsetOrdering(Nat)
    BY <2>2, <2>3, <2>4 DEF StrictSubsetOrdering
  <2> QED BY <2>2, <2>5, <1>4, <1>5
<1> QED BY <1>6

\* Induction over the naturals, on a set.
LEMMA NatInd ==
  ASSUME NEW T, 0 \in T, \A n \in Nat : n \in T => n + 1 \in T
  PROVE  Nat \subseteq T
<1>1. SUFFICES ASSUME Nat \ T # {} PROVE FALSE
  OBVIOUS
<1>2. PICK n \in Nat \ T : \A m \in Nat \ T : n <= m
  BY <1>1, NatMin
<1>3. n - 1 \in Nat /\ n-1 \in T
  BY <1>2
<1> QED BY <1>2, <1>3

-----------------------------------------------------------------------------
(***************************************************************************)
(* Window(r), what the ring adds up to.                                    *)
(***************************************************************************)
Total == [m : Int, wh : Int]
Rings == [0 .. Buckets - 1 -> Total]

\* The sums of the first buckets, as a function that obeys the recursion.
Sums(g, r, n) ==
  g = [i \in 0 .. n |-> IF i = 0 THEN None ELSE Plus(g[i - 1], r[i - 1])]

LEMMA SumsExist == \A r : \A n \in Nat : \E g : Sums(g, r, n)
<1> SUFFICES ASSUME NEW r
             PROVE  \A n \in Nat : \E g : Sums(g, r, n)
  OBVIOUS
<1> DEFINE T == {n \in Nat : \E g : Sums(g, r, n)}
<1>1. 0 \in T
  <2>1. Sums([i \in 0 .. 0 |-> None], r, 0)
    BY DEF Sums
  <2> QED  BY <2>1
<1>2. ASSUME NEW n \in Nat, n \in T
      PROVE  n + 1 \in T
  <2>1. PICK g : Sums(g, r, n)
    BY <1>2
  <2> DEFINE h == [i \in 0 .. n + 1 |-> IF i = n + 1 THEN Plus(g[n], r[n]) ELSE g[i]]
  <2>2. \A i \in 0 .. n : h[i] = g[i] /\ g[i] = IF i = 0 THEN None ELSE Plus(g[i - 1], r[i - 1])
    BY <2>1 DEF Sums
  <2>3. h[n + 1] = Plus(g[n], r[n])
    OBVIOUS
  <2>4. \A i \in 0 .. n + 1 : h[i] = IF i = 0 THEN None ELSE Plus(h[i - 1], r[i - 1])
    <3> SUFFICES ASSUME NEW i \in 0 .. n + 1
                 PROVE  h[i] = IF i = 0 THEN None ELSE Plus(h[i - 1], r[i - 1])
      OBVIOUS
    <3> HIDE DEF h
    <3>1. CASE i = n + 1
      <4>1. i - 1 = n /\ h[n] = g[n] /\ i # 0
        BY <2>2, <3>1
      <4> QED  BY <2>3, <3>1, <4>1
    <3>2. CASE i \in 1 .. n
      <4>1. i - 1 \in 0 .. n /\ i \in 0 .. n /\ i # 0
        BY <3>2
      <4> QED  BY <2>2, <4>1
    <3>3. CASE i = 0
      BY <2>2, <3>3
    <3> QED  BY <3>1, <3>2, <3>3
  <2>5. h = [i \in 0 .. n + 1 |-> h[i]]
    OBVIOUS
  <2>6. Sums(h, r, n + 1)
    <3> HIDE DEF h
    <3>1. [i \in 0 .. n + 1 |-> h[i]]
            = [i \in 0 .. n + 1 |-> IF i = 0 THEN None ELSE Plus(h[i - 1], r[i - 1])]
      BY <2>4
    <3> QED  BY <2>5, <3>1 DEF Sums
  <2> QED  BY <2>6
<1>3. Nat \subseteq T
  <2> HIDE DEF T
  <2> QED  BY <1>1, <1>2, NatInd
<1> QED  BY <1>3

LEMMA WindowSums ==
  ASSUME NEW r
  PROVE  \E g : Sums(g, r, Buckets) /\ Window(r) = g[Buckets]
<1> DEFINE g == CHOOSE g : Sums(g, r, Buckets)
<1>1. Sums(g, r, Buckets)
  BY SumsExist, TripAssumption
<1>2. Window(r) = g[Buckets]
  BY DEF Window, Sums
<1> QED  BY <1>1, <1>2

\* Bucket by bucket.
LEMMA SumsStep ==
  ASSUME NEW g, NEW r, Sums(g, r, Buckets)
  PROVE  /\ g[0] = None
         /\ \A i \in 0 .. Buckets - 1 : g[i + 1] = Plus(g[i], r[i])
<1>1. Buckets \in Nat
  BY TripAssumption
<1>2. \A i \in 0 .. Buckets : g[i] = IF i = 0 THEN None ELSE Plus(g[i - 1], r[i - 1])
  BY DEF Sums
<1>3. ASSUME NEW i \in 0 .. Buckets - 1
      PROVE  g[i + 1] = Plus(g[i], r[i])
  <2>1. i + 1 \in 0 .. Buckets /\ i + 1 # 0 /\ (i + 1) - 1 = i
    BY <1>1
  <2> QED  BY <1>2, <2>1
<1> QED  BY <1>1, <1>2, <1>3

LEMMA PlusType ==
  ASSUME NEW x \in Total, NEW y \in Total
  PROVE  /\ Plus(x, y) \in Total /\ Plus(x, None) = x
         /\ Plus(x, y).m = x.m + y.m /\ Plus(x, y).wh = x.wh + y.wh
BY DEF Plus, Total, None

LEMMA SumsType ==
  ASSUME NEW g, NEW r \in Rings, Sums(g, r, Buckets)
  PROVE  \A i \in 0 .. Buckets : g[i] \in Total
<1> DEFINE T == {i \in Nat : i <= Buckets => g[i] \in Total}
<1>1. 0 \in T
  BY SumsStep DEF None, Total
<1>2. ASSUME NEW i \in Nat, i \in T
      PROVE  i + 1 \in T
  <2> SUFFICES ASSUME i + 1 <= Buckets
               PROVE  g[i + 1] \in Total
    OBVIOUS
  <2>1. i \in 0 .. Buckets - 1 /\ i <= Buckets
    BY TripAssumption
  <2>2. g[i + 1] = Plus(g[i], r[i])
    BY <2>1, SumsStep
  <2>3. g[i] \in Total /\ r[i] \in Total
    BY <1>2, <2>1 DEF Rings
  <2> QED  BY <2>2, <2>3, PlusType
<1>3. Nat \subseteq T
  <2> HIDE DEF T
  <2> QED  BY <1>1, <1>2, NatInd
<1> QED  BY <1>3, TripAssumption

LEMMA WindowType ==
  ASSUME NEW r \in Rings
  PROVE  Window(r) \in Total
<1>1. PICK g : Sums(g, r, Buckets) /\ Window(r) = g[Buckets]
  BY WindowSums
<1>2. Buckets \in 0 .. Buckets
  BY TripAssumption
<1> QED  BY <1>1, <1>2, SumsType

\* An empty ring adds up to nothing.
LEMMA WindowNone ==
  ASSUME NEW r, \A i \in 0 .. Buckets - 1 : r[i] = None
  PROVE  Window(r) = None
<1>1. PICK g : Sums(g, r, Buckets) /\ Window(r) = g[Buckets]
  BY WindowSums
<1> DEFINE T == {i \in Nat : i <= Buckets => g[i] = None}
<1>2. 0 \in T
  BY <1>1, SumsStep
<1>3. ASSUME NEW i \in Nat, i \in T
      PROVE  i + 1 \in T
  <2> SUFFICES ASSUME i + 1 <= Buckets
               PROVE  g[i + 1] = None
    OBVIOUS
  <2>1. i \in 0 .. Buckets - 1 /\ i <= Buckets
    BY TripAssumption
  <2>2. g[i + 1] = Plus(g[i], r[i]) /\ g[i] = None /\ r[i] = None
    BY <1>1, <1>3, <2>1, SumsStep
  <2>3. None \in Total
    BY DEF None, Total
  <2> QED  BY <2>2, <2>3, PlusType
<1>4. Nat \subseteq T
  <2> HIDE DEF T
  <2> QED  BY <1>2, <1>3, NatInd
<1> QED  BY <1>1, <1>4, TripAssumption

\* A bucket that comes into an empty place adds what it holds.
LEMMA WindowPut ==
  ASSUME NEW r \in Rings, NEW h \in 0 .. Buckets - 1, r[h] = None, NEW p \in Total
  PROVE  Window([r EXCEPT ![h] = p]) = Plus(Window(r), p)
<1> DEFINE q == [r EXCEPT ![h] = p]
<1>1. q \in Rings /\ q[h] = p /\ \A i \in 0 .. Buckets - 1 : i # h => q[i] = r[i]
  BY DEF Rings
<1> HIDE DEF q
<1>2. PICK g : Sums(g, r, Buckets) /\ Window(r) = g[Buckets]
  BY WindowSums
<1>3. PICK f : Sums(f, q, Buckets) /\ Window(q) = f[Buckets]
  BY WindowSums
<1>4. \A i \in 0 .. Buckets : g[i] \in Total
  BY <1>2, SumsType
<1>b. Buckets \in Nat \ {0}
  BY TripAssumption
<1> DEFINE T == {i \in Nat : i <= Buckets => f[i] = IF i <= h THEN g[i] ELSE Plus(g[i], p)}
<1>5. 0 \in T
  BY <1>2, <1>3, SumsStep
<1>6. ASSUME NEW i \in Nat, i \in T
      PROVE  i + 1 \in T
  <2> SUFFICES ASSUME i + 1 <= Buckets
               PROVE  f[i + 1] = IF i + 1 <= h THEN g[i + 1] ELSE Plus(g[i + 1], p)
    OBVIOUS
  <2>1. i \in 0 .. Buckets - 1 /\ i <= Buckets /\ i \in 0 .. Buckets /\ i + 1 \in 0 .. Buckets
    BY <1>b
  <2>2. g[i + 1] = Plus(g[i], r[i]) /\ f[i + 1] = Plus(f[i], q[i])
    BY <1>2, <1>3, <2>1, SumsStep
  <2>3. f[i] = IF i <= h THEN g[i] ELSE Plus(g[i], p)
    BY <1>6, <2>1
  <2>4. g[i] \in Total /\ r[i] \in Total /\ g[i + 1] \in Total
    BY <1>4, <2>1 DEF Rings
  <2>5. CASE i < h
    <3>1. i <= h /\ i + 1 <= h /\ i # h
      BY <2>5
    <3> QED  BY <1>1, <2>1, <2>2, <2>3, <3>1
  <2>6. CASE i = h
    <3>1. i <= h /\ ~(i + 1 <= h)
      BY <2>6
    <3>2. f[i + 1] = Plus(g[i], p) /\ g[i + 1] = g[i]
      BY <1>1, <2>2, <2>3, <2>4, <2>6, <3>1, PlusType
    <3> QED  BY <3>1, <3>2
  <2>7. CASE i > h
    <3>1. ~(i <= h) /\ ~(i + 1 <= h) /\ i # h
      BY <2>7
    <3>2. f[i + 1] = Plus(Plus(g[i], p), r[i])
      BY <1>1, <2>1, <2>2, <2>3, <3>1
    <3>3. Plus(Plus(g[i], p), r[i]) = Plus(Plus(g[i], r[i]), p)
      <4> DEFINE x == g[i]
                 y == r[i]
      <4>1. x \in Total /\ y \in Total
        BY <2>4
      <4> HIDE DEF x, y
      <4>2. Plus(Plus(x, p), y) = Plus(Plus(x, y), p)
        BY <4>1 DEF Plus, Total
      <4> QED  BY <4>2 DEF x, y
    <3> QED  BY <2>2, <3>1, <3>2, <3>3
  <2> QED  BY <2>5, <2>6, <2>7
<1>7. Nat \subseteq T
  <2> HIDE DEF T
  <2> QED  BY <1>5, <1>6, NatInd
<1>8. f[Buckets] = Plus(g[Buckets], p)
  <2>1. Buckets \in T /\ ~(Buckets <= h)
    BY <1>b, <1>7
  <2> QED  BY <2>1
<1> QED  BY <1>2, <1>3, <1>8 DEF q

\* Buckets that are all full make up a whole window.
LEMMA WindowFull ==
  ASSUME NEW r \in Rings, \A i \in 0 .. Buckets - 1 : r[i].m >= BucketM
  PROVE  Window(r).m >= WindowM
<1>1. PICK g : Sums(g, r, Buckets) /\ Window(r) = g[Buckets]
  BY WindowSums
<1>2. \A i \in 0 .. Buckets : g[i] \in Total
  BY <1>1, SumsType
<1>b. Buckets \in Nat \ {0} /\ BucketM \in Nat \ {0}
  BY TripAssumption
<1> DEFINE T == {i \in Nat : i <= Buckets => g[i].m >= i * BucketM}
<1>3. 0 \in T
  BY <1>1, <1>b, SumsStep DEF None
<1>4. ASSUME NEW i \in Nat, i \in T
      PROVE  i + 1 \in T
  <2> SUFFICES ASSUME i + 1 <= Buckets
               PROVE  g[i + 1].m >= (i + 1) * BucketM
    OBVIOUS
  <2>1. i \in 0 .. Buckets - 1 /\ i <= Buckets /\ i \in 0 .. Buckets
    BY <1>b
  <2>2. g[i + 1] = Plus(g[i], r[i]) /\ g[i] \in Total /\ r[i] \in Total
    BY <1>1, <1>2, <2>1, SumsStep DEF Rings
  <2>3. g[i + 1].m = g[i].m + r[i].m /\ g[i].m \in Int /\ r[i].m \in Int
    BY <2>2, PlusType DEF Total
  <2>4. (i + 1) * BucketM = i * BucketM + BucketM /\ i * BucketM \in Int
    BY <1>b
  <2>5. g[i].m >= i * BucketM /\ r[i].m >= BucketM
    BY <1>4, <2>1
  <2> QED
    <3> DEFINE x == i * BucketM
    <3> HIDE DEF x
    <3>1. x \in Int /\ g[i].m >= x /\ (i + 1) * BucketM = x + BucketM
      BY <2>4, <2>5 DEF x
    <3> QED  BY <1>b, <2>3, <2>5, <3>1
<1>5. Nat \subseteq T
  <2> HIDE DEF T
  <2> QED  BY <1>3, <1>4, NatInd
<1>6. g[Buckets].m >= Buckets * BucketM
  <2>1. Buckets \in T
    BY <1>b, <1>5
  <2> QED  BY <1>b, <2>1
<1> QED  BY <1>1, <1>6 DEF WindowM
-----------------------------------------------------------------------------
(***************************************************************************)
(* The window: the buckets that were closed are full, the others empty.    *)
(***************************************************************************)
RingInv ==
  /\ ring \in Rings /\ part \in Total /\ start \in Total
  /\ filled \in 0 .. Buckets /\ head \in 0 .. Buckets - 1
  /\ filled < Buckets => head = filled
  /\ \A i \in 0 .. Buckets - 1 : i < filled => ring[i].m >= BucketM
  /\ \A i \in 0 .. Buckets - 1 : i >= filled => ring[i] = None

\* The window that b holds is numbers.
Windowed(b) == Decode(b).winM \in Int /\ Decode(b).winWh \in Int

WinInv == RingInv /\ Windowed(blob) /\ Windowed(copy) /\ WindowAccount

LEMMA NoneTotal == None \in Total
BY DEF None, Total

LEMMA AbsentWindowed == Windowed(Absent)
<1>1. Absent.winM = 0 /\ Absent.winWh = 0
  BY DEF Absent
<1> QED  BY <1>1, DecodeAbsent DEF Windowed

LEMMA SavedWindowed == ASSUME NEW b \in Saved PROVE Windowed(b)
<1>1. b.version \in Nat /\ b.winM \in Nat /\ b.winWh \in Int
  BY TripAssumption
<1>2. CASE b.version \notin VersionMin .. Version
  <2>1. Decode(b) = Absent
    BY <1>2 DEF Decode
  <2>2. Absent.winM = 0 /\ Absent.winWh = 0
    BY DEF Absent
  <2> QED  BY <2>1, <2>2 DEF Windowed
<1>3. CASE b.version \in VersionMin .. Version
  <2>1. /\ Decode(b).winM = IF b.version >= 3 THEN b.winM ELSE 0
        /\ Decode(b).winWh = IF b.version >= 3 THEN b.winWh ELSE 0
    BY <1>3 DEF Decode
  <2> QED  BY <1>1, <2>1 DEF Windowed
<1> QED  BY <1>2, <1>3

\* A window's share of a bucket is a bucket's length.
LEMMA ShareFull ==
  ASSUME NEW n \in Int, NEW i \in 0 .. Buckets - 1
  PROVE  Share(n, i) \in Int /\ (n >= WindowM => Share(n, i) >= BucketM)
<1>b. Buckets \in Nat \ {0} /\ BucketM \in Nat \ {0}
  BY TripAssumption
<1> DEFINE q == n \div Buckets
           x == n % Buckets
<1>1. q \in Int /\ x \in 0 .. Buckets - 1 /\ n = Buckets * q + x
  BY <1>b
<1> HIDE DEF q, x
<1>2. Share(n, i) = q + (IF i < x THEN 1 ELSE 0)
  BY DEF Share, q, x
<1>3. ASSUME n >= Buckets * BucketM, q < BucketM
      PROVE  FALSE
  <2>1. Buckets * (q + 1) = Buckets * q + Buckets
    BY <1>b, <1>1
  <2>2. Buckets * (q + 1) <= Buckets * BucketM
    <3>1. q + 1 <= BucketM /\ q + 1 \in Int
      BY <1>b, <1>1, <1>3
    <3> QED  BY <1>b, <3>1
  <2> DEFINE u == Buckets * q
             v == Buckets * BucketM
             w == Buckets * (q + 1)
  <2>3. u \in Int /\ v \in Int /\ w \in Int
    BY <1>b, <1>1
  <2>4. w = u + Buckets /\ w <= v /\ n >= v /\ n = u + x
    BY <1>1, <1>3, <2>1, <2>2
  <2> HIDE DEF u, v, w
  <2> QED  BY <1>b, <1>1, <2>3, <2>4
<1>4. n >= WindowM => q >= BucketM
  BY <1>b, <1>1, <1>3 DEF WindowM
<1> QED  BY <1>1, <1>2, <1>4, <1>b

\* The ring of wf_est_init(): a whole window, or nothing.
LEMMA InitRing ==
  ASSUME NEW b, Windowed(b), WfEstInit(b), start' \in Total
  PROVE  RingInv' /\ (filled' < Buckets => Window(ring)' = None) /\ part' = None
<1> DEFINE r == Decode(b)
<1>b. Buckets \in Nat \ {0}
  BY TripAssumption
<1>1. /\ ring' = [i \in 0 .. Buckets - 1 |->
                    IF r.winM >= WindowM
                    THEN [m |-> Share(r.winM, i), wh |-> Share(r.winWh, i)] ELSE None]
      /\ head' = 0 /\ filled' = (IF r.winM >= WindowM THEN Buckets ELSE 0) /\ part' = None
  BY DEF WfEstInit
<1>2. r.winM \in Int /\ r.winWh \in Int
  BY DEF Windowed
<1> HIDE DEF r
<1>3. CASE r.winM >= WindowM
  <2>1. filled' = Buckets /\ \A i \in 0 .. Buckets - 1 :
                               ring'[i] = [m |-> Share(r.winM, i), wh |-> Share(r.winWh, i)]
    BY <1>1, <1>3
  <2>2. \A i \in 0 .. Buckets - 1 :
          /\ Share(r.winM, i) \in Int /\ Share(r.winWh, i) \in Int
          /\ Share(r.winM, i) >= BucketM
    BY <1>2, <1>3, ShareFull
  <2>3. \A i \in 0 .. Buckets - 1 : ring'[i] \in Total /\ ring'[i].m >= BucketM
    <3> SUFFICES ASSUME NEW i \in 0 .. Buckets - 1
                 PROVE  ring'[i] \in Total /\ ring'[i].m >= BucketM
      OBVIOUS
    <3> DEFINE x == Share(r.winM, i)
               y == Share(r.winWh, i)
    <3>1. ring'[i] = [m |-> x, wh |-> y]
      BY <2>1
    <3>2. x \in Int /\ y \in Int /\ x >= BucketM
      BY <2>2
    <3> HIDE DEF x, y
    <3> QED  BY <3>1, <3>2 DEF Total
  <2>4. ring' \in Rings
    <3>1. DOMAIN ring' = 0 .. Buckets - 1 /\ ring' = [i \in 0 .. Buckets - 1 |-> ring'[i]]
      BY <1>1
    <3> QED  BY <2>3, <3>1 DEF Rings
  <2>5. RingInv'
    BY <1>b, <1>1, <2>1, <2>3, <2>4, NoneTotal DEF RingInv
  <2> QED  BY <1>b, <1>1, <2>1, <2>5
<1>4. CASE ~(r.winM >= WindowM)
  <2>1. filled' = 0 /\ \A i \in 0 .. Buckets - 1 : ring'[i] = None
    BY <1>1, <1>4
  <2>2. ring' \in Rings
    <3>1. DOMAIN ring' = 0 .. Buckets - 1 /\ ring' = [i \in 0 .. Buckets - 1 |-> ring'[i]]
      BY <1>1
    <3> QED  BY <2>1, <3>1, NoneTotal DEF Rings
  <2>3. RingInv'
    BY <1>b, <1>1, <2>1, <2>2, NoneTotal DEF RingInv
  <2>4. Window(ring') = None
    BY <2>1, WindowNone
  <2> QED  BY <1>1, <2>3, <2>4
<1> QED  BY <1>3, <1>4

LEMMA WinUnchanged ==
  WinInv /\ UNCHANGED <<on, ring, head, filled, part, start, alltime, blob, copy>> => WinInv'
<1> SUFFICES ASSUME WinInv, UNCHANGED <<on, ring, head, filled, part, start, alltime, blob, copy>>
             PROVE  WinInv'
  OBVIOUS
<1>1. RingInv'
  BY DEF WinInv, RingInv
<1>2. Windowed(blob)' /\ Windowed(copy)'
  BY DEF WinInv, Windowed, Decode
<1>3. Window(ring') = Window(ring)
  OBVIOUS
<1>4. WindowAccount'
  BY <1>3 DEF WinInv, WindowAccount, Plus, Window
<1> QED  BY <1>1, <1>2, <1>4 DEF WinInv

LEMMA WinInit == Init => WinInv
<1> SUFFICES ASSUME Init
             PROVE  WinInv
  OBVIOUS
<1>1. /\ on = FALSE /\ ring = [i \in 0 .. Buckets - 1 |-> None] /\ head = 0 /\ filled = 0
      /\ part = None /\ start = None /\ blob \in Saved /\ copy = Absent
  BY DEF Init
<1>2. ~on
  BY <1>1
<1>3. RingInv
  BY <1>1, NoneTotal, TripAssumption DEF RingInv, Rings
<1> QED  BY <1>1, <1>2, <1>3, SavedWindowed, AbsentWindowed DEF WinInv, WindowAccount

\* x + p + s, taken apart for the account of the window.
LEMMA PlusMoves ==
  ASSUME NEW w \in Total, NEW p \in Total, NEW s \in Total, NEW d \in Total
  PROVE  /\ Plus(Plus(w, Plus(p, d)), s) = Plus(Plus(Plus(w, p), s), d)
         /\ Plus(Plus(Plus(w, p), None), s) = Plus(Plus(w, p), s)
         /\ Plus(Plus(None, None), s) = s
BY DEF Plus, Total, None

\* Ground or energy that comes into the bucket in progress, and into the totals.
LEMMA PartStep ==
  ASSUME WinInv, NEW d \in Total, part' = Plus(part, d), alltime' = Plus(alltime, d),
         UNCHANGED <<on, ring, head, filled, start, blob, copy>>
  PROVE  WinInv'
<1>1. RingInv'
  BY PlusType DEF WinInv, RingInv
<1>2. Windowed(blob)' /\ Windowed(copy)'
  BY DEF WinInv, Windowed, Decode
<1>3. ASSUME on', filled' < Buckets
      PROVE  Plus(Plus(Window(ring)', part'), start') = alltime'
  <2>1. Window(ring)' = Window(ring)
    BY DEF Window, Plus
  <2>2. Plus(Plus(Window(ring), part), start) = alltime
    BY <1>3 DEF WinInv, WindowAccount
  <2>3. Window(ring) \in Total /\ part \in Total /\ start \in Total
    BY WindowType DEF WinInv, RingInv
  <2>4. Plus(Plus(Window(ring), Plus(part, d)), start)
          = Plus(Plus(Plus(Window(ring), part), start), d)
    BY <2>3, PlusMoves
  <2> QED  BY <2>1, <2>2, <2>4
<1>4. WindowAccount'
  BY <1>3 DEF WindowAccount, Window, Plus
<1> QED  BY <1>1, <1>2, <1>4 DEF WinInv

\* A bucket is closed with the ground that filled it.
LEMMA BucketStep ==
  ASSUME WinInv, NEW d \in Total, Full(Plus(part, d)), CloseBucket(Plus(part, d)),
         alltime' = Plus(alltime, d), UNCHANGED <<on, start, blob, copy>>
  PROVE  WinInv'
<1> DEFINE p == Plus(part, d)
<1>b. Buckets \in Nat \ {0}
  BY TripAssumption
<1>1. p \in Total /\ p.m >= BucketM
  BY PlusType DEF WinInv, RingInv, Full
<1>2. /\ ring' = [ring EXCEPT ![head] = p] /\ head' = (head + 1) % Buckets
      /\ filled' = (IF filled < Buckets THEN filled + 1 ELSE filled) /\ part' = None
  BY DEF CloseBucket
<1> HIDE DEF p
<1>3. /\ ring \in Rings /\ start \in Total
      /\ filled \in 0 .. Buckets /\ head \in 0 .. Buckets - 1
      /\ filled < Buckets => head = filled
      /\ \A i \in 0 .. Buckets - 1 : i < filled => ring[i].m >= BucketM
      /\ \A i \in 0 .. Buckets - 1 : i >= filled => ring[i] = None
  BY DEF WinInv, RingInv
<1>4. ring' \in Rings /\ ring'[head] = p /\ \A i \in 0 .. Buckets - 1 : i # head => ring'[i] = ring[i]
  BY <1>1, <1>2, <1>3 DEF Rings
<1>5. head' \in 0 .. Buckets - 1 /\ head' = IF head = Buckets - 1 THEN 0 ELSE head + 1
  BY <1>b, <1>2, <1>3
<1>6. filled' \in 0 .. Buckets /\ (filled' < Buckets => head' = filled')
  BY <1>b, <1>2, <1>3, <1>5
<1>7. ASSUME NEW i \in 0 .. Buckets - 1, i < filled'
      PROVE  ring'[i].m >= BucketM
  BY <1>b, <1>1, <1>2, <1>3, <1>4, <1>7
<1>8. ASSUME NEW i \in 0 .. Buckets - 1, i >= filled'
      PROVE  ring'[i] = None
  BY <1>b, <1>2, <1>3, <1>4, <1>8
<1>9. RingInv'
  BY <1>2, <1>3, <1>4, <1>5, <1>6, <1>7, <1>8, NoneTotal DEF RingInv
<1>10. Windowed(blob)' /\ Windowed(copy)'
  BY DEF WinInv, Windowed, Decode
<1>11. ASSUME on', filled' < Buckets
       PROVE  Plus(Plus(Window(ring)', part'), start') = alltime'
  <2>1. filled < Buckets /\ ring[head] = None
    BY <1>b, <1>2, <1>3, <1>11
  <2>2. Window(ring') = Plus(Window(ring), p)
    BY <1>1, <1>2, <1>3, <2>1, WindowPut
  <2>3. Plus(Plus(Window(ring), part), start) = alltime
    BY <1>11, <2>1 DEF WinInv, WindowAccount
  <2>4. Window(ring) \in Total /\ part \in Total
    BY WindowType DEF WinInv, RingInv
  <2>5. Plus(Plus(Plus(Window(ring), p), None), start) = Plus(Plus(Window(ring), p), start)
    BY <1>1, <1>3, <2>4, PlusMoves
  <2>6. Plus(Plus(Window(ring), p), start) = Plus(Plus(Plus(Window(ring), part), start), d)
    BY <1>3, <2>4, PlusMoves DEF p
  <2>7. Window(ring)' = Window(ring')
    BY DEF Window, Plus
  <2> QED  BY <1>2, <2>2, <2>3, <2>5, <2>6, <2>7
<1>12. WindowAccount'
  BY <1>11 DEF WindowAccount, Window, Plus
<1> QED  BY <1>9, <1>10, <1>12 DEF WinInv

LEMMA WinMotion ==
  ASSUME Inv, WinInv, NEW v \in Speeds, NEW dt \in Gaps, MotionFrame(v, dt)
  PROVE  WinInv'
<1>1. UNCHANGED <<on, start, blob, copy>>
  BY DEF MotionFrame, nvsVars
<1>2. CASE "motion" \notin timed \/ dt = 0
  <2>1. UNCHANGED <<alltime, part, ring, head, filled>>
    BY <1>2 DEF MotionFrame
  <2> QED  BY <1>1, <2>1, WinUnchanged
<1>3. CASE ~("motion" \notin timed \/ dt = 0)
  <2> DEFINE s == Step(v, Capped(dt))
             d == [m |-> s, wh |-> 0]
  <2>1. Capped(dt) \in Nat
    BY TripAssumption DEF Capped
  <2>2. s \in Nat
    BY <2>1, StepNat DEF Inv
  <2>3. d \in Total
    <3> HIDE DEF s
    <3> QED  BY <2>2 DEF Total
  <2>4. alltime' = Plus(alltime, d)
    BY <1>3 DEF MotionFrame
  <2>5. \/ Full(Plus(part, d)) /\ CloseBucket(Plus(part, d))
        \/ part' = Plus(part, d) /\ UNCHANGED <<ring, head, filled>>
    BY <1>3 DEF MotionFrame
  <2> HIDE DEF d
  <2> QED  BY <1>1, <2>3, <2>4, <2>5, PartStep, BucketStep
<1> QED  BY <1>2, <1>3

LEMMA WinPower ==
  ASSUME Inv, WinInv, NEW w \in Powers, NEW dt \in Gaps, PowerFrame(w, dt)
  PROVE  WinInv'
<1> DEFINE d == IF "power" \notin timed THEN None ELSE [m |-> 0, wh |-> w * Capped(dt)]
<1>1. Capped(dt) \in Int /\ w \in Int
  BY TripAssumption DEF Capped
<1>2. w * Capped(dt) \in Int
  BY <1>1
<1>3. d \in Total
  BY <1>2, NoneTotal DEF Total
<1>4. alltime' = Plus(alltime, d) /\ part' = Plus(part, d)
  BY DEF PowerFrame
<1>5. UNCHANGED <<on, ring, head, filled, start, blob, copy>>
  BY DEF PowerFrame, nvsVars
<1> HIDE DEF d
<1> QED  BY <1>3, <1>4, <1>5, PartStep

\* What this build saves of the window is numbers.
LEMMA OwnWindow ==
  ASSUME WinInv
  PROVE  Windowed(WfEstSave)
<1> DEFINE b == WfEstSave
           w == IF filled >= Buckets THEN Window(ring) ELSE None
<1>1. w \in Total
  BY WindowType, NoneTotal DEF WinInv, RingInv
<1>2. b.version = Version /\ b.winM = w.m /\ b.winWh = w.wh
  BY DEF WfEstSave
<1>3. b.version \in VersionMin .. Version /\ b.version >= 3
  BY <1>2, TripAssumption DEF VersionMin
<1> HIDE DEF b, w
<1>4. Decode(b).winM = b.winM /\ Decode(b).winWh = b.winWh
  BY <1>3 DEF Decode
<1>5. Windowed(b)
  BY <1>1, <1>2, <1>4 DEF Windowed, Total
<1> QED  BY <1>5 DEF b

LEMMA WinStep == Inv /\ WinInv /\ [Next]_vars => WinInv'
<1> SUFFICES ASSUME Inv, WinInv, [Next]_vars
             PROVE  WinInv'
  OBVIOUS
<1>1. CASE Rolls \/ SetBack \/ OdoFrame \/ BmsAnswer \/ UNCHANGED vars
  <2>1. UNCHANGED <<on, ring, head, filled, part, start, alltime, blob, copy>>
    BY <1>1 DEF Rolls, SetBack, OdoFrame, BmsAnswer, vars, estVars, nvsVars
  <2> QED  BY <2>1, WinUnchanged
<1>2. CASE PowerCut
  <2>1. /\ on' = FALSE /\ copy' = Absent /\ start' = None /\ blob' = blob
        /\ WfEstInit(Absent)
    BY <1>2 DEF PowerCut
  <2>2. RingInv'
    BY <2>1, InitRing, AbsentWindowed, NoneTotal
  <2>3. Windowed(blob')
    BY <2>1 DEF WinInv
  <2>4. Windowed(copy')
    BY <2>1, AbsentWindowed
  <2>5. ~on'
    BY <2>1
  <2> QED  BY <2>2, <2>3, <2>4, <2>5 DEF WinInv, WindowAccount, Windowed, Decode
<1>3. CASE PowerOn
  <2>1. start' = alltime' /\ blob' = blob /\ copy' = copy /\ WfEstInit(blob)
    BY <1>3 DEF PowerOn, nvsVars
  <2>2. alltime' \in Total
    BY <2>1, InitLive DEF Inv, KeptInv, Total
  <2>3. RingInv' /\ (filled' < Buckets => Window(ring)' = None) /\ part' = None
    BY <2>1, <2>2, InitRing DEF WinInv
  <2>4. Windowed(blob') /\ Windowed(copy')
    BY <2>1 DEF WinInv
  <2>5. filled' < Buckets => Plus(Plus(Window(ring)', part'), start') = alltime'
    BY <2>1, <2>2, <2>3, PlusMoves, NoneTotal
  <2>6. WindowAccount'
    BY <2>5 DEF WindowAccount, Window, Plus
  <2> QED  BY <2>3, <2>4, <2>6 DEF WinInv, Windowed, Decode
<1>4. ASSUME NEW v \in Speeds, NEW dt \in Gaps, MotionFrame(v, dt) PROVE WinInv'
  BY <1>4, WinMotion
<1>5. ASSUME NEW w \in Powers, NEW dt \in Gaps, PowerFrame(w, dt) PROVE WinInv'
  BY <1>5, WinPower
<1>6. CASE EstPersist \/ EstStoreSave
  <2>1. UNCHANGED <<on, ring, head, filled, part, start, alltime>>
    BY <1>6 DEF EstPersist, EstStoreSave, estVars
  <2>2. copy' \in {copy, WfEstSave, Absent} /\ blob' \in {blob, copy}
    BY <1>6 DEF EstPersist, EstStoreSave
  <2>3. Windowed(blob') /\ Windowed(copy')
    BY <2>2, OwnWindow, AbsentWindowed DEF WinInv
  <2>4. RingInv'
    BY <2>1 DEF WinInv, RingInv
  <2>5. WindowAccount'
    BY <2>1 DEF WinInv, WindowAccount, Window, Plus
  <2> QED  BY <2>3, <2>4, <2>5 DEF WinInv, Windowed, Decode
<1> QED  BY <1>1, <1>2, <1>3, <1>4, <1>5, <1>6 DEF Next

LEMMA WinAlways == Spec => [](Inv /\ WinInv)
BY InitInv, StepInv, WinInit, WinStep, PTL DEF Spec

\* Whatever the size of the window and of its buckets: once the ring has turned, also
\* one that came back from flash, it adds up to at least the window's length, which
\* wf_est_get() divides by.
THEOREM WindowIsWhole == Spec => []WindowWhole
<1>1. WinInv => WindowWhole
  <2> SUFFICES ASSUME WinInv, filled >= Buckets
               PROVE  Window(ring).m >= WindowM
    BY DEF WindowWhole
  <2>1. ring \in Rings /\ \A i \in 0 .. Buckets - 1 : ring[i].m >= BucketM
    BY TripAssumption DEF WinInv, RingInv
  <2> QED  BY <2>1, WindowFull
<1> QED  BY <1>1, WinAlways, PTL

\* Until the ring first turns, it and the bucket in progress hold every metre and every
\* watt-hour since power-on, once.
THEOREM WindowAccounts == Spec => []WindowAccount
<1>1. WinInv => WindowAccount
  BY DEF WinInv
<1> QED  BY <1>1, WinAlways, PTL
-----------------------------------------------------------------------------
(***************************************************************************)
(* What is kept is what a capture's end left.                              *)
(***************************************************************************)
Zeros == [dist |-> 0, m |-> 0, wh |-> 0]

LatestInv ==
  /\ alltime.m >= 0 /\ Decode(blob).m >= 0 /\ Decode(copy).m >= 0
  /\ copy # Absent => TotalsOf(copy) = ended
  /\ KeptIsLatest

LEMMA AbsentZeros == TotalsOf(Decode(Absent)) = Zeros /\ Decode(Absent).m = 0
<1>1. Absent.dist = 0 /\ Absent.m = 0 /\ Absent.wh = 0
  BY DEF Absent
<1> QED  BY <1>1, DecodeAbsent DEF TotalsOf, Zeros

LEMMA SavedRoad == ASSUME NEW b \in Saved PROVE Decode(b).m >= 0
<1>1. b.m \in Nat
  BY TripAssumption
<1>2. CASE b.version \notin VersionMin .. Version
  <2>1. Decode(b) = Absent /\ Absent.m = 0
    BY <1>2 DEF Decode, Absent
  <2> QED  BY <2>1
<1>3. CASE b.version \in VersionMin .. Version
  <2>1. Decode(b).m = IF b.version >= 3 THEN b.m ELSE 0
    BY <1>3 DEF Decode
  <2> QED  BY <1>1, <2>1
<1> QED  BY <1>2, <1>3

LEMMA LatestInit == Init => LatestInv
<1> SUFFICES ASSUME Init
             PROVE  LatestInv
  OBVIOUS
<1>1. /\ alltime = None /\ blob \in Saved /\ copy = Absent
      /\ ended = TotalsOf(Decode(blob))
  BY DEF Init
<1>2. alltime.m = 0
  BY <1>1 DEF None
<1> QED  BY <1>1, <1>2, SavedRoad, AbsentZeros DEF LatestInv, KeptIsLatest

LEMMA LatestUnchanged ==
  ASSUME LatestInv, alltime'.m >= 0, UNCHANGED <<copy, blob, ended, failed>>
  PROVE  LatestInv'
<1>1. Decode(blob)' = Decode(blob) /\ Decode(copy)' = Decode(copy)
  BY DEF Decode
<1>2. TotalsOf(copy)' = TotalsOf(copy) /\ TotalsOf(Decode(blob))' = TotalsOf(Decode(blob))
  BY <1>1 DEF TotalsOf
<1>3. KeptIsLatest'
  BY <1>2, Zenon DEF LatestInv, KeptIsLatest
<1> QED  BY <1>1, <1>2, <1>3 DEF LatestInv

\* A state that is not worth a write has all its totals at 0.
LEMMA NotWorth ==
  ASSUME Inv, LatestInv, ~WorthAWrite(WfEstSave)
  PROVE  TotalsOf(WfEstSave) = Zeros
<1>1. WfEstSave.distValid = (known \/ odo.seen) /\ WfEstSave.m = alltime.m
      /\ WfEstSave.wh = alltime.wh /\ WfEstSave.dist = dist
  BY DEF WfEstSave
<1>2. ~WfEstSave.distValid
  BY Zenon DEF WorthAWrite
<1>3. ~known /\ ~odo.seen
  BY <1>1, <1>2, Zenon
<1>4. dist = 0
  BY <1>3 DEF Inv, LiveInv
<1>5. ~(WfEstSave.m > 0) /\ WfEstSave.wh = 0
  BY Zenon DEF WorthAWrite
<1>6. alltime.m \in Int /\ alltime.m >= 0
  BY DEF Inv, LiveInv, LatestInv
<1>7. alltime.m = 0
  BY <1>1, <1>5, <1>6
<1> QED  BY <1>1, <1>4, <1>5, <1>7 DEF TotalsOf, Zeros

LEMMA OwnRoad ==
  ASSUME Inv
  PROVE  Decode(WfEstSave).m = alltime.m
<1>1. TotalsOf(Decode(WfEstSave)) = TotalsOf(WfEstSave)
  BY OwnCopy DEF Inv, Faithful
<1>2. TotalsOf(Decode(WfEstSave)).m = Decode(WfEstSave).m
      /\ TotalsOf(WfEstSave).m = WfEstSave.m
  BY DEF TotalsOf
<1>3. WfEstSave.m = alltime.m
  BY DEF WfEstSave
<1> QED  BY <1>1, <1>2, <1>3

LEMMA LatestStep == Inv /\ LatestInv /\ [Next]_vars => LatestInv'
<1> SUFFICES ASSUME Inv, LatestInv, [Next]_vars
             PROVE  LatestInv'
  OBVIOUS
<1>1. CASE Rolls \/ SetBack \/ OdoFrame \/ BmsAnswer \/ UNCHANGED vars
  <2>1. UNCHANGED <<alltime, copy, blob, ended, failed>>
    BY <1>1 DEF Rolls, SetBack, OdoFrame, BmsAnswer, vars, estVars, nvsVars
  <2>2. alltime'.m >= 0
    BY <2>1 DEF LatestInv
  <2> QED  BY <2>1, <2>2, LatestUnchanged
<1>2. CASE PowerCut
  <2>1. /\ copy' = Absent /\ blob' = blob /\ ended' = ended /\ WfEstInit(Absent)
    BY <1>2 DEF PowerCut
  <2>2. ~failed' => ~failed /\ copy = Absent
    BY <1>2, Zenon DEF PowerCut
  <2>3. alltime'.m = 0
    BY <2>1, AbsentZeros DEF WfEstInit
  <2>4. Decode(blob') = Decode(blob)
    BY <2>1
  <2>5. KeptIsLatest'
    BY <2>1, <2>2, Zenon DEF LatestInv, KeptIsLatest, TotalsOf, Decode
  <2> QED  BY <2>1, <2>3, <2>4, <2>5, AbsentZeros DEF LatestInv, Decode
<1>3. CASE PowerOn
  <2>1. UNCHANGED <<copy, blob, ended, failed>> /\ WfEstInit(blob)
    BY <1>3 DEF PowerOn, nvsVars
  <2>2. alltime'.m = Decode(blob).m
    BY <2>1 DEF WfEstInit
  <2>3. alltime'.m >= 0
    BY <2>2 DEF LatestInv
  <2> QED  BY <2>1, <2>3, LatestUnchanged
<1>4. ASSUME NEW v \in Speeds, NEW dt \in Gaps, MotionFrame(v, dt) PROVE LatestInv'
  <2>1. UNCHANGED <<copy, blob, ended, failed>>
    BY <1>4 DEF MotionFrame, nvsVars
  <2>2. alltime.m \in Int /\ alltime.m >= 0
    BY DEF Inv, LiveInv, LatestInv
  <2>3. CASE UNCHANGED <<dist, known, alltime>>
    BY <2>1, <2>2, <2>3, LatestUnchanged
  <2>4. ASSUME NEW s \in Nat, Covers(v, s) PROVE LatestInv'
    <3>1. alltime' = [m |-> alltime.m + s, wh |-> alltime.wh]
      BY <2>4, Zenon DEF Covers
    <3>2. alltime'.m >= 0
      BY <2>2, <3>1
    <3> QED  BY <2>1, <3>2, LatestUnchanged
  <2> QED  BY <1>4, <2>3, <2>4, MotionStep DEF Inv
<1>5. ASSUME NEW w \in Powers, NEW dt \in Gaps, PowerFrame(w, dt) PROVE LatestInv'
  <2>1. alltime'.m = alltime.m /\ UNCHANGED <<copy, blob, ended, failed>>
    BY <1>5, PowerStep DEF Inv, nvsVars
  <2>2. alltime'.m >= 0
    BY <2>1 DEF LatestInv
  <2> QED  BY <2>1, <2>2, LatestUnchanged
<1>6. CASE EstPersist
  <2>1. /\ copy = Absent /\ ended' = TotalsOf(WfEstSave) /\ UNCHANGED <<alltime, blob>>
        /\ copy' = IF WorthAWrite(WfEstSave) THEN WfEstSave ELSE Absent
    BY <1>6 DEF EstPersist, estVars
  <2>2. Decode(blob') = Decode(blob) /\ alltime'.m >= 0 /\ Decode(blob).m >= 0
    BY <2>1 DEF LatestInv
  <2>3. CASE WorthAWrite(WfEstSave)
    <3>1. copy' = WfEstSave /\ WfEstSave # Absent
      BY <2>1, <2>3, OwnCopy DEF Inv
    <3>2. Decode(copy').m >= 0 /\ TotalsOf(copy') = ended'
      BY <2>1, <3>1, OwnRoad DEF LatestInv
    <3>3. KeptIsLatest'
      BY <3>1, Zenon DEF KeptIsLatest
    <3> QED  BY <2>1, <2>2, <3>2, <3>3 DEF LatestInv, Decode, TotalsOf
  <2>4. CASE ~WorthAWrite(WfEstSave)
    <3>1. copy' = Absent /\ ended' = Zeros
      BY <2>1, <2>4, NotWorth
    <3>2. KeptIsLatest'
      BY <3>1, Zenon DEF KeptIsLatest, Zeros
    <3>3. Decode(copy').m >= 0
      BY <3>1, AbsentZeros
    <3> QED  BY <2>2, <3>1, <3>2, <3>3 DEF LatestInv, Decode
  <2> QED  BY <2>3, <2>4
<1>7. CASE EstStoreSave
  <2>1. /\ copy # Absent /\ copy' = Absent /\ UNCHANGED <<alltime, ended>>
        /\ blob' \in {blob, copy}
    BY <1>7 DEF EstStoreSave, estVars
  <2>2. ~failed' => blob' = copy
    BY <1>7, Zenon DEF EstStoreSave
  <2>3. Decode(blob').m >= 0 /\ alltime'.m >= 0
    BY <2>1 DEF LatestInv
  <2>4. TotalsOf(Decode(copy)) = ended
    BY <2>1 DEF LatestInv, Inv, KeptInv, Faithful
  <2>5. Decode(copy').m >= 0
    BY <2>1, AbsentZeros
  <2>6. ~failed' => TotalsOf(Decode(blob')) = ended'
    BY <2>1, <2>2, <2>4
  <2>7. KeptIsLatest'
    BY <2>6, Zenon DEF KeptIsLatest, TotalsOf, Decode
  <2> QED  BY <2>1, <2>3, <2>5, <2>7 DEF LatestInv, Decode
<1> QED  BY <1>1, <1>2, <1>3, <1>4, <1>5, <1>6, <1>7 DEF Next

\* When the copy of a capture's end has been written, what the next start decodes is
\* that moment's totals, for every figure a build before this one may have left and
\* whatever was fed while the copy was on its way.
THEOREM LatestIsKept == Spec => []KeptIsLatest
<1>1. LatestInv => KeptIsLatest
  BY DEF LatestInv
<1> QED  BY <1>1, InitInv, StepInv, LatestInit, LatestStep, PTL DEF Spec
=============================================================================
