------------------------ MODULE CaptureStore_proofs ------------------------
(***************************************************************************)
(* Proofs about CaptureStore, for every number of producers, every size of *)
(* the ring and the buffers, every number of power cuts.                   *)
(***************************************************************************)
EXTENDS CaptureStore, FiniteSetTheorems, SequenceTheorems, TLAPS

-----------------------------------------------------------------------------
(***************************************************************************)
(* Sequences.                                                              *)
(***************************************************************************)

\* A record's cells are cells.
LEMMA CellsOfType == \A r \in Rec : CellsOf(r) \in Seq(Cell)
<1>1. ASSUME NEW r \in Rec, NEW k \in 1 .. r.len
      PROVE  [rec |-> r, k |-> k] \in Cell
  BY <1>1 DEF Cell, Rec
<1>2. ASSUME NEW r \in Rec
      PROVE  r.len \in Nat
  BY <1>2, StoreAssumption DEF Rec
<1> QED  BY <1>1, <1>2 DEF CellsOf

\* Files, and what is done to them, are of their type.
LEMMA FileType ==
  /\ Absent \in File /\ NewFile \in File
  /\ \A f \in File : Synced(f) \in File
<1>1. Absent \in File
  <2>1. <<>> \in Seq(Cell)
    OBVIOUS
  <2> QED  BY <2>1 DEF Absent, File, Stamps
<1>2. NewFile \in File
  BY <1>1 DEF NewFile, File
<1>3. ASSUME NEW f \in File
      PROVE  Synced(f) \in File
  <2>1. Len(f.cells) \in Nat
    BY DEF File
  <2> QED  BY <2>1 DEF Synced, File
<1> QED  BY <1>1, <1>2, <1>3

LEMMA WriteFileType ==
  ASSUME files \in [Seqs -> File], seq \in Seqs, NEW f \in File, WriteFile(f)
  PROVE  files' \in [Seqs -> File]
BY DEF WriteFile

-----------------------------------------------------------------------------
(***************************************************************************)
(* Induction over data.  A theorem that takes a predicate as a parameter   *)
(* cannot be instantiated by the provers at hand; the same principle about *)
(* a set can.  It rests on the well-foundedness of the finite sets.        *)
(***************************************************************************)

\* Every non-empty set of naturals has a least element.
LEMMA NatMin ==
  ASSUME NEW T, T \subseteq Nat, T # {}
  PROVE \E n \in T : \A m \in T : n <= m
<1> DEFINE U == {1 .. n : n \in T}
<1>1. IsWellFoundedOn(StrictSubsetOrdering(Nat), FiniteSubsetsOf(Nat))
  BY FS_StrictSubsetOrderingWellFounded
<1>2. \A n \in T : 1 .. n \in FiniteSubsetsOf(Nat)
  BY FS_Interval DEF FiniteSubsetsOf
<1>3. U \subseteq FiniteSubsetsOf(Nat) /\ U # {}
  BY <1>2
<1>4. PICK u \in U : \A v \in U : ~ (<<v, u>> \in StrictSubsetOrdering(Nat))
  <2> HIDE DEF U
  <2> QED BY <1>1, <1>3, WFMin
<1>5. PICK n \in T : u = 1 .. n
  BY <1>4
<1>6. ASSUME NEW m \in T, ~ (n <= m) PROVE FALSE
  <2>1. m \in Nat /\ n \in Nat /\ m < n
    BY <1>6
  <2>2. 1 .. m \in U /\ 1 .. m \in SUBSET Nat /\ 1 .. n \in SUBSET Nat
    OBVIOUS
  <2>3. 1 .. m \subseteq 1 .. n
    BY <2>1
  <2>4. n \in 1 .. n /\ n \notin 1 .. m
    BY <2>1
  <2>5. <<1 .. m, 1 .. n>> \in StrictSubsetOrdering(Nat)
    BY <2>2, <2>3, <2>4 DEF StrictSubsetOrdering
  <2> QED BY <2>2, <2>5, <1>4, <1>5
<1> QED BY <1>6

\* Induction over the naturals, on a set.
LEMMA NatInd ==
  ASSUME NEW T, 0 \in T, \A n \in Nat : n \in T => n + 1 \in T
  PROVE  Nat \subseteq T
<1>1. SUFFICES ASSUME Nat \ T # {} PROVE FALSE
  OBVIOUS
<1>2. PICK n \in Nat \ T : \A m \in Nat \ T : n <= m
  BY <1>1, NatMin
<1>3. n - 1 \in Nat /\ n-1 \in T
  BY <1>2
<1> QED BY <1>2, <1>3

-----------------------------------------------------------------------------
(***************************************************************************)
(* Queued(cells), the records a reader finds.                              *)
(***************************************************************************)

\* The prefixes' records, as a function that obeys the recursion.
Lists(g, s, n) ==
  g = [i \in 0 .. n |-> IF i = 0 THEN <<>> ELSE Listed(g[i - 1], s[i])]

LEMMA ListsExist == \A s \in Seq(Cell) : \E g : Lists(g, s, Len(s))
<1> SUFFICES ASSUME NEW s \in Seq(Cell)
             PROVE  \E g : Lists(g, s, Len(s))
  OBVIOUS
<1> DEFINE T == {n \in Nat : \E g : Lists(g, s, n)}
<1>1. 0 \in T
  <2>1. Lists([i \in 0 .. 0 |-> <<>>], s, 0)
    BY DEF Lists
  <2> QED  BY <2>1
<1>2. ASSUME NEW n \in Nat, n \in T
      PROVE  n + 1 \in T
  <2>1. PICK g : Lists(g, s, n)
    BY <1>2
  <2> DEFINE h == [i \in 0 .. n + 1 |-> IF i = n + 1 THEN Listed(g[n], s[n + 1]) ELSE g[i]]
  <2>2. \A i \in 0 .. n : h[i] = g[i] /\ g[i] = IF i = 0 THEN <<>> ELSE Listed(g[i - 1], s[i])
    BY <2>1 DEF Lists
  <2>3. h[n + 1] = Listed(g[n], s[n + 1])
    OBVIOUS
  <2>4. \A i \in 0 .. n + 1 : h[i] = IF i = 0 THEN <<>> ELSE Listed(h[i - 1], s[i])
    <3> SUFFICES ASSUME NEW i \in 0 .. n + 1
                 PROVE  h[i] = IF i = 0 THEN <<>> ELSE Listed(h[i - 1], s[i])
      OBVIOUS
    <3> HIDE DEF h
    <3>1. CASE i = n + 1
      BY <2>2, <2>3, <3>1
    <3>2. CASE i \in 1 .. n
      <4>1. i - 1 \in 0 .. n /\ i \in 0 .. n /\ i # 0
        BY <3>2
      <4> QED  BY <2>2, <4>1
    <3>3. CASE i = 0
      BY <2>2, <3>3
    <3> QED  BY <3>1, <3>2, <3>3
  <2>5. h = [i \in 0 .. n + 1 |-> h[i]]
    OBVIOUS
  <2>6. Lists(h, s, n + 1)
    <3> HIDE DEF h
    <3>1. [i \in 0 .. n + 1 |-> h[i]]
            = [i \in 0 .. n + 1 |-> IF i = 0 THEN <<>> ELSE Listed(h[i - 1], s[i])]
      BY <2>4
    <3> QED  BY <2>5, <3>1 DEF Lists
  <2> QED  BY <2>6
<1>3. Nat \subseteq T
  <2> HIDE DEF T
  <2> QED  BY <1>1, <1>2, NatInd
<1> QED  BY <1>3

LEMMA QueuedLists ==
  ASSUME NEW s \in Seq(Cell)
  PROVE  \E g : Lists(g, s, Len(s)) /\ Queued(s) = g[Len(s)]
<1> DEFINE g == CHOOSE g : Lists(g, s, Len(s))
<1>1. Lists(g, s, Len(s))
  BY ListsExist
<1>2. Queued(s) = g[Len(s)]
  BY DEF Queued, Lists
<1> QED  BY <1>1, <1>2

LEMMA QueuedEmpty == Queued(<<>>) = <<>>
<1>1. <<>> \in Seq(Cell) /\ Len(<<>>) = 0
  OBVIOUS
<1>2. PICK g : Lists(g, <<>>, 0) /\ Queued(<<>>) = g[0]
  BY <1>1, QueuedLists
<1> QED  BY <1>2 DEF Lists

LEMMA QueuedAppend ==
  ASSUME NEW s \in Seq(Cell), NEW c \in Cell
  PROVE  Queued(Append(s, c)) = Listed(Queued(s), c)
<1> DEFINE t == Append(s, c)
           n == Len(s)
<1>1. t \in Seq(Cell) /\ Len(t) = n + 1 /\ t[n + 1] = c /\ n \in Nat
      /\ \A i \in 1 .. n : t[i] = s[i]
  BY AppendProperties
<1>2. PICK g : Lists(g, s, n) /\ Queued(s) = g[n]
  BY QueuedLists
<1>3. PICK h : Lists(h, t, n + 1) /\ Queued(t) = h[n + 1]
  <2> HIDE DEF t, n
  <2> QED  BY <1>1, QueuedLists
<1> HIDE DEF t, n
<1> DEFINE T == {i \in Nat : i <= n => h[i] = g[i]}
<1>4. 0 \in T
  BY <1>1, <1>2, <1>3 DEF Lists
<1>5. ASSUME NEW i \in Nat, i \in T
      PROVE  i + 1 \in T
  <2> SUFFICES ASSUME i + 1 <= n
               PROVE  h[i + 1] = g[i + 1]
    OBVIOUS
  <2>1. h[i] = g[i]
    BY <1>1, <1>5
  <2>2. i + 1 \in 1 .. n /\ i + 1 # 0 /\ i + 1 \in 0 .. n /\ i + 1 \in 0 .. n + 1
        /\ (i + 1) - 1 = i
    BY <1>1
  <2>3. g[i + 1] = Listed(g[i], s[i + 1])
    BY <1>2, <2>2 DEF Lists
  <2>4. h[i + 1] = Listed(h[i], t[i + 1])
    BY <1>3, <2>2 DEF Lists
  <2> QED  BY <1>1, <2>1, <2>2, <2>3, <2>4
<1>6. Nat \subseteq T
  <2> HIDE DEF T
  <2> QED  BY <1>4, <1>5, NatInd
<1>7. h[n] = g[n]
  BY <1>1, <1>6
<1>8. h[n + 1] = Listed(h[n], t[n + 1])
  <2>1. n + 1 \in 0 .. n + 1 /\ n + 1 # 0 /\ (n + 1) - 1 = n
    BY <1>1
  <2> QED  BY <1>3, <2>1 DEF Lists
<1>9. Queued(t) = Listed(Queued(s), c)
  BY <1>1, <1>2, <1>3, <1>7, <1>8
<1> QED  BY <1>9 DEF t

\* Induction over the length of a sequence of cells, on a set of sequences.
LEMMA CellsInd ==
  ASSUME NEW T, <<>> \in T, \A s \in Seq(Cell), c \in Cell : s \in T => Append(s, c) \in T
  PROVE  Seq(Cell) \subseteq T
<1> DEFINE U == {n \in Nat : \A s \in Seq(Cell) : Len(s) = n => s \in T}
<1>1. 0 \in U
  <2>1. \A s \in Seq(Cell) : Len(s) = 0 => s = <<>>
    BY EmptySeq
  <2> QED  BY <2>1
<1>2. ASSUME NEW n \in Nat, n \in U
      PROVE  n + 1 \in U
  <2> SUFFICES ASSUME NEW s \in Seq(Cell), Len(s) = n + 1
               PROVE  s \in T
    OBVIOUS
  <2>1. s # <<>>
    OBVIOUS
  <2>2. PICK r \in Seq(Cell), c \in Cell : s = Append(r, c)
    BY <2>1, SequenceEmptyOrAppend
  <2>3. Len(s) = Len(r) + 1 /\ Len(r) \in Nat
    BY <2>2
  <2>4. Len(r) = n
    BY <2>3
  <2> QED  BY <1>2, <2>2, <2>4
<1>3. Nat \subseteq U
  <2> HIDE DEF U
  <2> QED  BY <1>1, <1>2, NatInd
<1> QED  BY <1>3

LEMMA ListedType ==
  ASSUME NEW q \in Seq(Rec), NEW c \in Cell
  PROVE  Listed(q, c) \in Seq(Rec)
<1>1. c.rec \in Rec
  BY DEF Cell
<1> QED  BY <1>1 DEF Listed

LEMMA QueuedType == \A s \in Seq(Cell) : Queued(s) \in Seq(Rec)
<1> DEFINE T == {s \in Seq(Cell) : Queued(s) \in Seq(Rec)}
<1>1. <<>> \in T
  <2>1. <<>> \in Seq(Cell) /\ <<>> \in Seq(Rec)
    OBVIOUS
  <2> QED  BY <2>1, QueuedEmpty
<1>2. ASSUME NEW s \in Seq(Cell), NEW c \in Cell, s \in T
      PROVE  Append(s, c) \in T
  BY <1>2, QueuedAppend, ListedType
<1>3. Seq(Cell) \subseteq T
  <2> HIDE DEF T
  <2> QED  BY <1>1, <1>2, CellsInd
<1> QED  BY <1>3

\* Records read from two stretches of cells laid end to end.
LEMMA QueuedConcat ==
  ASSUME NEW a \in Seq(Cell), NEW b \in Seq(Cell)
  PROVE  Queued(a \o b) = Queued(a) \o Queued(b)
<1> DEFINE T == {s \in Seq(Cell) : Queued(a \o s) = Queued(a) \o Queued(s)}
<1>1. <<>> \in T
  <2>1. a \o <<>> = a /\ Queued(a) \o <<>> = Queued(a)
    BY QueuedType, ConcatEmptySeq
  <2>2. <<>> \in Seq(Cell)
    OBVIOUS
  <2> QED  BY <2>1, <2>2, QueuedEmpty
<1>2. ASSUME NEW s \in Seq(Cell), NEW c \in Cell, s \in T
      PROVE  Append(s, c) \in T
  <2>1. a \o Append(s, c) = Append(a \o s, c) /\ a \o s \in Seq(Cell) /\ Append(s, c) \in Seq(Cell)
    OBVIOUS
  <2>2. Queued(a \o Append(s, c)) = Listed(Queued(a) \o Queued(s), c)
    BY <1>2, <2>1, QueuedAppend
  <2>3. Queued(a) \in Seq(Rec) /\ Queued(s) \in Seq(Rec) /\ c.rec \in Rec
    BY QueuedType DEF Cell
  <2>4. Listed(Queued(a) \o Queued(s), c) = Queued(a) \o Listed(Queued(s), c)
    <3> DEFINE qa == Queued(a)
               qs == Queued(s)
               r  == c.rec
    <3>0. qa \in Seq(Rec) /\ qs \in Seq(Rec) /\ r \in Rec
      BY <2>3
    <3> HIDE DEF qa, qs, r
    <3>1. Append(qa \o qs, r) = qa \o Append(qs, r)
      <4>1. Append(qa \o qs, r) = (qa \o qs) \o <<r>> /\ Append(qs, r) = qs \o <<r>>
        BY <3>0, AppendIsConcat, ConcatProperties
      <4>2. <<r>> \in Seq(Rec)
        BY <3>0
      <4>3. (qa \o qs) \o <<r>> = qa \o (qs \o <<r>>)
        BY <3>0, <4>2, ConcatAssociative
      <4> QED  BY <4>1, <4>3
    <3> USE DEF qa, qs, r
    <3> QED  BY <3>1 DEF Listed
  <2>5. Queued(Append(s, c)) = Listed(Queued(s), c)
    BY QueuedAppend
  <2> QED  BY <2>1, <2>2, <2>4, <2>5
<1>3. Seq(Cell) \subseteq T
  <2> HIDE DEF T
  <2> QED  BY <1>1, <1>2, CellsInd
<1> QED  BY <1>3

\* Cells that end no record of a producer list nothing.
Ends(c) == c.k = c.rec.len /\ c.rec.by # Writer

LEMMA QueuedNone ==
  ASSUME NEW s \in Seq(Cell), \A i \in 1 .. Len(s) : ~Ends(s[i])
  PROVE  Queued(s) = <<>>
<1> DEFINE T == {t \in Seq(Cell) : (\A i \in 1 .. Len(t) : ~Ends(t[i])) => Queued(t) = <<>>}
<1>1. <<>> \in T
  BY QueuedEmpty
<1>2. ASSUME NEW t \in Seq(Cell), NEW c \in Cell, t \in T
      PROVE  Append(t, c) \in T
  <2> SUFFICES ASSUME \A i \in 1 .. Len(Append(t, c)) : ~Ends(Append(t, c)[i])
               PROVE  Queued(Append(t, c)) = <<>>
    BY AppendProperties
  <2>0. /\ Len(Append(t, c)) = Len(t) + 1 /\ Len(t) \in Nat
        /\ \A i \in 1 .. Len(t) : Append(t, c)[i] = t[i]
        /\ Append(t, c)[Len(t) + 1] = c
    BY AppendProperties
  <2>1. \A i \in 1 .. Len(t) : ~Ends(t[i])
    BY <2>0
  <2>2. ~Ends(c)
    BY <2>0
  <2>3. Queued(t) = <<>>
    BY <1>2, <2>1
  <2> QED  BY <2>2, <2>3, QueuedAppend DEF Listed, Ends
<1>3. Seq(Cell) \subseteq T
  <2> HIDE DEF T
  <2> QED  BY <1>1, <1>2, CellsInd
<1> QED  BY <1>3

\* A whole record lists itself, when a producer wrote it.
LEMMA QueuedRecord ==
  ASSUME NEW r \in Rec, CellsOf(r) \in Seq(Cell)
  PROVE  Queued(CellsOf(r)) = IF r.by = Writer THEN <<>> ELSE <<r>>
<1>1. r.len \in Nat \ {0}
  BY StoreAssumption DEF Rec
<1>2. Len(CellsOf(r)) = r.len /\ \A k \in 1 .. r.len : CellsOf(r)[k] = [rec |-> r, k |-> k]
  BY <1>1 DEF CellsOf
<1>3. PICK s \in Seq(Cell), c \in Cell : CellsOf(r) = Append(s, c)
  <2>1. CellsOf(r) # <<>>
    BY <1>1, <1>2
  <2> QED  BY <2>1, SequenceEmptyOrAppend
<1>4. Len(s) = r.len - 1 /\ c = [rec |-> r, k |-> r.len]
      /\ \A k \in 1 .. Len(s) : s[k] = [rec |-> r, k |-> k]
  <2>0. /\ Len(Append(s, c)) = Len(s) + 1 /\ Len(s) \in Nat
        /\ \A i \in 1 .. Len(s) : Append(s, c)[i] = s[i]
        /\ Append(s, c)[Len(s) + 1] = c
    BY AppendProperties
  <2>1. Len(s) + 1 = r.len
    BY <1>2, <1>3, <2>0
  <2>2. c = CellsOf(r)[r.len]
    BY <1>3, <2>0, <2>1
  <2>3. \A k \in 1 .. Len(s) : s[k] = CellsOf(r)[k] /\ k \in 1 .. r.len
    BY <1>3, <2>0, <2>1
  <2> QED  BY <1>1, <1>2, <2>0, <2>1, <2>2, <2>3
<1>5. \A k \in 1 .. Len(s) : ~Ends(s[k])
  <2>0. \A k \in 1 .. Len(s) : k # r.len
    BY <1>1, <1>4
  <2>1. ASSUME NEW k \in 1 .. Len(s)
        PROVE  s[k].k = k /\ s[k].rec = r
    <3>1. s[k] = [rec |-> r, k |-> k]
      BY <1>4
    <3> QED  BY <3>1
  <2> QED  BY <2>0, <2>1 DEF Ends
<1>6. Queued(s) = <<>>
  BY <1>5, QueuedNone
<1>7. Queued(CellsOf(r)) = Listed(<<>>, c)
  BY <1>3, <1>6, QueuedAppend
<1> QED  BY <1>4, <1>7 DEF Listed

-----------------------------------------------------------------------------
(***************************************************************************)
(* Type correctness.                                                       *)
(***************************************************************************)

\* The writer pops at most DrainPasses times in one drain_pass().
TypeInv == TypeOK /\ (wpc = "write" => pass < DrainPasses)

LEMMA TypeInit == Init => TypeInv
<1> SUFFICES ASSUME Init
             PROVE  TypeInv
  OBVIOUS
<1>1. 1 \in Seqs /\ 0 \in 0 .. DrainPasses
  BY StoreAssumption DEF Seqs
<1>2. files \in [Seqs -> File]
  BY FileType DEF Init
<1>3. prec \in [Producers -> Rec]
  <2>1. \A l \in Lens : [by |-> Writer, t |-> 0, len |-> l, cap |-> 1] \in Rec
    BY <1>1 DEF Rec, Stamps
  <2> QED  BY <2>1 DEF Init
<1>4. ppc \in [Producers -> {"idle", "called", "active", "push", "pushed"}]
  BY DEF Init
<1>5. ring \in Seq(Cell) /\ wbuf \in Seq(Cell) /\ accepted \in Seq(Rec) /\ owed \in Seq(Rec)
  BY DEF Init
<1> QED  BY <1>1, <1>2, <1>3, <1>4, <1>5
         DEF Init, TypeInv, TypeOK, Stamps, ApiPcs, WriterPcs

LEMMA TypeStep == TypeInv /\ [Next]_vars => TypeInv'
<1> SUFFICES ASSUME TypeInv, [Next]_vars
             PROVE  TypeInv'
  OBVIOUS
<1> USE DEF TypeInv, TypeOK, storeVars, writerVars, ringVars, prodVars, histVars
<1>f. \A n \in Seqs : files[n] \in File
  OBVIOUS
<1>1. CASE BeginOpen
  <2>1. \A n \in 0 .. MaxSeq - 1 : n + 1 \in Seqs
    BY StoreAssumption DEF Seqs
  <2>2. files' \in [Seqs -> File] /\ seq' \in Seqs
    BY <1>1, <2>1, FileType DEF BeginOpen
  <2> QED  BY <1>1, <2>2 DEF BeginOpen, ApiPcs
<1>2. CASE BeginHeader
  <2>1. [files[seq] EXCEPT !.hdr = TRUE] \in File
    BY DEF File
  <2>2. files' \in [Seqs -> File]
    BY <1>2, <2>1, WriteFileType DEF BeginHeader
  <2>3. <<>> \in Seq(Cell) /\ <<>> \in Seq(Rec)
    OBVIOUS
  <2> QED  BY <1>2, <2>2, <2>3 DEF BeginHeader, ApiPcs, Stamps
<1>3. CASE BeginFail
  <2>1. files' \in [Seqs -> File]
    BY <1>3, FileType DEF BeginFail
  <2>2. <<>> \in Seq(Cell) /\ <<>> \in Seq(Rec)
    OBVIOUS
  <2>3. CASE api = "opened"
    <3>1. ring' \in Seq(Cell) /\ dropped' \in Nat
      BY <1>3, <2>2, <2>3 DEF BeginFail
    <3>2. accepted' \in Seq(Rec) /\ offered' \in Nat /\ owed' \in Seq(Rec)
      BY <1>3, <2>2, <2>3 DEF BeginFail
    <3> QED  BY <1>3, <2>1, <2>3, <3>1, <3>2 DEF BeginFail, ApiPcs, Stamps
  <2>4. CASE api # "opened"
    BY <1>3, <2>1, <2>4 DEF BeginFail, ApiPcs
  <2> QED  BY <2>3, <2>4
<1>4. CASE BeginLaunch
  <2>1. <<>> \in Seq(Cell) /\ 0 \in 0 .. DrainPasses
    BY StoreAssumption
  <2> QED  BY <1>4, <2>1 DEF BeginLaunch, ApiPcs, WriterPcs
<1>5. CASE BeginActivate
  BY <1>5 DEF BeginActivate, ApiPcs
<1>6. CASE SetAddrs
  <2>1. files' \in [Seqs -> File]
    BY <1>6, FileType, WriteFileType DEF SetAddrs
  <2> QED  BY <1>6, <2>1 DEF SetAddrs
<1>7. CASE EndCall
  BY <1>7 DEF EndCall, ApiPcs
<1>8. CASE EndRequest
  BY <1>8 DEF EndRequest, ApiPcs
<1>9. CASE EndJoin
  BY <1>9 DEF EndJoin, ApiPcs
<1>10. CASE EndClose
  <2>1. [Synced(files[seq]) EXCEPT !.dur = lastT, !.st = "closed"] \in File
    BY FileType DEF File
  <2>2. files' \in [Seqs -> File]
    BY <1>10, <2>1, WriteFileType DEF EndClose
  <2> QED  BY <1>10, <2>2 DEF EndClose, ApiPcs
<1>11. ASSUME NEW p \in Producers, ProducerStep(p)
       PROVE  TypeInv'
  <2>1. CASE Stamp(p)
    <3>1. \A l \in Lens : [by |-> p, t |-> clock + 1, len |-> l, cap |-> seq] \in Rec
      BY DEF Rec, Stamps
    <3>2. prec' \in [Producers -> Rec] /\ clock' \in Nat
      BY <2>1, <3>1 DEF Stamp
    <3>3. ppc' \in [Producers -> {"idle", "called", "active", "push", "pushed"}]
      BY <2>1 DEF Stamp
    <3> QED  BY <2>1, <3>2, <3>3 DEF Stamp
  <2>2. CASE CheckActive(p)
    <3>1. [prec[p] EXCEPT !.cap = seq] \in Rec
      BY DEF Rec
    <3>2. prec' \in [Producers -> Rec]
      BY <2>2, <3>1 DEF CheckActive
    <3>3. ppc' \in [Producers -> {"idle", "called", "active", "push", "pushed"}]
      BY <2>2 DEF CheckActive
    <3> QED  BY <2>2, <3>2, <3>3 DEF CheckActive
  <2>3. CASE CheckFull(p)
    <3>1. ppc' \in [Producers -> {"idle", "called", "active", "push", "pushed"}]
      BY <2>3 DEF CheckFull
    <3> QED  BY <2>3, <3>1 DEF CheckFull
  <2>4. CASE Push(p)
    <3>1. ring \o CellsOf(prec[p]) \in Seq(Cell)
      BY CellsOfType
    <3>2. Append(accepted, prec[p]) \in Seq(Rec)
      OBVIOUS
    <3>3. ppc' \in [Producers -> {"idle", "called", "active", "push", "pushed"}]
      BY <2>4 DEF Push
    <3>4. ring' \in Seq(Cell) /\ accepted' \in Seq(Rec)
      <4>1. CASE RingCells - Len(ring) >= prec[p].len
        BY <2>4, <3>1, <3>2, <4>1 DEF Push
      <4>2. CASE ~(RingCells - Len(ring) >= prec[p].len)
        BY <2>4, <4>2 DEF Push
      <4> QED  BY <4>1, <4>2
    <3>5. dropped' \in Nat
      BY <2>4 DEF Push
    <3> QED  BY <2>4, <3>3, <3>4, <3>5 DEF Push
  <2>5. CASE NoteT(p)
    <3>1. prec[p].t \in Stamps
      BY DEF Rec
    <3>2. ppc' \in [Producers -> {"idle", "called", "active", "push", "pushed"}]
      BY <2>5 DEF NoteT
    <3> QED  BY <2>5, <3>1, <3>2 DEF NoteT
  <2> QED  BY <1>11, <2>1, <2>2, <2>3, <2>4, <2>5 DEF ProducerStep
<1>12. CASE WriterPop
  <2>1. CASE pass < DrainPasses /\ ring # <<>>
    <3> DEFINE n == IF Len(ring) < DrainCells THEN Len(ring) ELSE DrainCells
    <3>1. n \in 0 .. Len(ring)
      BY StoreAssumption
    <3>2. SubSeq(ring, 1, n) \in Seq(Cell) /\ SubSeq(ring, n + 1, Len(ring)) \in Seq(Cell)
      BY <3>1
    <3>3. wbuf' \in Seq(Cell) /\ ring' \in Seq(Cell)
      BY <1>12, <2>1, <3>2 DEF WriterPop
    <3> QED  BY <1>12, <2>1, <3>3 DEF WriterPop, WriterPcs
  <2>2. CASE ~(pass < DrainPasses /\ ring # <<>>)
    <3>1. 0 \in 0 .. DrainPasses
      BY StoreAssumption
    <3> QED  BY <1>12, <2>2, <3>1 DEF WriterPop, WriterPcs
  <2> QED  BY <2>1, <2>2
<1>13. CASE WriterWrite
  <2>1. [files[seq] EXCEPT !.cells = @ \o wbuf] \in File
    <3>1. files[seq].cells \o wbuf \in Seq(Cell)
      BY DEF File
    <3> QED  BY <3>1 DEF File
  <2>2. files' \in [Seqs -> File]
    BY <1>13, <2>1, WriteFileType DEF WriterWrite
  <2>3. pass + 1 \in 0 .. DrainPasses
    BY <1>13, StoreAssumption DEF WriterWrite
  <2>4. <<>> \in Seq(Cell)
    OBVIOUS
  <2> QED  BY <1>13, <2>2, <2>3, <2>4 DEF WriterWrite, WriterPcs
<1>14. CASE WriterReadStop
  <2>1. 0 \in 0 .. DrainPasses
    BY StoreAssumption
  <2> QED  BY <1>14, <2>1 DEF WriterReadStop, Drain, WriterPcs
<1>15. CASE WriterSync
  <2>1. files' \in [Seqs -> File]
    BY <1>15, FileType, WriteFileType DEF WriterSync
  <2> QED  BY <1>15, <2>1 DEF WriterSync, WriterPcs
<1>16. CASE WriterNoSync \/ WriterSpaceLeft \/ WriterSpaceLow
  <2>1. 0 \in 0 .. DrainPasses
    BY StoreAssumption
  <2> QED  BY <1>16, <2>1 DEF WriterNoSync, WriterSpaceLeft, WriterSpaceLow, Drain, WriterPcs
<1>17. CASE WriterEvent
  <2>1. ASSUME NEW l \in Lens
        PROVE  [files[seq] EXCEPT !.cells =
                 @ \o CellsOf([by |-> Writer, t |-> clock + 1, len |-> l, cap |-> seq])] \in File
    <3>1. [by |-> Writer, t |-> clock + 1, len |-> l, cap |-> seq] \in Rec
      BY DEF Rec, Stamps
    <3>2. files[seq].cells \o CellsOf([by |-> Writer, t |-> clock + 1, len |-> l, cap |-> seq])
            \in Seq(Cell)
      BY <3>1, CellsOfType DEF File
    <3> QED  BY <3>2 DEF File
  <2>2. files' \in [Seqs -> File]
    BY <1>17, <2>1, WriteFileType DEF WriterEvent
  <2> QED  BY <1>17, <2>2 DEF WriterEvent, WriterPcs
<1>18. CASE WriterEventSync
  <2>1. files' \in [Seqs -> File]
    BY <1>18, FileType, WriteFileType DEF WriterEventSync
  <2>2. 0 \in 0 .. DrainPasses
    BY StoreAssumption
  <2> QED  BY <1>18, <2>1, <2>2 DEF WriterEventSync, Drain, WriterPcs
<1>19. CASE WriterExit
  BY <1>19 DEF WriterExit, WriterPcs
<1>20. CASE RemoveAny
  <2>1. files' \in [Seqs -> File]
    BY <1>20, FileType DEF RemoveAny, RemoveOne, RemoveAll, RemoveStep
  <2>2. rm' \in SUBSET Seqs
    BY <1>20 DEF RemoveAny, RemoveOne, RemoveAll, RemoveStep
  <2> QED  BY <1>20, <2>1, <2>2 DEF RemoveAny, RemoveOne, RemoveAll, RemoveStep
<1>21. CASE PowerCut
  <2>1. files' \in [Seqs -> File]
    <3>1. ASSUME NEW k \in files[seq].synced .. Len(files[seq].cells)
          PROVE  CutAt(files[seq], k) \in File
      <4>1. k \in 0 .. Len(files[seq].cells) /\ files[seq].cells \in Seq(Cell)
        BY DEF File
      <4>2. SubSeq(files[seq].cells, 1, k) \in Seq(Cell)
        BY <4>1
      <4> QED  BY <4>1, <4>2 DEF CutAt, File
    <3> QED  BY <1>21, <3>1, FileType DEF PowerCut
  <2>2. 1 \in Seqs /\ 0 \in 0 .. DrainPasses
    BY StoreAssumption DEF Seqs
  <2>3. <<>> \in Seq(Cell) /\ <<>> \in Seq(Rec)
    OBVIOUS
  <2>4. ppc' \in [Producers -> {"idle", "called", "active", "push", "pushed"}]
    BY <1>21 DEF PowerCut
  <2>5. fileOpen' \in BOOLEAN /\ seq' \in Seqs /\ active' \in BOOLEAN /\ stopReq' \in BOOLEAN
        /\ full' \in BOOLEAN /\ lastT' \in Stamps /\ doneSem' \in {0, 1} /\ api' \in ApiPcs
    BY <1>21, <2>2 DEF PowerCut, ApiPcs, Stamps
  <2>6. /\ wpc' \in WriterPcs /\ wret' \in {"flag", "decide", "event"} /\ wbuf' \in Seq(Cell)
        /\ pass' \in 0 .. DrainPasses /\ stopping' \in BOOLEAN /\ wpc' # "write"
    BY <1>21, <2>2, <2>3 DEF PowerCut, WriterPcs
  <2>7. ring' \in Seq(Cell) /\ dropped' \in Nat /\ prec' \in [Producers -> Rec] /\ clock' \in Nat
    BY <1>21, <2>3 DEF PowerCut
  <2>8. rm' \in SUBSET Seqs
    BY <1>21 DEF PowerCut
  <2>10. cuts' \in Nat
    BY <1>21 DEF PowerCut
  <2>11. offered' \in Nat
    BY <1>21 DEF PowerCut
  <2>9. accepted' \in Seq(Rec) /\ owed' \in Seq(Rec)
    BY <1>21, <2>3 DEF PowerCut
  <2> QED  BY <2>1, <2>4, <2>5, <2>6, <2>7, <2>8, <2>9, <2>10, <2>11
<1>22. CASE UNCHANGED vars
  BY <1>22 DEF vars
<1> QED
  BY <1>1, <1>2, <1>3, <1>4, <1>5, <1>6, <1>7, <1>8, <1>9, <1>10, <1>11, <1>12, <1>13,
     <1>14, <1>15, <1>16, <1>17, <1>18, <1>19, <1>20, <1>21, <1>22
  DEF Next, ApiStep, WriterStep

\* Every variable of the store keeps to its type in every reachable state.
THEOREM TypeCorrect == Spec => []TypeOK
<1>1. TypeInv => TypeOK
  BY DEF TypeInv
<1> QED  BY <1>1, TypeInit, TypeStep, PTL DEF Spec

-----------------------------------------------------------------------------
(***************************************************************************)
(* The hand-over of the file between the capture task and the writer task. *)
(*                                                                         *)
(* The file is open from fopen() to fclose(), the writer is there only     *)
(* from the task's creation to the give of s_done_sem, and a token in the  *)
(* semaphore is one the last writer left.  BeginLaunch needs the semaphore *)
(* empty, or store_end() could take a token the writer it joins has not    *)
(* given: that is the conjunct that makes the property inductive.          *)
(***************************************************************************)
HandOver ==
  /\ fileOpen <=> active \/ api # "idle"
  /\ active => api = "idle"
  /\ wpc # "none" => fileOpen /\ api \in {"idle", "launched", "ending", "joining"}
  /\ doneSem = 1 => wpc = "none"

LEMMA HandOverInit == Init => HandOver
BY DEF Init, HandOver

LEMMA HandOverStep == TypeInv /\ HandOver /\ [Next]_vars => HandOver'
<1> SUFFICES ASSUME TypeInv, HandOver, [Next]_vars
             PROVE  HandOver'
  OBVIOUS
<1>t. active \in BOOLEAN /\ fileOpen \in BOOLEAN /\ doneSem \in {0, 1} /\ api \in ApiPcs
      /\ wret # "none"
  BY DEF TypeInv, TypeOK
<1> USE DEF HandOver, storeVars, writerVars, ringVars, prodVars, histVars
<1>1. CASE ApiStep
  <2>1. CASE BeginOpen
    BY <1>t, <2>1 DEF BeginOpen
  <2>2. CASE BeginHeader
    BY <1>t, <2>2 DEF BeginHeader
  <2>3. CASE BeginFail
    BY <1>t, <2>3 DEF BeginFail
  <2>4. CASE BeginLaunch
    BY <1>t, <2>4 DEF BeginLaunch
  <2>5. CASE BeginActivate
    BY <1>t, <2>5 DEF BeginActivate
  <2>6. CASE EndCall
    BY <1>t, <2>6 DEF EndCall
  <2>7. CASE EndRequest
    BY <1>t, <2>7 DEF EndRequest
  <2>8. CASE EndJoin
    BY <1>t, <2>8 DEF EndJoin
  <2>9. CASE EndClose
    BY <1>t, <2>9 DEF EndClose
  <2>10. CASE SetAddrs
    BY <1>t, <2>10 DEF SetAddrs
  <2> QED  BY <1>1, <2>1, <2>2, <2>3, <2>4, <2>5, <2>6, <2>7, <2>8, <2>9, <2>10 DEF ApiStep
<1>2. CASE WriterStep
  <2>1. /\ UNCHANGED <<fileOpen, active, api>>
        /\ wpc # "none" \/ UNCHANGED wpc
        /\ UNCHANGED doneSem \/ wpc' = "none"
    BY <1>2 DEF WriterStep, WriterPop, WriterWrite, WriterReadStop, WriterSync, WriterNoSync,
                WriterSpaceLeft, WriterSpaceLow, WriterEvent, WriterEventSync, WriterExit
  <2>2. wpc # "none"
    BY <1>2 DEF WriterStep, WriterPop, WriterWrite, WriterReadStop, WriterSync, WriterNoSync,
                WriterSpaceLeft, WriterSpaceLow, WriterEvent, WriterEventSync, WriterExit
  <2> QED  BY <1>t, <2>1, <2>2
<1>3. CASE RemoveAny
  BY <1>3 DEF RemoveAny, RemoveOne, RemoveAll, RemoveStep
<1>4. CASE PowerCut
  BY <1>4 DEF PowerCut
<1>5. ASSUME NEW p \in Producers, ProducerStep(p)
      PROVE  HandOver'
  BY <1>5 DEF ProducerStep, Stamp, CheckActive, CheckFull, Push, NoteT
<1>6. CASE UNCHANGED vars
  BY <1>6 DEF vars
<1> QED  BY <1>1, <1>2, <1>3, <1>4, <1>5, <1>6 DEF Next

\* The writer task never runs without the file, whatever the interleaving of
\* store_begin(), store_end() and the writer: no use after fclose().
THEOREM WriterKeepsFile == Spec => []WriterHoldsFile
<1>1. HandOver => WriterHoldsFile
  BY DEF HandOver, WriterHoldsFile
<1> QED  BY <1>1, TypeInit, TypeStep, HandOverInit, HandOverStep, PTL DEF Spec

-----------------------------------------------------------------------------
(***************************************************************************)
(* What was closed stays as it is.                                         *)
(***************************************************************************)

\* While s_file is open it is the entry of the capture being written, unless that
\* was unlinked.
OpenEntry == fileOpen => files[seq].st \in {"open", "absent"}

LEMMA OpenEntryInit == Init => OpenEntry
BY DEF Init, OpenEntry

\* Every write goes to the open entry.
LEMMA WriteFileOpen ==
  ASSUME TypeInv, OpenEntry, fileOpen, NEW f \in File, f.st \in {"open", "closed"}, WriteFile(f)
  PROVE  /\ \A n \in Seqs : files[n].st \in {"closed", "cut"} => files'[n] = files[n]
         /\ files'[seq].st \in {f.st, "absent"}
BY DEF TypeInv, TypeOK, OpenEntry, WriteFile, Exists, File

\* What ClosedImmutable says of one step.
Kept == \A n \in Seqs : files[n].st \in {"closed", "cut"} => files'[n] \in {files[n], Absent}

LEMMA EntryStep == TypeInv /\ HandOver /\ OpenEntry /\ [Next]_vars => OpenEntry' /\ Kept
<1> SUFFICES ASSUME TypeInv, HandOver, OpenEntry, [Next]_vars
             PROVE  OpenEntry' /\ Kept
  OBVIOUS
<1> USE DEF storeVars, writerVars, ringVars, prodVars, histVars
<1>t. files \in [Seqs -> File] /\ seq \in Seqs /\ lastT \in Stamps /\ clock \in Nat
      /\ wbuf \in Seq(Cell) /\ files[seq] \in File
  BY DEF TypeInv, TypeOK
<1>u. UNCHANGED <<files, seq, fileOpen>> => OpenEntry' /\ Kept
  BY DEF OpenEntry, Kept
<1>w. ASSUME NEW f \in File, f.st = "open", WriteFile(f), UNCHANGED seq, fileOpen
      PROVE  OpenEntry' /\ Kept
  BY <1>t, <1>w, WriteFileOpen DEF OpenEntry, Kept
<1>o. fileOpen /\ Exists(seq) => files[seq].st = "open"
  BY DEF OpenEntry, Exists
<1>e. ASSUME fileOpen, ~Exists(seq), UNCHANGED <<seq, fileOpen>>, NEW f, WriteFile(f)
      PROVE  OpenEntry' /\ Kept
  BY <1>e DEF WriteFile, OpenEntry, Kept
<1>1. CASE BeginOpen
  <2>1. PICK n \in 0 .. MaxSeq - 1 : /\ IsMaxSeq(n)
                                     /\ files' = [files EXCEPT ![n + 1] = NewFile]
                                     /\ seq' = n + 1
    BY <1>1 DEF BeginOpen
  <2>2. n + 1 \in Seqs /\ files[n + 1].st = "absent"
    BY <2>1, StoreAssumption DEF IsMaxSeq, Exists, Seqs
  <2>3. files'[seq'].st = "open"
    BY <1>t, <2>1, <2>2, FileType DEF NewFile, Absent
  <2>4. Kept
    BY <1>t, <2>1, <2>2 DEF Kept
  <2> QED  BY <2>3, <2>4 DEF OpenEntry
<1>2. CASE BeginHeader
  <2>1. fileOpen
    BY <1>2 DEF BeginHeader, HandOver
  <2>2. CASE Exists(seq)
    <3>1. [files[seq] EXCEPT !.hdr = TRUE] \in File /\ [files[seq] EXCEPT !.hdr = TRUE].st = "open"
      BY <1>t, <1>o, <2>1, <2>2 DEF File
    <3> QED  BY <1>2, <1>w, <2>1, <3>1 DEF BeginHeader
  <2>3. CASE ~Exists(seq)
    BY <1>2, <1>e, <2>1, <2>3 DEF BeginHeader
  <2> QED  BY <2>2, <2>3
<1>3. CASE BeginFail
  BY <1>3, <1>t DEF BeginFail, OpenEntry, Kept
<1>4. CASE BeginLaunch \/ BeginActivate \/ EndCall \/ EndRequest \/ EndJoin
  BY <1>4, <1>u DEF BeginLaunch, BeginActivate, EndCall, EndRequest, EndJoin
<1>5. CASE SetAddrs \/ WriterSync \/ WriterEventSync
  <2>1. fileOpen /\ WriteFile(Synced(files[seq])) /\ UNCHANGED <<seq, fileOpen>>
    BY <1>5 DEF SetAddrs, WriterSync, WriterEventSync, HandOver
  <2>2. CASE Exists(seq)
    <3>1. Synced(files[seq]) \in File /\ Synced(files[seq]).st = "open"
      BY <1>t, <1>o, <2>1, <2>2, FileType DEF Synced, File
    <3> QED  BY <1>w, <2>1, <3>1
  <2> QED  BY <1>e, <2>1, <2>2
<1>6. CASE EndClose
  <2> DEFINE f == [Synced(files[seq]) EXCEPT !.dur = lastT, !.st = "closed"]
  <2>1. f \in File /\ f.st = "closed"
    BY <1>t, FileType DEF File
  <2>2. fileOpen /\ WriteFile(f) /\ fileOpen' = FALSE
    BY <1>6 DEF EndClose, HandOver
  <2> HIDE DEF f
  <2> QED  BY <2>1, <2>2, WriteFileOpen DEF OpenEntry, Kept
<1>7. CASE WriterWrite
  <2> DEFINE f == [files[seq] EXCEPT !.cells = @ \o wbuf]
  <2>1. fileOpen /\ WriteFile(f) /\ UNCHANGED <<seq, fileOpen>>
    BY <1>7 DEF WriterWrite, HandOver
  <2>2. CASE Exists(seq)
    <3>1. files[seq].cells \o wbuf \in Seq(Cell)
      BY <1>t DEF File
    <3>2. f \in File /\ f.st = "open"
      BY <1>t, <1>o, <2>1, <2>2, <3>1 DEF File
    <3> HIDE DEF f
    <3> QED  BY <1>w, <2>1, <3>2
  <2> HIDE DEF f
  <2> QED  BY <1>e, <2>1, <2>2
<1>8. CASE WriterEvent
  <2>1. PICK l \in Lens :
          WriteFile([files[seq] EXCEPT !.cells =
            @ \o CellsOf([by |-> Writer, t |-> clock + 1, len |-> l, cap |-> seq])])
    BY <1>8 DEF WriterEvent
  <2> DEFINE r == [by |-> Writer, t |-> clock + 1, len |-> l, cap |-> seq]
             f == [files[seq] EXCEPT !.cells = @ \o CellsOf(r)]
  <2>2. fileOpen /\ WriteFile(f) /\ UNCHANGED <<seq, fileOpen>>
    BY <1>8, <2>1 DEF WriterEvent, HandOver
  <2>3. CASE Exists(seq)
    <3>1. r \in Rec
      BY <1>t DEF Rec, Stamps
    <3>2. files[seq].cells \o CellsOf(r) \in Seq(Cell)
      <4> HIDE DEF r
      <4> QED  BY <1>t, <3>1, CellsOfType DEF File
    <3>3. f \in File /\ f.st = "open"
      <4> HIDE DEF r
      <4> QED  BY <1>t, <1>o, <2>2, <2>3, <3>2 DEF File
    <3> HIDE DEF f
    <3> QED  BY <1>w, <2>2, <3>3
  <2> HIDE DEF f
  <2> QED  BY <1>e, <2>2, <2>3
<1>9. CASE WriterPop \/ WriterReadStop \/ WriterNoSync \/ WriterSpaceLeft \/ WriterSpaceLow
           \/ WriterExit
  BY <1>9, <1>u DEF WriterPop, WriterReadStop, WriterNoSync, WriterSpaceLeft, WriterSpaceLow,
                    WriterExit
<1>10. CASE RemoveAny
  <2>1. UNCHANGED <<seq, fileOpen>> /\ \A n \in Seqs : files'[n] \in {files[n], Absent}
    BY <1>10, <1>t DEF RemoveAny, RemoveOne, RemoveAll, RemoveStep
  <2> QED  BY <1>t, <2>1 DEF OpenEntry, Kept, Absent
<1>11. CASE PowerCut
  <2>1. fileOpen' = FALSE
    BY <1>11 DEF PowerCut
  <2>2. Kept
    BY <1>11, <1>t, <1>o DEF PowerCut, Kept
  <2> QED  BY <2>1, <2>2 DEF OpenEntry
<1>12. ASSUME NEW p \in Producers, ProducerStep(p)
       PROVE  OpenEntry' /\ Kept
  BY <1>12, <1>u DEF ProducerStep, Stamp, CheckActive, CheckFull, Push, NoteT
<1>13. CASE UNCHANGED vars
  BY <1>13, <1>u DEF vars
<1> QED
  BY <1>1, <1>2, <1>3, <1>4, <1>5, <1>6, <1>7, <1>8, <1>9, <1>10, <1>11, <1>12, <1>13
  DEF Next, ApiStep, WriterStep

\* A capture that was closed, or that a power cut left, is never written again,
\* with captures removed at any time and producers late by any amount.
THEOREM ClosedStays == Spec => ClosedImmutable
<1>1. TypeInv /\ HandOver /\ OpenEntry /\ [Next]_vars => [Kept]_vars
  BY EntryStep
<1> QED
  BY <1>1, TypeInit, TypeStep, HandOverInit, HandOverStep, OpenEntryInit, EntryStep, PTL
  DEF Spec, ClosedImmutable, Kept

-----------------------------------------------------------------------------
(***************************************************************************)
(* A file holds its own capture's records, when producers are quiet before *)
(* store_end(): then whoever is past the check of s_active holds a record  *)
(* of the capture that is still open, and ring, buffer and file agree.     *)
(***************************************************************************)
Own(cells, n) == \A i \in DOMAIN cells : cells[i].rec.cap = n

LEMMA OwnConcat ==
  ASSUME NEW a \in Seq(Cell), NEW b \in Seq(Cell), NEW n, Own(a, n), Own(b, n)
  PROVE  Own(a \o b, n)
BY DEF Own

LEMMA OwnSubSeq ==
  ASSUME NEW a \in Seq(Cell), NEW n, Own(a, n), NEW i \in 1 .. Len(a) + 1, NEW j \in 0 .. Len(a)
  PROVE  Own(SubSeq(a, i, j), n)
BY DEF Own

LEMMA OwnCells == \A r \in Rec : Own(CellsOf(r), r.cap)
BY DEF Own, CellsOf

OwnInv ==
  /\ \A p \in Producers : ppc[p] \in {"active", "push"} => active /\ prec[p].cap = seq
  /\ fileOpen /\ api # "opened" => Own(ring, seq)
  /\ wpc # "none" => Own(wbuf, seq)
  /\ \A n \in Seqs : Own(files[n].cells, n)

LEMMA OwnInit == Init => OwnInv
<1> SUFFICES ASSUME Init
             PROVE  OwnInv
  OBVIOUS
<1>1. \A n \in Seqs : files[n].cells = <<>>
  BY DEF Init, Absent
<1>2. \A p \in Producers : ppc[p] = "idle"
  BY DEF Init
<1> QED  BY <1>1, <1>2 DEF Init, OwnInv, Own

LEMMA OwnStep ==
  ASSUME QuietEnd, TypeInv, HandOver, OwnInv, [Next]_vars
  PROVE  OwnInv'
<1> USE DEF OwnInv, storeVars, writerVars, ringVars, prodVars, histVars
<1>t. /\ files \in [Seqs -> File] /\ seq \in Seqs /\ files[seq] \in File
      /\ wbuf \in Seq(Cell) /\ ring \in Seq(Cell) /\ clock \in Nat
      /\ ppc \in [Producers -> {"idle", "called", "active", "push", "pushed"}]
      /\ prec \in [Producers -> Rec]
      /\ \A n \in Seqs : files[n].cells \in Seq(Cell)
  BY DEF TypeInv, TypeOK, File
<1>n. \A n : Own(<<>>, n)
  BY DEF Own
<1>f. ASSUME NEW f, WriteFile(f), Own(f.cells, seq)
      PROVE  \A n \in Seqs : Own(files'[n].cells, n)
  BY <1>t, <1>f DEF WriteFile
<1>1. CASE BeginOpen
  <2>1. ~active /\ ~fileOpen /\ wpc = "none"
    BY <1>1 DEF BeginOpen, HandOver
  <2>2. \A n \in Seqs : Own(files'[n].cells, n)
    BY <1>1, <1>t, <1>n DEF BeginOpen, NewFile, Absent
  <2> QED  BY <1>1, <2>1, <2>2 DEF BeginOpen
<1>2. CASE BeginHeader
  <2>1. ~active /\ wpc = "none"
    BY <1>2 DEF BeginHeader, HandOver
  <2>2. \A n \in Seqs : Own(files'[n].cells, n)
    BY <1>2, <1>t, <1>f DEF BeginHeader, File
  <2> QED  BY <1>2, <1>n, <2>1, <2>2 DEF BeginHeader
<1>3. CASE BeginFail
  <2>1. ~active /\ wpc = "none" /\ ~fileOpen'
    BY <1>3 DEF BeginFail, HandOver
  <2>2. \A n \in Seqs : Own(files'[n].cells, n)
    BY <1>3, <1>t, <1>n DEF BeginFail, Absent
  <2> QED  BY <1>3, <2>1, <2>2 DEF BeginFail
<1>4. CASE BeginLaunch
  BY <1>4, <1>n DEF BeginLaunch
<1>5. CASE BeginActivate
  BY <1>5 DEF BeginActivate
<1>6. CASE EndCall
  BY <1>6, QuietEnd DEF EndCall, InFlight
<1>7. CASE EndRequest \/ EndJoin
  BY <1>7 DEF EndRequest, EndJoin
<1>8. CASE EndClose
  <2>1. \A n \in Seqs : Own(files'[n].cells, n)
    <3>1. Own([Synced(files[seq]) EXCEPT !.dur = lastT, !.st = "closed"].cells, seq)
      BY <1>t DEF Synced, File
    <3> QED  BY <1>8, <1>f, <3>1 DEF EndClose
  <2> QED  BY <1>8, <2>1 DEF EndClose
<1>9. CASE SetAddrs \/ WriterSync \/ WriterEventSync
  <2>1. Own(Synced(files[seq]).cells, seq)
    BY <1>t DEF Synced, File
  <2>2. \A n \in Seqs : Own(files'[n].cells, n)
    BY <1>9, <1>f, <2>1 DEF SetAddrs, WriterSync, WriterEventSync
  <2>3. /\ UNCHANGED <<ppc, prec, active, seq, fileOpen, api, ring, wbuf>>
        /\ wpc = "none" => wpc' = "none"
    BY <1>9 DEF SetAddrs, WriterSync, WriterEventSync
  <2> QED  BY <2>2, <2>3
<1>10. CASE WriterPop
  <2>1. fileOpen /\ api # "opened" /\ wpc # "none"
    BY <1>10 DEF WriterPop, HandOver
  <2>2. CASE pass < DrainPasses /\ ring # <<>>
    <3> DEFINE n == IF Len(ring) < DrainCells THEN Len(ring) ELSE DrainCells
    <3>1. n \in 0 .. Len(ring) /\ n + 1 \in 1 .. Len(ring) + 1
      BY <1>t, StoreAssumption
    <3>2. Own(SubSeq(ring, 1, n), seq) /\ Own(SubSeq(ring, n + 1, Len(ring)), seq)
      <4> HIDE DEF n
      <4>1. 1 \in 1 .. Len(ring) + 1 /\ Len(ring) \in 0 .. Len(ring)
        BY <1>t
      <4> QED  BY <1>t, <2>1, <3>1, <4>1, OwnSubSeq
    <3>3. wbuf' = SubSeq(ring, 1, n) /\ ring' = SubSeq(ring, n + 1, Len(ring))
      BY <1>10, <2>2 DEF WriterPop
    <3> HIDE DEF n
    <3> QED  BY <1>10, <2>1, <3>2, <3>3 DEF WriterPop
  <2>3. CASE ~(pass < DrainPasses /\ ring # <<>>)
    BY <1>10, <2>1, <2>3 DEF WriterPop
  <2> QED  BY <2>2, <2>3
<1>11. CASE WriterWrite
  <2>1. Own([files[seq] EXCEPT !.cells = @ \o wbuf].cells, seq)
    <3>1. Own(files[seq].cells \o wbuf, seq)
      BY <1>11, <1>t, OwnConcat DEF WriterWrite
    <3> QED  BY <1>t, <3>1 DEF File
  <2>2. \A n \in Seqs : Own(files'[n].cells, n)
    BY <1>11, <1>f, <2>1 DEF WriterWrite
  <2> QED  BY <1>11, <1>n, <2>2 DEF WriterWrite
<1>12. CASE WriterEvent
  <2>1. PICK l \in Lens :
          WriteFile([files[seq] EXCEPT !.cells =
            @ \o CellsOf([by |-> Writer, t |-> clock + 1, len |-> l, cap |-> seq])])
    BY <1>12 DEF WriterEvent
  <2> DEFINE r == [by |-> Writer, t |-> clock + 1, len |-> l, cap |-> seq]
  <2>2. r \in Rec /\ r.cap = seq
    BY <1>t DEF Rec, Stamps
  <2> HIDE DEF r
  <2>3. Own(files[seq].cells \o CellsOf(r), seq)
    BY <1>t, <2>2, OwnConcat, OwnCells, CellsOfType
  <2>4. Own([files[seq] EXCEPT !.cells = @ \o CellsOf(r)].cells, seq)
    BY <1>t, <2>3 DEF File
  <2>5. \A n \in Seqs : Own(files'[n].cells, n)
    BY <1>f, <2>1, <2>4 DEF r
  <2> QED  BY <1>12, <2>5 DEF WriterEvent
<1>13. CASE WriterReadStop \/ WriterNoSync \/ WriterSpaceLeft \/ WriterSpaceLow \/ WriterExit
  <2>1. /\ UNCHANGED <<files, ppc, prec, active, seq, fileOpen, api, ring, wbuf>>
        /\ wpc # "none"
    BY <1>13 DEF WriterReadStop, WriterNoSync, WriterSpaceLeft, WriterSpaceLow, WriterExit
  <2> QED  BY <2>1
<1>14. CASE RemoveAny
  <2>1. \A n \in Seqs : files'[n] \in {files[n], Absent}
    BY <1>14, <1>t DEF RemoveAny, RemoveOne, RemoveAll, RemoveStep
  <2>2. \A n \in Seqs : Own(files'[n].cells, n)
    BY <1>n, <2>1 DEF Absent
  <2> QED  BY <1>14, <2>2 DEF RemoveAny, RemoveOne, RemoveAll, RemoveStep
<1>15. CASE PowerCut
  <2>1. \A n \in Seqs : Own(files'[n].cells, n)
    <3>1. ASSUME NEW k \in files[seq].synced .. Len(files[seq].cells)
          PROVE  Own(CutAt(files[seq], k).cells, seq)
      <4>1. k \in 0 .. Len(files[seq].cells) /\ 1 \in 1 .. Len(files[seq].cells) + 1
        BY <1>t DEF File
      <4> QED  BY <1>t, <4>1, OwnSubSeq DEF CutAt
    <3>2. files' \in {[files EXCEPT ![seq] = CutAt(files[seq], k)] :
                         k \in files[seq].synced .. Len(files[seq].cells)}
          \/ files' = [files EXCEPT ![seq] = Absent] \/ files' = files
      BY <1>15 DEF PowerCut
    <3> QED  BY <1>t, <1>n, <3>1, <3>2 DEF Absent
  <2>2. ~fileOpen' /\ wpc' = "none" /\ \A p \in Producers : ppc'[p] = "idle"
    BY <1>15 DEF PowerCut
  <2> QED  BY <2>1, <2>2
<1>16. ASSUME NEW p \in Producers, ProducerStep(p)
       PROVE  OwnInv'
  <2>1. CASE Stamp(p)
    BY <2>1, <1>t DEF Stamp
  <2>2. CASE CheckActive(p)
    BY <2>2, <1>t DEF CheckActive, Rec
  <2>3. CASE CheckFull(p)
    BY <2>3, <1>t DEF CheckFull
  <2>4. CASE Push(p)
    <3>1. active /\ prec[p].cap = seq /\ prec[p] \in Rec /\ Own(ring, seq)
      BY <2>4, <1>t DEF Push, HandOver
    <3>2. Own(ring \o CellsOf(prec[p]), seq)
      BY <1>t, <3>1, OwnConcat, OwnCells, CellsOfType
    <3>3. Own(ring', seq)
      BY <2>4, <3>1, <3>2 DEF Push
    <3> QED  BY <2>4, <1>t, <3>3 DEF Push
  <2>5. CASE NoteT(p)
    BY <2>5, <1>t DEF NoteT
  <2> QED  BY <1>16, <2>1, <2>2, <2>3, <2>4, <2>5 DEF ProducerStep
<1>17. CASE UNCHANGED vars
  BY <1>17 DEF vars
<1> QED
  BY <1>1, <1>2, <1>3, <1>4, <1>5, <1>6, <1>7, <1>8, <1>9, <1>10, <1>11, <1>12, <1>13,
     <1>14, <1>15, <1>16, <1>17
  DEF Next, ApiStep, WriterStep

\* No record of one capture is ever found in the file of another.
THEOREM OwnRecords == QuietEnd => (Spec => []NoForeign)
<1> SUFFICES ASSUME QuietEnd
             PROVE  Spec => []NoForeign
  OBVIOUS
<1>1. OwnInv => NoForeign
  BY DEF OwnInv, Own, NoForeign
<1>2. TypeInv /\ HandOver /\ OwnInv /\ [Next]_vars => OwnInv'
  BY OwnStep
<1> QED
  BY <1>1, <1>2, TypeInit, TypeStep, HandOverInit, HandOverStep, OwnInit, PTL DEF Spec

-----------------------------------------------------------------------------
(***************************************************************************)
(* No record is lost without being counted.                                *)
(***************************************************************************)
LEMMA UndecidedFinite == IsFiniteSet(Undecided)
BY StoreAssumption, FS_Subset DEF Undecided

LEMMA AccountedInit == Init => Accounted
BY DEF Init, Accounted

\* A step that leaves the counters, the accepted records and the undecided
\* producers as they are, or ends the capture.
LEMMA AccountedKept ==
  ASSUME Accounted, UNCHANGED <<offered, accepted, dropped, Undecided>>,
         fileOpen' /\ api' # "opened" => fileOpen /\ api # "opened"
  PROVE  Accounted'
BY DEF Accounted

LEMMA AccountedStep ==
  ASSUME QuietEnd, TypeInv, HandOver, OwnInv, Accounted, [Next]_vars
  PROVE  Accounted'
<1> USE DEF storeVars, writerVars, ringVars, prodVars, histVars
<1>t. /\ ppc \in [Producers -> {"idle", "called", "active", "push", "pushed"}]
      /\ offered \in Nat /\ dropped \in Nat /\ accepted \in Seq(Rec)
      /\ prec \in [Producers -> Rec]
  BY DEF TypeInv, TypeOK
<1>c. Cardinality(Undecided) \in Nat
  BY UndecidedFinite, FS_CardinalityType
<1>e. ~active => Undecided = {}
  BY DEF OwnInv, Undecided
<1>1. CASE BeginOpen \/ PowerCut
  BY <1>1 DEF BeginOpen, PowerCut, Accounted
<1>2. CASE BeginHeader
  <2>1. Undecided' = {}
    BY <1>2, <1>e DEF BeginHeader, HandOver, Undecided
  <2>2. Cardinality(Undecided') = 0
    BY <2>1, FS_EmptySet
  <2> QED  BY <1>2, <2>2 DEF BeginHeader, Accounted
<1>3. CASE BeginFail
  BY <1>3 DEF BeginFail, Accounted
<1>4. CASE BeginLaunch \/ BeginActivate \/ SetAddrs \/ EndCall \/ EndRequest \/ EndJoin \/ EndClose
  <2>1. /\ UNCHANGED <<offered, accepted, dropped, Undecided>>
        /\ fileOpen' => fileOpen
        /\ api # "opened"
    BY <1>4 DEF BeginLaunch, BeginActivate, SetAddrs, EndCall, EndRequest, EndJoin, EndClose, Undecided
  <2> QED  BY <2>1, AccountedKept
<1>5. CASE WriterStep \/ RemoveAny
  <2>1. UNCHANGED <<offered, accepted, dropped, Undecided, fileOpen, api>>
    BY <1>5 DEF WriterStep, WriterPop, WriterWrite, WriterReadStop, WriterSync, WriterNoSync,
                WriterSpaceLeft, WriterSpaceLow, WriterEvent, WriterEventSync, WriterExit,
                RemoveAny, RemoveOne, RemoveAll, RemoveStep, Undecided
  <2> QED  BY <2>1, AccountedKept
<1>6. ASSUME NEW p \in Producers, ProducerStep(p)
      PROVE  Accounted'
  <2>0. UNCHANGED <<fileOpen, api>>
    BY <1>6 DEF ProducerStep, Stamp, CheckActive, CheckFull, Push, NoteT
  \* From the lines above: p joins, or leaves, those undecided.
  <2>j. ASSUME p \notin Undecided, Undecided' = Undecided \cup {p}
        PROVE  Cardinality(Undecided') = Cardinality(Undecided) + 1
    BY <2>j, UndecidedFinite, FS_AddElement
  <2>l. ASSUME p \in Undecided, Undecided' = Undecided \ {p}
        PROVE  Cardinality(Undecided') = Cardinality(Undecided) - 1
    BY <2>l, UndecidedFinite, FS_RemoveElement
  <2>1. CASE Stamp(p) \/ NoteT(p)
    <3>1. UNCHANGED <<offered, accepted, dropped, Undecided>>
      BY <2>1, <1>t DEF Stamp, NoteT, Undecided
    <3> QED  BY <2>0, <3>1, AccountedKept
  <2>2. CASE CheckActive(p) /\ active
    <3>1. p \notin Undecided /\ Undecided' = Undecided \cup {p}
      BY <2>2, <1>t DEF CheckActive, Undecided
    <3>2. offered' = offered + 1 /\ UNCHANGED <<accepted, dropped>>
      BY <2>2 DEF CheckActive
    <3> QED  BY <1>t, <1>c, <2>0, <2>j, <3>1, <3>2 DEF Accounted
  <2>3. CASE CheckActive(p) /\ ~active
    <3>1. UNCHANGED <<offered, accepted, dropped, Undecided>>
      BY <2>3, <1>t DEF CheckActive, Undecided
    <3> QED  BY <2>0, <3>1, AccountedKept
  <2>4. CASE CheckFull(p) /\ full
    <3>1. p \in Undecided /\ Undecided' = Undecided \ {p}
      BY <2>4, <1>t DEF CheckFull, Undecided
    <3>2. dropped' = dropped + 1 /\ UNCHANGED <<accepted, offered>>
      BY <2>4 DEF CheckFull
    <3> QED  BY <1>t, <1>c, <2>0, <2>l, <3>1, <3>2 DEF Accounted
  <2>5. CASE CheckFull(p) /\ ~full
    <3>1. UNCHANGED <<offered, accepted, dropped, Undecided>>
      BY <2>5, <1>t DEF CheckFull, Undecided
    <3> QED  BY <2>0, <3>1, AccountedKept
  <2>6. CASE Push(p)
    <3>1. p \in Undecided /\ Undecided' = Undecided \ {p}
      BY <2>6, <1>t DEF Push, Undecided
    <3>2. \/ accepted' = Append(accepted, prec[p]) /\ dropped' = dropped
          \/ accepted' = accepted /\ dropped' = dropped + 1
      BY <2>6 DEF Push
    <3>3. offered' = offered /\ Len(accepted') + dropped' = Len(accepted) + dropped + 1
      <4>1. Len(Append(accepted, prec[p])) = Len(accepted) + 1
        BY <1>t
      <4> QED  BY <2>6, <1>t, <3>2, <4>1 DEF Push
    <3>4. Len(accepted) \in Nat /\ Len(accepted') \in Nat /\ dropped' \in Nat
      BY <1>t, <3>2
    <3> QED  BY <1>t, <1>c, <2>0, <2>l, <3>1, <3>3, <3>4 DEF Accounted
  <2> QED  BY <1>6, <2>1, <2>2, <2>3, <2>4, <2>5, <2>6 DEF ProducerStep
<1>7. CASE UNCHANGED vars
  <2>1. UNCHANGED <<offered, accepted, dropped, Undecided, fileOpen, api>>
    BY <1>7 DEF vars, Undecided
  <2> QED  BY <2>1, AccountedKept
<1> QED  BY <1>1, <1>2, <1>3, <1>4, <1>5, <1>6, <1>7 DEF Next, ApiStep

\* Every store_write() of a capture was accepted, or counted in s_dropped, or is
\* yet to be decided: whatever the sizes and the number of producers.
THEOREM DropsCounted == QuietEnd => (Spec => []Accounted)
<1> SUFFICES ASSUME QuietEnd
             PROVE  Spec => []Accounted
  OBVIOUS
<1>1. TypeInv /\ HandOver /\ OwnInv /\ [Next]_vars => OwnInv'
  BY OwnStep
<1>2. TypeInv /\ HandOver /\ OwnInv /\ Accounted /\ [Next]_vars => Accounted'
  BY AccountedStep
<1> QED
  BY <1>1, <1>2, TypeInit, TypeStep, HandOverInit, HandOverStep, OwnInit, AccountedInit, PTL
  DEF Spec

-----------------------------------------------------------------------------
(***************************************************************************)
(* What a power cut may take.                                              *)
(*                                                                         *)
(* CutLossBounded alone is not inductive: how much a drain may still add   *)
(* depends on the pass it is in and on where it returns to.  LossInv bounds *)
(* the unsynced cells at each place of the writer's loop.                  *)
(***************************************************************************)

\* What is not on the flash when drain_pass() starts.
Before ==
  CASE wret = "flag"   -> SyncCells - 1
    [] wret = "decide" -> SyncCells - 1 + DrainPasses * DrainCells
    [] wret = "event"  -> 0

AllDrained == SyncCells - 1 + 2 * (DrainPasses * DrainCells)

LossInv ==
  /\ fileOpen /\ ~Exists(seq) => Unsynced = 0
  /\ fileOpen /\ wpc = "none" => Unsynced = 0
  /\ wpc \in {"space", "exit"} => Unsynced = 0
  /\ wpc = "pop"   => Unsynced <= Before + pass * DrainCells
  /\ wpc = "write" => /\ Len(wbuf) <= DrainCells
                      /\ Unsynced + Len(wbuf) <= Before + (pass + 1) * DrainCells
  /\ wpc = "flag"  => Unsynced <= SyncCells - 1 + DrainPasses * DrainCells
  /\ wpc = "event" => Unsynced <= DrainPasses * DrainCells
  /\ wpc \in {"decide", "eventsync"} => Unsynced <= AllDrained

\* Products, for the provers: passes add up, and more passes drain more.
LEMMA Drains ==
  /\ DrainPasses * DrainCells \in Nat
  /\ \A k \in Nat : k * DrainCells \in Nat /\ (k + 1) * DrainCells = k * DrainCells + DrainCells
  /\ \A k \in 0 .. DrainPasses : k * DrainCells <= DrainPasses * DrainCells
<1>1. DrainCells \in Nat /\ DrainPasses \in Nat
  BY StoreAssumption
<1>2. \A k, d \in Nat : k * d \in Nat /\ (k + 1) * d = k * d + d
  OBVIOUS
<1>3. \A k, n, d \in Nat : k <= n => k * d <= n * d
  OBVIOUS
<1> QED  BY <1>1, <1>2, <1>3

\* A record fits into what one drain_pass() can move.
LEMMA RecordDrained == \A l \in Lens : l \in Nat /\ l <= DrainPasses * DrainCells
<1> SUFFICES ASSUME NEW l \in Lens
             PROVE  l \in Nat /\ l <= DrainPasses * DrainCells
  OBVIOUS
<1>1. l \in Nat /\ RingCells \in Nat
  BY StoreAssumption
<1>2. Cardinality(Producers) \in Nat /\ Cardinality(Producers) # 0
  BY StoreAssumption, FS_CardinalityType, FS_EmptySet
<1>3. \A c \in Nat \ {0} : l <= c * l
  BY <1>1
<1>4. l <= Cardinality(Producers) * l /\ Cardinality(Producers) * l \in Nat
  BY <1>1, <1>2, <1>3
<1>5. DrainPasses * DrainCells >= RingCells + Cardinality(Producers) * l
  <2>1. 0 \in 0 .. Cardinality(Producers)
    BY <1>2
  <2>2. DrainPasses * DrainCells
          >= RingCells + Cardinality(Producers) * l + 0 * (DrainCells - 1)
    BY <2>1, DrainAssumption
  <2>3. 0 * (DrainCells - 1) = 0
    BY StoreAssumption
  <2> QED  BY <1>1, <1>4, <2>2, <2>3
<1> QED  BY <1>1, <1>4, <1>5, Drains

\* fflush() and fsync() leave nothing to lose, in a file or in one that was unlinked.
LEMMA SyncLoses ==
  ASSUME TypeOK, ~Exists(seq) => Unsynced = 0, WriteFile(Synced(files[seq])), seq' = seq
  PROVE  Unsynced' = 0 /\ Exists(seq)' = Exists(seq)
<1>1. files[seq] \in File /\ seq \in Seqs
  BY DEF TypeOK
<1>2. CASE Exists(seq)
  <2>1. files' = [files EXCEPT ![seq] = Synced(files[seq])]
    BY <1>2 DEF WriteFile
  <2>2. files'[seq] = Synced(files[seq])
    BY <1>1, <2>1 DEF TypeOK
  <2>3. files'[seq].synced = Len(files[seq].cells) /\ files'[seq].cells = files[seq].cells
        /\ files'[seq].st = files[seq].st
    BY <1>1, <2>2 DEF Synced, File
  <2>4. Len(files[seq].cells) \in Nat
    BY <1>1 DEF File
  <2> QED  BY <2>3, <2>4 DEF Unsynced, Exists
<1>3. CASE ~Exists(seq)
  <2>1. files' = files
    BY <1>3 DEF WriteFile
  <2> QED  BY <1>3, <2>1 DEF Unsynced, Exists
<1> QED  BY <1>2, <1>3

\* What is written is at risk.
LEMMA WriteLoses ==
  ASSUME TypeOK, ~Exists(seq) => Unsynced = 0, NEW c \in Seq(Cell),
         WriteFile([files[seq] EXCEPT !.cells = @ \o c]), seq' = seq
  PROVE  /\ Unsynced' <= Unsynced + Len(c)
         /\ (~Exists(seq))' => Unsynced' = 0
<1>1. files[seq] \in File /\ seq \in Seqs
  BY DEF TypeOK
<1>2. Unsynced \in Int /\ Len(c) \in Nat
  BY <1>1 DEF Unsynced, File
<1>3. CASE Exists(seq)
  <2>1. files' = [files EXCEPT ![seq] = [files[seq] EXCEPT !.cells = @ \o c]]
    BY <1>3 DEF WriteFile
  <2>2. files'[seq] = [files[seq] EXCEPT !.cells = @ \o c]
    BY <1>1, <2>1 DEF TypeOK
  <2>3. files'[seq].synced = files[seq].synced /\ files'[seq].cells = files[seq].cells \o c
        /\ files'[seq].st = files[seq].st
    BY <1>1, <2>2 DEF File
  <2>4. Len(files[seq].cells \o c) = Len(files[seq].cells) + Len(c)
    BY <1>1 DEF File
  <2>5. Len(files[seq].cells) \in Nat /\ files[seq].synced \in Nat
    BY <1>1 DEF File
  <2>6. Unsynced' = Unsynced + Len(c)
    BY <1>2, <2>3, <2>4, <2>5 DEF Unsynced
  <2> QED  BY <1>2, <1>3, <2>3, <2>6 DEF Exists
<1>4. CASE ~Exists(seq)
  <2>1. files' = files
    BY <1>4 DEF WriteFile
  <2> QED  BY <1>2, <1>4, <2>1 DEF Unsynced, Exists
<1> QED  BY <1>3, <1>4

LEMMA BeforeBounds ==
  ASSUME wret \in {"flag", "decide", "event"}
  PROVE  Before \in Int /\ 0 <= Before /\ Before <= SyncCells - 1 + DrainPasses * DrainCells
<1>1. SyncCells \in Nat \ {0} /\ DrainPasses * DrainCells \in Nat
  BY StoreAssumption, Drains
<1>2. Before \in {SyncCells - 1, SyncCells - 1 + DrainPasses * DrainCells, 0}
  BY DEF Before
<1> QED  BY <1>1, <1>2

LEMMA LossInit == Init => LossInv
BY DEF Init, LossInv

LEMMA LossStep == TypeInv /\ HandOver /\ LossInv /\ [Next]_vars => LossInv'
<1> SUFFICES ASSUME TypeInv, HandOver, LossInv, [Next]_vars
             PROVE  LossInv'
  OBVIOUS
<1> USE DEF storeVars, writerVars, ringVars, prodVars, histVars
<1>t. /\ TypeOK /\ seq \in Seqs /\ files[seq] \in File /\ files \in [Seqs -> File]
      /\ wbuf \in Seq(Cell) /\ ring \in Seq(Cell) /\ pass \in 0 .. DrainPasses
      /\ wret \in {"flag", "decide", "event"} /\ clock \in Nat
  BY DEF TypeInv, TypeOK
<1>n. /\ SyncCells \in Nat \ {0} /\ DrainCells \in Nat \ {0} /\ DrainPasses \in Nat
      /\ Unsynced \in Int /\ Len(wbuf) \in Nat
  BY <1>t, StoreAssumption DEF Unsynced, File
<1>b. Before \in Int /\ 0 <= Before
  BY BeforeBounds, <1>t
<1>k. ASSUME UNCHANGED <<files, fileOpen, seq, wpc, wret, wbuf, pass>>
      PROVE  LossInv'
  <2>1. Unsynced' = Unsynced /\ Exists(seq)' = Exists(seq) /\ Before' = Before
    BY <1>k DEF Unsynced, Exists, Before
  <2> QED  BY <1>k, <2>1 DEF LossInv, AllDrained
\* A file that is synced, or one that is new.
<1>0. ASSUME UNCHANGED <<wpc, wret, wbuf, pass>>, Unsynced' = 0,
             wpc = "write" => Len(wbuf) <= DrainCells
      PROVE  LossInv'
  <2>1. Before' = Before /\ wbuf' = wbuf /\ pass' = pass /\ wpc' = wpc
    BY <1>0 DEF Before
  <2>2. pass * DrainCells \in Nat /\ (pass + 1) * DrainCells = pass * DrainCells + DrainCells
    BY <1>t, Drains
  <2>3. DrainPasses * DrainCells \in Nat
    BY Drains
  <2> QED  BY <1>0, <1>n, <1>b, <2>1, <2>2, <2>3 DEF LossInv, AllDrained
<1>1. CASE BeginOpen
  <2>1. wpc = "none" /\ wpc' = "none"
    BY <1>1 DEF BeginOpen, HandOver
  <2>2. PICK n \in 0 .. MaxSeq - 1 : files' = [files EXCEPT ![n + 1] = NewFile] /\ seq' = n + 1
    BY <1>1 DEF BeginOpen
  <2>3. n + 1 \in Seqs
    BY <2>2, StoreAssumption DEF Seqs
  <2>4. files'[seq'] = NewFile
    BY <1>t, <2>2, <2>3
  <2>5. Unsynced' = 0
    BY <2>4 DEF Unsynced, NewFile, Absent
  <2> QED  BY <2>1, <2>5 DEF LossInv
<1>2. CASE BeginHeader
  <2>1. wpc = "none" /\ wpc' = "none" /\ fileOpen /\ seq' = seq
    BY <1>2 DEF BeginHeader, HandOver
  <2>2. Unsynced' = Unsynced
    BY <1>2, <1>t, <2>1 DEF BeginHeader, WriteFile, Unsynced, File
  <2> QED  BY <2>1, <2>2 DEF LossInv
<1>3. CASE BeginFail \/ PowerCut
  <2>1. wpc' = "none" /\ ~fileOpen'
    BY <1>3 DEF BeginFail, PowerCut, HandOver
  <2> QED  BY <2>1 DEF LossInv
<1>4. CASE BeginLaunch
  <2>1. Unsynced' = 0 /\ wpc' = "pop" /\ wret' = "flag" /\ pass' = 0
    BY <1>4 DEF BeginLaunch, LossInv, HandOver, Unsynced
  <2>2. Before' = SyncCells - 1
    BY <2>1 DEF Before
  <2> QED  BY <1>n, <2>1, <2>2 DEF LossInv
<1>5. CASE BeginActivate \/ EndCall \/ EndRequest \/ EndJoin
  BY <1>5, <1>k DEF BeginActivate, EndCall, EndRequest, EndJoin
<1>6. CASE EndClose
  <2>1. wpc' = "none" /\ ~fileOpen'
    BY <1>6 DEF EndClose, HandOver
  <2> QED  BY <2>1 DEF LossInv

<1>7. CASE SetAddrs
  <2>1. fileOpen /\ WriteFile(Synced(files[seq])) /\ seq' = seq
        /\ UNCHANGED <<wpc, wret, wbuf, pass>>
    BY <1>7 DEF SetAddrs
  <2>2. Unsynced' = 0
    BY <1>t, <2>1, SyncLoses DEF LossInv
  <2> QED  BY <1>0, <2>1, <2>2 DEF LossInv
<1>8. CASE WriterPop
  <2>1. UNCHANGED <<files, fileOpen, seq, wret>> /\ fileOpen
    BY <1>8 DEF WriterPop, HandOver
  <2>2. Unsynced' = Unsynced /\ Before' = Before /\ Exists(seq)' = Exists(seq)
    BY <2>1 DEF Unsynced, Before, Exists
  <2>3. Unsynced <= Before + pass * DrainCells
    BY <1>8 DEF WriterPop, LossInv
  <2>4. CASE pass < DrainPasses /\ ring # <<>>
    <3> DEFINE n == IF Len(ring) < DrainCells THEN Len(ring) ELSE DrainCells
    <3>1. n \in 0 .. Len(ring) /\ n <= DrainCells
      BY <1>n, <1>t
    <3>2. wbuf' = SubSeq(ring, 1, n) /\ wpc' = "write" /\ pass' = pass
      BY <1>8, <2>4 DEF WriterPop
    <3> HIDE DEF n
    <3>3. Len(wbuf') = n
      BY <1>t, <3>1, <3>2
    <3>4. (pass + 1) * DrainCells = pass * DrainCells + DrainCells /\ pass * DrainCells \in Nat
      BY <1>t, Drains
    <3>5. Unsynced' + Len(wbuf') <= Before' + (pass' + 1) * DrainCells
      BY <1>n, <1>b, <2>2, <2>3, <3>1, <3>2, <3>3, <3>4
    <3> QED  BY <2>1, <2>2, <3>1, <3>2, <3>3, <3>5 DEF LossInv
  <2>5. CASE ~(pass < DrainPasses /\ ring # <<>>)
    <3>1. wpc' = wret
      BY <1>8, <2>5 DEF WriterPop
    <3>2. pass * DrainCells <= DrainPasses * DrainCells /\ pass * DrainCells \in Nat
          /\ DrainPasses * DrainCells \in Nat
      BY <1>t, Drains
    <3>3. Unsynced <= Before + DrainPasses * DrainCells
      BY <1>n, <1>b, <2>3, <3>2
    <3>4. CASE wret = "flag"
      BY <2>1, <2>2, <3>1, <3>3, <3>4 DEF LossInv, Before
    <3>5. CASE wret = "decide"
      <4>1. Unsynced <= AllDrained
        BY <1>n, <3>2, <3>3, <3>5 DEF Before, AllDrained
      <4> QED  BY <2>1, <2>2, <3>1, <3>5, <4>1 DEF LossInv, AllDrained
    <3>6. CASE wret = "event"
      <4>1. Unsynced <= DrainPasses * DrainCells
        BY <1>n, <3>2, <3>3, <3>6 DEF Before
      <4> QED  BY <2>1, <2>2, <3>1, <3>6, <4>1 DEF LossInv
    <3> QED  BY <1>t, <3>4, <3>5, <3>6
  <2> QED  BY <2>4, <2>5
<1>9. CASE WriterWrite
  <2>1. /\ WriteFile([files[seq] EXCEPT !.cells = @ \o wbuf]) /\ seq' = seq /\ fileOpen
        /\ wpc' = "pop" /\ pass' = pass + 1 /\ wret' = wret
    BY <1>9 DEF WriterWrite, HandOver
  <2>2. Unsynced' <= Unsynced + Len(wbuf) /\ ((~Exists(seq))' => Unsynced' = 0)
    BY <1>t, <2>1, WriteLoses DEF LossInv
  <2>3. Unsynced + Len(wbuf) <= Before + (pass + 1) * DrainCells
    BY <1>9 DEF WriterWrite, LossInv
  <2>4. Unsynced' \in Int /\ (pass + 1) * DrainCells \in Nat /\ Before' = Before
    <3>1. files' \in [Seqs -> File]
      BY <1>t, <2>1, TypeStep DEF TypeInv, TypeOK
    <3>2. files'[seq'] \in File
      BY <1>t, <2>1, <3>1
    <3>3. Unsynced' \in Int
      BY <3>2 DEF Unsynced, File
    <3>4. pass + 1 \in Nat
      BY <1>t
    <3> QED  BY <1>n, <2>1, <3>3, <3>4 DEF Before
  <2>5. Unsynced' <= Before' + pass' * DrainCells
    BY <1>n, <1>b, <2>1, <2>2, <2>3, <2>4
  <2> QED  BY <2>1, <2>2, <2>5 DEF LossInv
<1>10. CASE WriterReadStop
  <2>1. UNCHANGED <<files, fileOpen, seq>> /\ fileOpen
    BY <1>10 DEF WriterReadStop, HandOver
  <2>2. Unsynced' = Unsynced /\ Exists(seq)' = Exists(seq)
        /\ Unsynced <= SyncCells - 1 + DrainPasses * DrainCells
    BY <1>10, <2>1 DEF WriterReadStop, LossInv, Unsynced, Exists
  <2>3. CASE stopReq
    <3>1. wpc' = "pop" /\ wret' = "decide" /\ pass' = 0
      BY <1>10, <2>3 DEF WriterReadStop, Drain
    <3>2. Before' = SyncCells - 1 + DrainPasses * DrainCells
      BY <3>1 DEF Before
    <3>3. Unsynced' <= Before' + pass' * DrainCells
      BY <1>n, <2>2, <3>1, <3>2, Drains
    <3> QED  BY <2>1, <2>2, <3>1, <3>3 DEF LossInv
  <2>4. CASE ~stopReq
    <3>1. wpc' = "decide"
      BY <1>10, <2>4 DEF WriterReadStop
    <3>2. Unsynced' <= AllDrained
      BY <1>n, <2>2, Drains DEF AllDrained
    <3> QED  BY <2>1, <2>2, <3>1, <3>2 DEF LossInv, AllDrained
  <2> QED  BY <2>3, <2>4
<1>11. CASE WriterSync
  <2>1. fileOpen /\ WriteFile(Synced(files[seq])) /\ seq' = seq /\ wpc' \in {"exit", "space"}
    BY <1>11 DEF WriterSync, HandOver
  <2>2. Unsynced' = 0
    BY <1>t, <2>1, SyncLoses DEF LossInv
  <2> QED  BY <2>1, <2>2 DEF LossInv
<1>12. CASE WriterNoSync \/ WriterSpaceLeft \/ WriterEventSync
  <2>1. wpc' = "pop" /\ wret' = "flag" /\ pass' = 0 /\ fileOpen /\ seq' = seq
    BY <1>12 DEF WriterNoSync, WriterSpaceLeft, WriterEventSync, Drain, HandOver
  <2>2. Unsynced' < SyncCells /\ ((~Exists(seq))' => Unsynced' = 0)
    <3>1. CASE WriterNoSync \/ WriterSpaceLeft
      <4>1. files' = files /\ Unsynced < SyncCells
        BY <1>n, <3>1 DEF WriterNoSync, WriterSpaceLeft, LossInv
      <4> QED  BY <2>1, <4>1 DEF LossInv, Unsynced, Exists
    <3>2. CASE WriterEventSync
      <4>1. Unsynced' = 0
        BY <1>t, <2>1, <3>2, SyncLoses DEF WriterEventSync, LossInv
      <4> QED  BY <1>n, <4>1
    <3> QED  BY <1>12, <3>1, <3>2
  <2>3. Before' = SyncCells - 1 /\ 0 * DrainCells = 0
    BY <1>n, <2>1 DEF Before
  <2>4. Unsynced' \in Int
    <3>1. files' \in [Seqs -> File]
      BY TypeStep DEF TypeInv, TypeOK
    <3>2. files'[seq'] \in File
      BY <1>t, <2>1, <3>1
    <3> QED  BY <3>2 DEF Unsynced, File
  <2>5. Unsynced' <= Before' + pass' * DrainCells
    BY <1>n, <2>1, <2>2, <2>3, <2>4
  <2> QED  BY <2>1, <2>2, <2>5 DEF LossInv
<1>13. CASE WriterSpaceLow
  <2>1. wpc' = "pop" /\ wret' = "event" /\ pass' = 0 /\ fileOpen /\ seq' = seq /\ files' = files
        /\ Unsynced = 0
    BY <1>13 DEF WriterSpaceLow, Drain, HandOver, LossInv
  <2>2. Before' = 0 /\ 0 * DrainCells = 0 /\ Unsynced' = 0
    BY <1>n, <2>1 DEF Before, Unsynced
  <2> QED  BY <2>1, <2>2 DEF LossInv
<1>14. CASE WriterEvent
  <2>1. PICK l \in Lens :
          WriteFile([files[seq] EXCEPT !.cells =
            @ \o CellsOf([by |-> Writer, t |-> clock + 1, len |-> l, cap |-> seq])])
    BY <1>14 DEF WriterEvent
  <2> DEFINE r == [by |-> Writer, t |-> clock + 1, len |-> l, cap |-> seq]
  <2>2. r \in Rec /\ r.len = l
    BY <1>t DEF Rec, Stamps
  <2> HIDE DEF r
  <2>3. CellsOf(r) \in Seq(Cell) /\ Len(CellsOf(r)) = l
    <3>1. l \in Nat
      BY StoreAssumption
    <3>2. CellsOf(r) \in Seq(Cell)
      BY <2>2, CellsOfType
    <3> QED  BY <2>2, <3>1, <3>2 DEF CellsOf
  <2>4. WriteFile([files[seq] EXCEPT !.cells = @ \o CellsOf(r)])
    BY <2>1 DEF r
  <2>5. seq' = seq /\ fileOpen /\ wpc' = "eventsync"
    BY <1>14 DEF WriterEvent, HandOver
  <2>6. Unsynced' <= Unsynced + l /\ ((~Exists(seq))' => Unsynced' = 0)
    BY <1>t, <2>3, <2>4, <2>5, WriteLoses DEF LossInv
  <2>7. Unsynced <= DrainPasses * DrainCells
    BY <1>14 DEF WriterEvent, LossInv
  <2>8. Unsynced' \in Int
    <3>1. files' \in [Seqs -> File]
      BY TypeStep DEF TypeInv, TypeOK
    <3>2. files'[seq'] \in File
      BY <1>t, <2>5, <3>1
    <3> QED  BY <3>2 DEF Unsynced, File
  <2>9. l \in Nat /\ l <= DrainPasses * DrainCells /\ DrainPasses * DrainCells \in Nat
    BY RecordDrained, Drains
  <2>10. Unsynced' <= AllDrained
    BY <1>n, <2>6, <2>7, <2>8, <2>9 DEF AllDrained
  <2> QED  BY <2>5, <2>6, <2>10 DEF LossInv, AllDrained
<1>15. CASE WriterExit
  <2>1. wpc' = "none" /\ UNCHANGED <<files, seq, fileOpen>> /\ Unsynced = 0
    BY <1>15 DEF WriterExit, LossInv
  <2> QED  BY <2>1 DEF LossInv, Unsynced
<1>16. CASE RemoveAny
  <2>1. UNCHANGED <<seq, fileOpen, wpc, wret, wbuf, pass>>
    BY <1>16 DEF RemoveAny, RemoveOne, RemoveAll, RemoveStep
  <2>2. files'[seq] = files[seq] \/ files'[seq] = Absent
    BY <1>16, <1>t DEF RemoveAny, RemoveOne, RemoveAll, RemoveStep
  <2>3. CASE files'[seq] = files[seq]
    BY <2>1, <2>3 DEF LossInv, Unsynced, Exists, Before
  <2>4. CASE files'[seq] = Absent
    <3>1. Unsynced' = 0
      BY <2>1, <2>4 DEF Unsynced, Absent
    <3> QED  BY <1>0, <2>1, <3>1 DEF LossInv
  <2> QED  BY <2>2, <2>3, <2>4
<1>17. ASSUME NEW p \in Producers, ProducerStep(p)
       PROVE  LossInv'
  BY <1>17, <1>k DEF ProducerStep, Stamp, CheckActive, CheckFull, Push, NoteT
<1>18. CASE UNCHANGED vars
  BY <1>18, <1>k DEF vars
<1> QED
  BY <1>1, <1>2, <1>3, <1>4, <1>5, <1>6, <1>7, <1>8, <1>9, <1>10, <1>11, <1>12, <1>13,
     <1>14, <1>15, <1>16, <1>17, <1>18
  DEF Next, ApiStep, WriterStep

\* A power cut never takes more than the bytes that may wait for a sync and what the
\* two drains of a round add, for every size of the ring, the drains and the records.
THEOREM LossIsBounded == Spec => []CutLossBounded
<1>1. TypeInv /\ HandOver /\ LossInv => CutLossBounded
  <2> SUFFICES ASSUME TypeInv, HandOver, LossInv
               PROVE  CutLossBounded
    OBVIOUS
  <2>1. /\ SyncCells \in Nat \ {0} /\ DrainCells \in Nat /\ DrainPasses \in Nat
        /\ Unsynced \in Int /\ Len(wbuf) \in Nat
        /\ wret \in {"flag", "decide", "event"} /\ pass \in 0 .. DrainPasses /\ wpc \in WriterPcs
        /\ wpc = "write" => pass + 1 \in 0 .. DrainPasses
    BY StoreAssumption DEF TypeInv, TypeOK, Unsynced, File
  <2>2. /\ pass * DrainCells <= DrainPasses * DrainCells /\ DrainPasses * DrainCells \in Nat
        /\ wpc = "write" => (pass + 1) * DrainCells <= DrainPasses * DrainCells
        /\ pass * DrainCells \in Nat /\ (pass + 1) * DrainCells \in Nat
        /\ 0 * DrainCells = 0
    BY <2>1, Drains
  <2>3. Before \in Int /\ Before <= SyncCells - 1 + DrainPasses * DrainCells
    BY <2>1, BeforeBounds
  <2>4. wpc = "pop" /\ wret = "flag" /\ pass = 0 => Unsynced < SyncCells
    BY <2>1, <2>2 DEF LossInv, Before
  <2>5. fileOpen => Unsynced <= AllDrained
    <3>1. CASE wpc = "pop"
      BY <2>1, <2>2, <2>3, <3>1 DEF LossInv, AllDrained
    <3>2. CASE wpc = "write"
      BY <2>1, <2>2, <2>3, <3>2 DEF LossInv, AllDrained
    <3>3. CASE wpc \notin {"pop", "write"}
      BY <2>1, <2>2, <3>3 DEF LossInv, AllDrained, WriterPcs
    <3> QED  BY <3>1, <3>2, <3>3
  <2>6. 2 * DrainPasses * DrainCells = 2 * (DrainPasses * DrainCells)
    BY <2>1
  <2> QED  BY <2>4, <2>5, <2>6 DEF CutLossBounded, AllDrained
<1> QED
  BY <1>1, TypeInit, TypeStep, HandOverInit, HandOverStep, LossInit, LossStep, PTL DEF Spec

-----------------------------------------------------------------------------
(***************************************************************************)
(* The ring, the writer's buffer and the file together hold what was       *)
(* accepted.                                                               *)
(*                                                                         *)
(* Conservation needs that the buffer is empty except between a pop and    *)
(* its write, that a file just opened is empty, and that the record of a   *)
(* producer inside store_write() is its own.                               *)
(***************************************************************************)
ConsInv ==
  /\ wpc # "write" => wbuf = <<>>
  /\ api = "opened" => files[seq].cells = <<>>
  /\ \A p \in Producers : ppc[p] # "idle" => prec[p].by = p
  /\ Conservation

\* Three pieces in a row: it does not matter which two are joined first.
InARow(a, b, c) == (a \o b) \o c = a \o (b \o c)

LEMMA Associates ==
  ASSUME NEW a, NEW b, NEW c, a \in Seq(Cell), b \in Seq(Cell), c \in Seq(Cell)
  PROVE  InARow(a, b, c)
BY ConcatAssociative DEF InARow

LEMMA ConsInit == Init => ConsInv
<1> SUFFICES ASSUME Init
             PROVE  ConsInv
  OBVIOUS
<1>1. ~fileOpen /\ wbuf = <<>> /\ api = "idle" /\ \A p \in Producers : ppc[p] = "idle"
  BY DEF Init
<1> QED  BY <1>1 DEF ConsInv, Conservation

\* A step that moves no cells and accepts nothing, or that ends the capture.
LEMMA ConsKept ==
  ASSUME Conservation, UNCHANGED <<seq, accepted, wbuf, ring>>,
         Exists(seq)' => Exists(seq) /\ files'[seq].cells = files[seq].cells,
         fileOpen' /\ api' # "opened" => fileOpen /\ api # "opened"
  PROVE  Conservation'
BY DEF Conservation

LEMMA ConsStep == TypeInv /\ HandOver /\ ConsInv /\ [Next]_vars => ConsInv'
<1> SUFFICES ASSUME TypeInv, HandOver, ConsInv, [Next]_vars
             PROVE  ConsInv'
  OBVIOUS
<1> USE DEF storeVars, writerVars, ringVars, prodVars, histVars
<1>t. /\ TypeOK /\ files \in [Seqs -> File] /\ seq \in Seqs /\ files[seq] \in File
      /\ files[seq].cells \in Seq(Cell) /\ wbuf \in Seq(Cell) /\ ring \in Seq(Cell)
      /\ clock \in Nat /\ accepted \in Seq(Rec) /\ prec \in [Producers -> Rec]
      /\ ppc \in [Producers -> {"idle", "called", "active", "push", "pushed"}]
  BY DEF TypeInv, TypeOK, File
<1>c. /\ wpc # "write" => wbuf = <<>>
      /\ api = "opened" => files[seq].cells = <<>>
      /\ \A p \in Producers : ppc[p] # "idle" => prec[p].by = p
      /\ Conservation
  BY DEF ConsInv
\* Steps that leave the producers alone.
<1>p. UNCHANGED <<ppc, prec>> => \A p \in Producers : ppc'[p] # "idle" => prec'[p].by = p
  BY <1>c
\* A file whose cells stay.
<1>w. ASSUME NEW f, WriteFile(f), f.cells = files[seq].cells, seq' = seq
      PROVE  /\ files'[seq].cells = files[seq].cells
             /\ Exists(seq)' => Exists(seq)
  BY <1>t, <1>w DEF WriteFile, Exists
<1>1. CASE BeginOpen
  <2>1. PICK n \in 0 .. MaxSeq - 1 : files' = [files EXCEPT ![n + 1] = NewFile] /\ seq' = n + 1
    BY <1>1 DEF BeginOpen
  <2>2. n + 1 \in Seqs
    BY <2>1, StoreAssumption DEF Seqs
  <2>3. files'[seq'].cells = <<>>
    BY <1>t, <2>1, <2>2 DEF NewFile, Absent
  <2>4. api' = "opened" /\ UNCHANGED <<wpc, wbuf, ppc, prec>>
    BY <1>1 DEF BeginOpen
  <2> QED  BY <1>c, <1>p, <2>3, <2>4 DEF ConsInv, Conservation
<1>2. CASE BeginHeader
  <2>1. files[seq].cells = <<>> /\ wpc = "none" /\ wbuf = <<>>
    BY <1>2, <1>c DEF BeginHeader, HandOver
  <2>2. WriteFile([files[seq] EXCEPT !.hdr = TRUE]) /\ seq' = seq
    BY <1>2 DEF BeginHeader
  <2>3. files'[seq].cells = <<>>
    BY <1>t, <1>w, <2>1, <2>2 DEF File
  <2>4. ring' = <<>> /\ accepted' = <<>> /\ api' = "ready" /\ UNCHANGED <<wpc, wbuf, ppc, prec>>
    BY <1>2 DEF BeginHeader
  <2>5. files'[seq'].cells \o wbuf' \o ring' = <<>>
    BY <2>1, <2>2, <2>3, <2>4
  <2>6. Conservation'
    BY <2>4, <2>5, QueuedEmpty DEF Conservation
  <2> QED  BY <1>c, <1>p, <2>4, <2>6 DEF ConsInv
<1>3. CASE BeginFail
  <2>1. ~fileOpen' /\ api' = "idle" /\ UNCHANGED <<wpc, wbuf, ppc, prec>>
    BY <1>3 DEF BeginFail
  <2> QED  BY <1>c, <1>p, <2>1 DEF ConsInv, Conservation
<1>4. CASE BeginLaunch
  <2>1. wbuf = <<>> /\ wbuf' = <<>> /\ wpc' = "pop" /\ api' = "launched" /\ api = "ready"
        /\ UNCHANGED <<files, seq, ring, accepted, fileOpen, ppc, prec>>
    BY <1>4, <1>c DEF BeginLaunch, HandOver
  <2>2. Conservation'
    BY <1>c, <2>1, ConsKept DEF Exists
  <2> QED  BY <1>p, <2>1, <2>2 DEF ConsInv
<1>5. CASE BeginActivate \/ EndCall \/ EndRequest \/ EndJoin
  <2>1. /\ UNCHANGED <<files, seq, ring, accepted, fileOpen, ppc, prec, wpc, wbuf>>
        /\ api # "opened" /\ api' # "opened"
    BY <1>5 DEF BeginActivate, EndCall, EndRequest, EndJoin
  <2>2. Conservation'
    BY <1>c, <2>1, ConsKept DEF Exists
  <2> QED  BY <1>c, <1>p, <2>1, <2>2 DEF ConsInv
<1>6. CASE EndClose
  <2>1. ~fileOpen' /\ api' = "idle" /\ UNCHANGED <<wpc, wbuf, ppc, prec>>
    BY <1>6 DEF EndClose
  <2> QED  BY <1>c, <1>p, <2>1 DEF ConsInv, Conservation
<1>7. CASE SetAddrs \/ WriterSync \/ WriterEventSync
  <2>1. /\ WriteFile(Synced(files[seq]))
        /\ UNCHANGED <<seq, ring, accepted, fileOpen, ppc, prec, wbuf, api>>
        /\ wpc = "write" => wpc' = "write"
    BY <1>7 DEF SetAddrs, WriterSync, WriterEventSync, Drain
  <2>2. Synced(files[seq]).cells = files[seq].cells
    BY <1>t DEF Synced, File
  <2>3. files'[seq].cells = files[seq].cells /\ (Exists(seq)' => Exists(seq))
    <3> DEFINE f == Synced(files[seq])
    <3>1. WriteFile(f) /\ f.cells = files[seq].cells /\ seq' = seq
      BY <2>1, <2>2
    <3> HIDE DEF f
    <3> QED  BY <1>w, <3>1
  <2>4. Conservation'
    BY <1>c, <2>1, <2>3, ConsKept
  <2>5. wpc' # "write" => wbuf' = <<>>
    BY <1>7, <1>c, <2>1 DEF SetAddrs, WriterSync, WriterEventSync
  <2> QED  BY <1>c, <1>p, <2>1, <2>3, <2>4, <2>5 DEF ConsInv
<1>8. CASE WriterPop
  <2>1. UNCHANGED <<files, seq, accepted, fileOpen, ppc, prec, api>> /\ wbuf = <<>>
        /\ api # "opened"
    BY <1>8, <1>c DEF WriterPop, HandOver
  <2>2. CASE pass < DrainPasses /\ ring # <<>>
    <3> DEFINE n == IF Len(ring) < DrainCells THEN Len(ring) ELSE DrainCells
    <3>1. n \in 1 - 1 .. Len(ring) /\ Len(ring) \in n .. Len(ring) /\ 1 \in 1 .. Len(ring) + 1
      BY <1>t, StoreAssumption
    <3>2. wbuf' = SubSeq(ring, 1, n) /\ ring' = SubSeq(ring, n + 1, Len(ring)) /\ wpc' = "write"
      BY <1>8, <2>2 DEF WriterPop
    <3> HIDE DEF n
    <3>3. wbuf' \o ring' = ring
      BY <1>t, <3>1, <3>2, ConcatAdjacentSubSeq, SubSeqFull
    <3>4. wbuf' \in Seq(Cell) /\ ring' \in Seq(Cell)
      BY TypeStep DEF TypeInv, TypeOK
    <3>5. files[seq].cells \o wbuf' \o ring' = files[seq].cells \o wbuf \o ring
      <4>1. (files[seq].cells \o wbuf') \o ring' = files[seq].cells \o ring
        <5>1. files[seq].cells \in Seq(Cell) /\ wbuf' \in Seq(Cell) /\ ring' \in Seq(Cell)
          BY <1>t, <3>4
        <5>2. PICK c, x, y : c = files[seq].cells /\ x = wbuf' /\ y = ring'
          OBVIOUS
        <5>3. (c \o x) \o y = c \o (x \o y)
          <6>1. c \in Seq(Cell) /\ x \in Seq(Cell) /\ y \in Seq(Cell)
            BY <5>1, <5>2
          <6>2. InARow(c, x, y)
            BY <6>1, Associates
          <6> QED  BY <6>2 DEF InARow
        <5> QED  BY <3>3, <5>2, <5>3
      <4>2. files[seq].cells \o <<>> = files[seq].cells
        BY <1>t, ConcatEmptySeq
      <4> QED  BY <2>1, <4>1, <4>2
    <3>6. Conservation'
      BY <1>c, <2>1, <3>5 DEF Conservation, Exists
    <3> QED  BY <1>p, <2>1, <3>2, <3>6 DEF ConsInv
  <2>3. CASE ~(pass < DrainPasses /\ ring # <<>>)
    <3>1. UNCHANGED <<wbuf, ring>>
      BY <1>8, <2>3 DEF WriterPop
    <3>2. Conservation'
      BY <1>c, <2>1, <3>1, ConsKept DEF Exists
    <3> QED  BY <1>p, <2>1, <3>1, <3>2 DEF ConsInv
  <2> QED  BY <2>2, <2>3
<1>9. CASE WriterWrite
  <2>1. /\ WriteFile([files[seq] EXCEPT !.cells = @ \o wbuf]) /\ wbuf' = <<>> /\ api # "opened"
        /\ UNCHANGED <<seq, ring, accepted, fileOpen, ppc, prec, api>>
    BY <1>9 DEF WriterWrite, HandOver
  <2>2. Conservation'
    <3> SUFFICES ASSUME fileOpen, Exists(seq)'
                 PROVE  Queued(files'[seq].cells \o <<>> \o ring) = accepted
      BY <2>1 DEF Conservation
    <3>1. Exists(seq)
      BY <1>t, <2>1 DEF WriteFile, Exists
    <3>2. files'[seq].cells = files[seq].cells \o wbuf
      BY <1>t, <2>1, <3>1 DEF WriteFile, File
    <3>3. files[seq].cells \o wbuf \in Seq(Cell)
      BY <1>t
    <3>4. (files[seq].cells \o wbuf) \o <<>> = files[seq].cells \o wbuf
      BY <3>3, ConcatEmptySeq
    <3> QED  BY <1>c, <2>1, <3>1, <3>2, <3>4 DEF Conservation
  <2> QED  BY <1>p, <2>1, <2>2 DEF ConsInv
<1>10. CASE WriterEvent
  <2>1. PICK l \in Lens :
          WriteFile([files[seq] EXCEPT !.cells =
            @ \o CellsOf([by |-> Writer, t |-> clock + 1, len |-> l, cap |-> seq])])
    BY <1>10 DEF WriterEvent
  <2> DEFINE r == [by |-> Writer, t |-> clock + 1, len |-> l, cap |-> seq]
  <2>2. r \in Rec /\ r.by = Writer
    BY <1>t DEF Rec, Stamps
  <2> HIDE DEF r
  <2>3. CellsOf(r) \in Seq(Cell) /\ Queued(CellsOf(r)) = <<>>
    BY <2>2, CellsOfType, QueuedRecord
  <2>4. WriteFile([files[seq] EXCEPT !.cells = @ \o CellsOf(r)])
    BY <2>1 DEF r
  <2>5. /\ wbuf = <<>> /\ api # "opened"
        /\ UNCHANGED <<seq, ring, accepted, fileOpen, ppc, prec, api, wbuf>>
    BY <1>10, <1>c DEF WriterEvent, HandOver
  <2>6. Conservation'
    <3> SUFFICES ASSUME fileOpen, Exists(seq)'
                 PROVE  Queued(files'[seq].cells \o <<>> \o ring) = accepted
      BY <2>5 DEF Conservation
    <3>1. Exists(seq)
      BY <1>t, <2>4, <2>5 DEF WriteFile, Exists
    <3>2. files'[seq].cells = files[seq].cells \o CellsOf(r)
      BY <1>t, <2>4, <3>1 DEF WriteFile, File
    <3> DEFINE c == files[seq].cells
               e == CellsOf(r)
    <3>3. c \in Seq(Cell) /\ e \in Seq(Cell) /\ Queued(e) = <<>>
      BY <1>t, <2>3
    <3>4. Queued(c \o <<>> \o ring) = accepted
      BY <1>c, <2>5, <3>1 DEF Conservation
    <3>5. files'[seq].cells = c \o e
      BY <3>2
    <3> HIDE DEF c, e
    <3>6. c \o e \in Seq(Cell) /\ c \o <<>> = c /\ (c \o e) \o <<>> = c \o e
      BY <3>3, ConcatEmptySeq, ConcatProperties
    <3>7. Queued(c \o ring) = Queued(c) \o Queued(ring)
      BY <1>t, <3>3, QueuedConcat
    <3>8. Queued((c \o e) \o ring) = (Queued(c) \o Queued(e)) \o Queued(ring)
      BY <1>t, <3>3, <3>6, QueuedConcat
    <3>9. Queued(c) \in Seq(Rec) /\ Queued(c) \o <<>> = Queued(c)
      BY <3>3, QueuedType, ConcatEmptySeq
    <3> QED  BY <3>3, <3>4, <3>5, <3>6, <3>7, <3>8, <3>9
  <2> QED  BY <1>p, <2>5, <2>6 DEF ConsInv
<1>11. CASE WriterReadStop \/ WriterNoSync \/ WriterSpaceLeft \/ WriterSpaceLow \/ WriterExit
  <2>1. /\ UNCHANGED <<files, seq, ring, accepted, fileOpen, ppc, prec, api, wbuf>>
        /\ wbuf = <<>> /\ api # "opened"
    BY <1>11, <1>c DEF WriterReadStop, WriterNoSync, WriterSpaceLeft, WriterSpaceLow, WriterExit,
                       HandOver
  <2>2. Conservation'
    BY <1>c, <2>1, ConsKept DEF Exists
  <2> QED  BY <1>p, <2>1, <2>2 DEF ConsInv
<1>12. CASE RemoveAny
  <2>1. UNCHANGED <<seq, ring, accepted, fileOpen, ppc, prec, api, wbuf, wpc>>
    BY <1>12 DEF RemoveAny, RemoveOne, RemoveAll, RemoveStep
  <2>2. files'[seq] = files[seq] \/ files'[seq] = Absent
    BY <1>12, <1>t DEF RemoveAny, RemoveOne, RemoveAll, RemoveStep
  <2>3. Exists(seq)' => Exists(seq) /\ files'[seq].cells = files[seq].cells
    BY <2>1, <2>2 DEF Exists, Absent
  <2>4. Conservation'
    BY <1>c, <2>1, <2>3, ConsKept
  <2>5. api' = "opened" => files'[seq'].cells = <<>>
    BY <1>c, <2>1, <2>2 DEF Absent
  <2> QED  BY <1>c, <1>p, <2>1, <2>4, <2>5 DEF ConsInv
<1>13. CASE PowerCut
  <2>1. ~fileOpen' /\ api' = "idle" /\ wbuf' = <<>>
    BY <1>13 DEF PowerCut
  <2>2. \A p \in Producers : ppc'[p] = "idle"
    BY <1>13 DEF PowerCut
  <2> QED  BY <2>1, <2>2 DEF ConsInv, Conservation
<1>14. ASSUME NEW p \in Producers, ProducerStep(p)
       PROVE  ConsInv'
  <2>0. UNCHANGED <<files, seq, fileOpen, api, wbuf, wpc>>
    BY <1>14 DEF ProducerStep, Stamp, CheckActive, CheckFull, Push, NoteT
  <2>1. CASE Stamp(p)
    <3>1. PICK l \in Lens : prec' = [prec EXCEPT ![p] = [by |-> p, t |-> clock + 1,
                                                          len |-> l, cap |-> seq]]
      BY <2>1 DEF Stamp
    <3>2. \A q \in Producers : ppc'[q] # "idle" => prec'[q].by = q
      BY <1>c, <1>t, <2>1, <3>1 DEF Stamp
    <3>3. UNCHANGED <<ring, accepted>>
      BY <2>1 DEF Stamp
    <3>4. Conservation'
      BY <1>c, <2>0, <3>3, ConsKept DEF Exists
    <3> QED  BY <1>c, <2>0, <3>2, <3>4 DEF ConsInv
  <2>2. CASE CheckActive(p) \/ CheckFull(p) \/ NoteT(p)
    <3>1. \A q \in Producers : ppc'[q] # "idle" => ppc[q] # "idle"
      BY <1>t, <2>2 DEF CheckActive, CheckFull, NoteT
    <3>2. \A q \in Producers : prec'[q].by = prec[q].by
      <4>1. prec' = prec \/ prec' = [prec EXCEPT ![p].cap = seq]
        BY <2>2 DEF CheckActive, CheckFull, NoteT
      <4>2. prec[p] \in Rec
        BY <1>t
      <4>3. [prec[p] EXCEPT !.cap = seq].by = prec[p].by
        BY <4>2 DEF Rec
      <4> QED  BY <1>t, <4>1, <4>3
    <3>3. UNCHANGED <<ring, accepted>>
      BY <2>2 DEF CheckActive, CheckFull, NoteT
    <3>4. Conservation'
      BY <1>c, <2>0, <3>3, ConsKept DEF Exists
    <3> QED  BY <1>c, <2>0, <3>1, <3>2, <3>4 DEF ConsInv
  <2>3. CASE Push(p)
    <3>1. \A q \in Producers : ppc'[q] # "idle" => ppc[q] # "idle"
      BY <1>t, <2>3 DEF Push
    <3>2. prec' = prec
      BY <2>3 DEF Push
    <3>3. prec[p] \in Rec /\ prec[p].by = p /\ p # Writer
      BY <1>t, <1>c, <2>3, StoreAssumption DEF Push
    <3>4. CellsOf(prec[p]) \in Seq(Cell) /\ Queued(CellsOf(prec[p])) = <<prec[p]>>
      BY <3>3, CellsOfType, QueuedRecord
    <3>5. CASE RingCells - Len(ring) >= prec[p].len
      <4>1. ring' = ring \o CellsOf(prec[p]) /\ accepted' = Append(accepted, prec[p])
        BY <2>3, <3>5 DEF Push
      <4>2. Conservation'
        <5> SUFFICES ASSUME fileOpen, api # "opened", Exists(seq)
                     PROVE  Queued(files[seq].cells \o wbuf \o (ring \o CellsOf(prec[p])))
                              = Append(accepted, prec[p])
          BY <2>0, <4>1 DEF Conservation, Exists
        <5> DEFINE b == files[seq].cells \o wbuf
                   e == CellsOf(prec[p])
        <5>1. b \in Seq(Cell) /\ e \in Seq(Cell) /\ Queued(e) = <<prec[p]>>
          BY <1>t, <3>4
        <5>2. Queued(b \o ring) = accepted
          BY <1>c DEF Conservation
        <5> HIDE DEF b, e
        <5>6. ring \in Seq(Cell)
          BY <1>t
        <5>7. b \o (ring \o e) = (b \o ring) \o e
          BY <5>1, <5>6, ConcatAssociative
        <5>8. b \o ring \in Seq(Cell)
          BY <5>1, <5>6, ConcatProperties
        <5>3. b \o (ring \o e) = (b \o ring) \o e /\ b \o ring \in Seq(Cell)
          BY <5>7, <5>8
        <5>4. Queued(b \o (ring \o e)) = accepted \o <<prec[p]>>
          BY <5>1, <5>2, <5>3, QueuedConcat
        <5>5. accepted \o <<prec[p]>> = Append(accepted, prec[p])
          BY <1>t, <3>3, AppendIsConcat
        <5> QED  BY <5>4, <5>5 DEF b, e
      <4> QED  BY <1>c, <2>0, <3>1, <3>2, <4>2 DEF ConsInv
    <3>6. CASE ~(RingCells - Len(ring) >= prec[p].len)
      <4>1. UNCHANGED <<ring, accepted>>
        BY <2>3, <3>6 DEF Push
      <4>2. Conservation'
        BY <1>c, <2>0, <4>1, ConsKept DEF Exists
      <4> QED  BY <1>c, <2>0, <3>1, <3>2, <4>2 DEF ConsInv
    <3> QED  BY <3>5, <3>6
  <2> QED  BY <1>14, <2>1, <2>2, <2>3 DEF ProducerStep
<1>15. CASE UNCHANGED vars
  <2>1. UNCHANGED <<files, seq, fileOpen, api, wbuf, wpc, ring, accepted, ppc, prec>>
    BY <1>15 DEF vars
  <2>2. Conservation'
    BY <1>c, <2>1, ConsKept DEF Exists
  <2> QED  BY <1>c, <1>p, <2>1, <2>2 DEF ConsInv
<1> QED
  BY <1>1, <1>2, <1>3, <1>4, <1>5, <1>6, <1>7, <1>8, <1>9, <1>10, <1>11, <1>12, <1>13,
     <1>14, <1>15
  DEF Next, ApiStep, WriterStep

\* No accepted record is lost, doubled or put out of place between store_write() and
\* the file, for every size of the ring and of the drains and any number of producers.
THEOREM NothingLost == Spec => []Conservation
<1>1. ConsInv => Conservation
  BY DEF ConsInv
<1> QED
  BY <1>1, TypeInit, TypeStep, HandOverInit, HandOverStep, ConsInit, ConsStep, PTL DEF Spec

-----------------------------------------------------------------------------
(***************************************************************************)
(* store_end() leaves nothing behind.                                      *)
(*                                                                         *)
(* The drain after the stop flag was seen starts with at most a full ring, *)
(* nothing is added to it while producers are quiet, and each pass takes   *)
(* DRAIN_BYTES away: what is left at pass i fits into the passes to come.  *)
(* So the ring is empty when the writer exits, which with ConsInv puts     *)
(* what was accepted into the file.                                        *)
(***************************************************************************)
Left(i) == (DrainPasses - i) * DrainCells

Ended == api \in {"ending", "joining", "joined"}

EndInv ==
  /\ Len(ring) <= RingCells
  /\ Ended => \A p \in Producers : ppc[p] = "idle"
  /\ api \in {"joining", "joined"} => owed = accepted
  /\ active \/ api \in {"launched", "ending"} => wpc # "none"
  /\ api = "ready" => ~stopReq
  /\ wpc # "none" /\ stopReq => api = "joining"
  /\ wpc # "none" /\ stopping => stopReq
  /\ wpc \in {"pop", "write"} /\ wret = "decide" => stopping
  /\ wpc = "exit" => stopping
  /\ wpc = "pop" /\ wret = "decide" => Len(ring) <= Left(pass)
  /\ wpc = "write" /\ wret = "decide" => Len(ring) <= Left(pass + 1)
  /\ wpc = "decide" /\ stopping => ring = <<>>
  /\ wpc = "exit" \/ api = "joined" \/ (api = "joining" /\ wpc = "none") => ring = <<>>

LEMMA LeftBounds ==
  /\ \A i \in 0 .. DrainPasses : Left(i) \in Nat
  /\ \A i \in 0 .. DrainPasses : i < DrainPasses => Left(i) = Left(i + 1) + DrainCells
  /\ Left(0) = DrainPasses * DrainCells /\ Left(DrainPasses) = 0
<1>1. DrainCells \in Nat /\ DrainPasses \in Nat
  BY StoreAssumption
<1>2. \A k, d \in Nat : k * d \in Nat /\ (k + 1) * d = k * d + d
  OBVIOUS
<1>3. ASSUME NEW i \in 0 .. DrainPasses
      PROVE  Left(i) \in Nat /\ (i < DrainPasses => Left(i) = Left(i + 1) + DrainCells)
  <2>1. DrainPasses - i \in Nat
    BY <1>1
  <2>2. Left(i) \in Nat
    BY <1>1, <1>2, <2>1 DEF Left
  <2>3. ASSUME i < DrainPasses
        PROVE  Left(i) = Left(i + 1) + DrainCells
    <3> DEFINE k == DrainPasses - (i + 1)
    <3>1. k \in Nat /\ DrainPasses - i = k + 1
      BY <1>1, <2>3
    <3>2. (k + 1) * DrainCells = k * DrainCells + DrainCells
      BY <1>1, <1>2, <3>1
    <3> QED  BY <3>1, <3>2 DEF Left
  <2> QED  BY <2>2, <2>3
<1>4. Left(0) = DrainPasses * DrainCells /\ Left(DrainPasses) = 0
  <2>1. DrainPasses - 0 = DrainPasses /\ DrainPasses - DrainPasses = 0 /\ 0 * DrainCells = 0
    BY <1>1
  <2> QED  BY <2>1 DEF Left
<1> QED  BY <1>3, <1>4

\* A full ring fits into one drain_pass().
LEMMA RingDrained == ASSUME TypeOK PROVE RingCells <= Left(0)
<1>1. PICK p \in Producers : TRUE
  BY StoreAssumption
<1>2. prec[p].len \in Lens
  BY <1>1 DEF TypeOK, Rec
<1> DEFINE l == prec[p].len
           n == Cardinality(Producers)
<1>3. l \in Lens /\ l \in Nat /\ n \in Nat
  BY <1>2, StoreAssumption, FS_CardinalityType
<1>4. DrainPasses * DrainCells >= RingCells + n * l + 0 * (DrainCells - 1)
  <2>1. 0 \in 0 .. n
    BY <1>3
  <2> QED  BY <1>3, <2>1, DrainAssumption
<1> HIDE DEF l, n
<1>5. n * l \in Nat /\ 0 * (DrainCells - 1) = 0 /\ RingCells \in Nat
  BY <1>3, StoreAssumption
<1>6. DrainPasses * DrainCells \in Nat
  BY Drains
<1> QED  BY <1>4, <1>5, <1>6, LeftBounds

LEMMA CellsOfLen == \A r \in Rec : r.len \in Nat /\ Len(CellsOf(r)) = r.len
<1> SUFFICES ASSUME NEW r \in Rec
             PROVE  r.len \in Nat /\ Len(CellsOf(r)) = r.len
  OBVIOUS
<1>1. r.len \in Nat
  BY StoreAssumption DEF Rec
<1>2. CellsOf(r) \in Seq(Cell) /\ DOMAIN CellsOf(r) = 1 .. r.len
  BY CellsOfType DEF CellsOf
<1> QED  BY <1>1, <1>2, LenProperties

LEMMA EndInit == Init => EndInv
<1> SUFFICES ASSUME Init
             PROVE  EndInv
  OBVIOUS
<1>1. ring = <<>> /\ Len(ring) = 0 /\ ~active /\ api = "idle" /\ wpc = "none"
  BY DEF Init
<1> QED  BY <1>1, StoreAssumption DEF EndInv, Ended

LEMMA EndStep ==
  ASSUME QuietEnd, TypeInv, HandOver, ConsInv, EndInv, [Next]_vars
  PROVE  EndInv'
<1> USE DEF EndInv, Ended, storeVars, writerVars, ringVars, prodVars, histVars
<1>t. /\ TypeOK /\ ring \in Seq(Cell) /\ Len(ring) \in Nat /\ pass \in 0 .. DrainPasses
      /\ RingCells \in Nat /\ DrainPasses \in Nat \ {0} /\ DrainCells \in Nat \ {0}
      /\ prec \in [Producers -> Rec] /\ active \in BOOLEAN /\ stopping \in BOOLEAN
      /\ ppc \in [Producers -> {"idle", "called", "active", "push", "pushed"}]
  BY StoreAssumption DEF TypeInv, TypeOK
<1>e. Len(<<>>) = 0 /\ Len(<<>>) <= RingCells
  BY <1>t
\* Between two captures, and while one is opened, there is no writer.
<1>1. CASE BeginOpen \/ BeginFail \/ EndClose
  <2>1. /\ wpc = "none" /\ wpc' = "none" /\ ~active' /\ api' \in {"idle", "opened"}
        /\ ring' = ring \/ ring' = <<>>
    BY <1>1 DEF BeginOpen, BeginFail, EndClose, HandOver
  <2> QED  BY <1>e, <2>1
<1>2. CASE BeginHeader
  <2>1. wpc' = "none" /\ ~active' /\ api' = "ready" /\ ring' = <<>>
    BY <1>2 DEF BeginHeader, HandOver
  <2>2. ~stopReq'
    BY <1>2 DEF BeginHeader
  <2> QED  BY <1>e, <2>1, <2>2
<1>3. CASE BeginLaunch
  <2>1. /\ wpc' = "pop" /\ wret' = "flag" /\ ~stopping' /\ ~active' /\ api' = "launched"
        /\ ring' = ring
    BY <1>3 DEF BeginLaunch, HandOver
  <2>2. ~stopReq'
    BY <1>3 DEF BeginLaunch
  <2> QED  BY <2>1, <2>2
<1>4. CASE BeginActivate
  BY <1>4 DEF BeginActivate
<1>5. CASE EndCall
  <2>1. \A p \in Producers : ppc[p] = "idle"
    BY <1>5 DEF EndCall, InFlight
  <2> QED  BY <1>5, <2>1 DEF EndCall, HandOver
<1>6. CASE EndRequest
  BY <1>6 DEF EndRequest
<1>7. CASE EndJoin
  BY <1>7 DEF EndJoin, HandOver
<1>8. CASE SetAddrs \/ RemoveAny \/ UNCHANGED vars
  <2>1. UNCHANGED <<ring, api, ppc, owed, accepted, active, wpc, wret, pass, stopping, stopReq>>
    BY <1>8 DEF SetAddrs, RemoveAny, RemoveOne, RemoveAll, RemoveStep, vars
  <2> QED  BY <2>1
<1>9. CASE WriterPop
  <2>1. /\ UNCHANGED <<api, ppc, owed, accepted, active, wret, stopping, stopReq>>
        /\ wpc = "pop"
    BY <1>9 DEF WriterPop
  <2>2. CASE pass < DrainPasses /\ ring # <<>>
    <3> DEFINE n == IF Len(ring) < DrainCells THEN Len(ring) ELSE DrainCells
    <3>1. /\ n \in 0 .. Len(ring) /\ n + 1 \in 1 .. Len(ring) + 1
          /\ Len(ring) - n = 0 \/ Len(ring) - n = Len(ring) - DrainCells
      BY <1>t
    <3>2. wpc' = "write" /\ ring' = SubSeq(ring, n + 1, Len(ring)) /\ pass' = pass
      BY <1>9, <2>2 DEF WriterPop
    <3> HIDE DEF n
    <3>3. Len(ring') = Len(ring) - n
      BY <1>t, <3>1, <3>2, SubSeqProperties
    <3>4. Len(ring') <= RingCells
      BY <1>t, <3>1, <3>3
    <3>5. wret = "decide" => Len(ring') <= Left(pass + 1)
      <4> SUFFICES ASSUME wret = "decide"
                   PROVE  Len(ring') <= Left(pass + 1)
        OBVIOUS
      <4>1. Len(ring) <= Left(pass)
        BY <2>1
      <4>2. pass + 1 \in 0 .. DrainPasses /\ Left(pass) = Left(pass + 1) + DrainCells
        BY <1>t, <2>2, LeftBounds
      <4>3. Left(pass + 1) \in Nat
        BY <4>2, LeftBounds
      <4> QED  BY <1>t, <3>1, <3>3, <4>1, <4>2, <4>3
    <3>6. api # "joined"
      BY <2>1 DEF HandOver
    <3> QED  BY <2>1, <3>2, <3>4, <3>5, <3>6
  <2>3. CASE ~(pass < DrainPasses /\ ring # <<>>)
    <3>1. wpc' = wret /\ pass' = 0 /\ ring' = ring
      BY <1>9, <2>3 DEF WriterPop
    <3>2. wret = "decide" => ring = <<>>
      <4> SUFFICES ASSUME wret = "decide", ring # <<>>
                   PROVE  FALSE
        OBVIOUS
      <4>1. pass = DrainPasses
        BY <1>t, <2>3
      <4>2. Len(ring) <= 0
        BY <2>1, <4>1, LeftBounds
      <4> QED  BY <1>t, <4>2, EmptySeq
    <3>3. wret \in {"flag", "decide", "event"} /\ api # "joined"
      BY <2>1 DEF HandOver, TypeInv, TypeOK
    <3> QED  BY <2>1, <3>1, <3>2, <3>3
  <2> QED  BY <2>2, <2>3
<1>10. CASE WriterWrite
  <2>1. /\ UNCHANGED <<api, ppc, owed, accepted, active, wret, stopping, stopReq, ring>>
        /\ wpc = "write" /\ wpc' = "pop" /\ pass' = pass + 1
    BY <1>10 DEF WriterWrite
  <2> QED  BY <2>1
<1>11. CASE WriterReadStop
  <2>1. /\ UNCHANGED <<api, ppc, owed, accepted, active, stopReq, ring>>
        /\ wpc = "flag" /\ stopping' = stopReq
    BY <1>11 DEF WriterReadStop
  <2>2. CASE stopReq
    <3>1. wpc' = "pop" /\ wret' = "decide" /\ pass' = 0
      BY <1>11, <2>2 DEF WriterReadStop, Drain
    <3>2. Len(ring) <= Left(0)
      BY <1>t, RingDrained, LeftBounds
    <3> QED  BY <2>1, <2>2, <3>1, <3>2 DEF HandOver
  <2>3. CASE ~stopReq
    <3>1. wpc' = "decide"
      BY <1>11, <2>3 DEF WriterReadStop
    <3> QED  BY <2>1, <2>3, <3>1 DEF HandOver
  <2> QED  BY <2>2, <2>3
<1>12. CASE WriterNoSync \/ WriterSpaceLeft \/ WriterSpaceLow \/ WriterEventSync
  <2>1. /\ UNCHANGED <<api, ppc, owed, accepted, active, stopping, stopReq, ring>>
        /\ wpc # "none" /\ wpc' = "pop" /\ wret' # "decide"
    BY <1>12 DEF WriterNoSync, WriterSpaceLeft, WriterSpaceLow, WriterEventSync, Drain
  <2> QED  BY <2>1 DEF HandOver
<1>13. CASE WriterSync \/ WriterEvent
  <2>1. /\ UNCHANGED <<api, ppc, owed, accepted, active, stopping, stopReq, ring>>
        /\ wpc \in {"decide", "event"} /\ wpc' \in {"exit", "space", "eventsync"}
        /\ wpc' = "exit" => stopping /\ wpc = "decide"
    BY <1>13 DEF WriterSync, WriterEvent
  <2> QED  BY <2>1 DEF HandOver
<1>14. CASE WriterExit
  <2>1. /\ UNCHANGED <<api, ppc, owed, accepted, active, stopping, stopReq, ring>>
        /\ wpc = "exit" /\ wpc' = "none"
    BY <1>14 DEF WriterExit
  <2>2. stopping /\ stopReq /\ api = "joining" /\ ~active
    BY <2>1 DEF HandOver
  <2> QED  BY <2>1, <2>2
<1>15. CASE PowerCut
  <2>1. /\ api' = "idle" /\ wpc' = "none" /\ ring' = <<>> /\ ~active'
    BY <1>15 DEF PowerCut
  <2> QED  BY <1>e, <2>1
<1>16. ASSUME NEW p \in Producers, ProducerStep(p)
       PROVE  EndInv'
  <2>1. UNCHANGED <<api, owed, active, wpc, wret, pass, stopping, stopReq>>
    BY <1>16 DEF ProducerStep, Stamp, CheckActive, CheckFull, Push, NoteT
  \* A producer that moves is not quiet, so the capture has not ended.
  <2>2. ~Ended
    BY <1>16 DEF ProducerStep, Stamp, CheckActive, CheckFull, Push, NoteT, HandOver
  <2>3. ~(wpc # "none" /\ stopping)
    BY <2>2
  <2>4. Len(ring') <= RingCells
    <3>1. CASE Push(p) /\ RingCells - Len(ring) >= prec[p].len
      <4>1. prec[p].len \in Nat /\ CellsOf(prec[p]) \in Seq(Cell)
            /\ Len(CellsOf(prec[p])) = prec[p].len
        BY <1>t, CellsOfType, CellsOfLen
      <4>2. ring' = ring \o CellsOf(prec[p])
        BY <3>1 DEF Push
      <4>3. Len(ring') = Len(ring) + prec[p].len
        <5>1. Len(ring \o CellsOf(prec[p])) = Len(ring) + Len(CellsOf(prec[p]))
          <6> DEFINE e == CellsOf(prec[p])
          <6>1. ring \in Seq(Cell) /\ e \in Seq(Cell)
            BY <1>t, <4>1
          <6> HIDE DEF e
          <6>2. Len(ring \o e) = Len(ring) + Len(e)
            BY <6>1, ConcatProperties
          <6> QED  BY <6>2
        <5> QED  BY <4>1, <4>2, <5>1
      <4> QED  BY <1>t, <3>1, <4>1, <4>3
    <3>2. CASE ~(Push(p) /\ RingCells - Len(ring) >= prec[p].len)
      <4>1. ring' = ring
        BY <1>16, <3>2 DEF ProducerStep, Stamp, CheckActive, CheckFull, Push, NoteT
      <4> QED  BY <4>1
    <3> QED  BY <3>1, <3>2
  <2>5. ~(wpc \in {"pop", "write"} /\ wret = "decide") /\ wpc # "exit"
    BY <2>3
  <2> QED  BY <2>1, <2>2, <2>3, <2>4, <2>5
<1> QED
  BY <1>1, <1>2, <1>3, <1>4, <1>5, <1>6, <1>7, <1>8, <1>9, <1>10, <1>11, <1>12, <1>13,
     <1>14, <1>15, <1>16
  DEF Next, ApiStep, WriterStep

\* Every record accepted before store_end() asked the writer to stop is in the file
\* when it has joined it, however full the ring was.
THEOREM EndLandsAll == QuietEnd => (Spec => []EndFlushes)
<1> SUFFICES ASSUME QuietEnd
             PROVE  Spec => []EndFlushes
  OBVIOUS
<1>1. TypeInv /\ HandOver /\ ConsInv /\ EndInv => EndFlushes
  <2> SUFFICES ASSUME TypeInv, HandOver, ConsInv, EndInv, api = "joined", Exists(seq)
               PROVE  IsPrefix(owed, Queued(files[seq].cells))
    BY DEF EndFlushes
  <2>1. wbuf = <<>> /\ ring = <<>> /\ owed = accepted /\ fileOpen
    BY DEF HandOver, ConsInv, EndInv
  <2>2. Queued(files[seq].cells \o wbuf \o ring) = accepted
    BY <2>1 DEF ConsInv, Conservation
  <2>3. files[seq].cells \in Seq(Cell)
    BY DEF TypeInv, TypeOK, File
  <2>4. (files[seq].cells \o <<>>) \o <<>> = files[seq].cells
    BY <2>3, ConcatEmptySeq
  <2>5. Queued(files[seq].cells) = owed
    BY <2>1, <2>2, <2>4
  <2> QED  BY <2>5 DEF IsPrefix
<1>2. TypeInv /\ HandOver /\ ConsInv /\ EndInv /\ [Next]_vars => EndInv'
  BY EndStep
<1> QED
  BY <1>1, <1>2, TypeInit, TypeStep, HandOverInit, HandOverStep, ConsInit, ConsStep, EndInit,
     PTL DEF Spec

-----------------------------------------------------------------------------
(***************************************************************************)
(* Framing: records laid end to end, and what is left of them when cells   *)
(* are cut off at the end or joined.                                       *)
(***************************************************************************)

\* Cell y stands right after cell x.
Follows(x, y) ==
  IF x.k = x.rec.len THEN y.k = 1 ELSE y.rec = x.rec /\ y.k = x.k + 1

LEMMA FramedIs ==
  ASSUME NEW a, a \in Seq(Cell)
  PROVE  Framed(a) <=> /\ Len(a) > 0 => a[1].k = 1
                       /\ \A i \in 2 .. Len(a) : Follows(a[i - 1], a[i])
<1>1. DOMAIN a = 1 .. Len(a) /\ Len(a) \in Nat
  OBVIOUS
<1>2. ASSUME Framed(a)
      PROVE  /\ Len(a) > 0 => a[1].k = 1
             /\ \A i \in 2 .. Len(a) : Follows(a[i - 1], a[i])
  <2>1. \A i \in 1 .. Len(a) : IF i = 1 \/ a[i - 1].k = a[i - 1].rec.len
                                THEN a[i].k = 1
                                ELSE a[i].rec = a[i - 1].rec /\ a[i].k = a[i - 1].k + 1
    BY <1>1, <1>2 DEF Framed
  <2>2. Len(a) > 0 => a[1].k = 1
    BY <1>1, <2>1
  <2>3. ASSUME NEW i \in 2 .. Len(a)
        PROVE  Follows(a[i - 1], a[i])
    <3>1. i \in 1 .. Len(a) /\ i # 1
      BY <1>1
    <3> QED  BY <2>1, <3>1 DEF Follows
  <2> QED  BY <2>2, <2>3
<1>3. ASSUME Len(a) > 0 => a[1].k = 1,
             \A i \in 2 .. Len(a) : Follows(a[i - 1], a[i])
      PROVE  Framed(a)
  <2> SUFFICES ASSUME NEW i \in 1 .. Len(a)
               PROVE  IF i = 1 \/ a[i - 1].k = a[i - 1].rec.len
                      THEN a[i].k = 1
                      ELSE a[i].rec = a[i - 1].rec /\ a[i].k = a[i - 1].k + 1
    BY <1>1 DEF Framed
  <2>1. CASE i = 1
    BY <1>1, <1>3, <2>1
  <2>2. CASE i # 1
    <3>1. i \in 2 .. Len(a)
      BY <1>1, <2>2
    <3>2. Follows(a[i - 1], a[i])
      BY <1>3, <3>1
    <3> QED  BY <2>2, <3>2 DEF Follows
  <2> QED  BY <2>1, <2>2
<1> QED  BY <1>2, <1>3

LEMMA EndsIs ==
  ASSUME NEW a, a \in Seq(Cell)
  PROVE  EndsWhole(a) <=> (Len(a) > 0 => a[Len(a)].k = a[Len(a)].rec.len)
<1>1. Len(a) \in Nat /\ (a = <<>> <=> Len(a) = 0)
  BY EmptySeq
<1> QED  BY <1>1 DEF EndsWhole, Last

LEMMA FramedEmpty == Framed(<<>>) /\ EndsWhole(<<>>)
BY DEF Framed, EndsWhole

\* What a concatenation is made of.
LEMMA Cells ==
  ASSUME NEW a, NEW b, a \in Seq(Cell), b \in Seq(Cell)
  PROVE  /\ a \o b \in Seq(Cell) /\ Len(a \o b) = Len(a) + Len(b)
         /\ Len(a) \in Nat /\ Len(b) \in Nat
         /\ \A i \in 1 .. Len(a) : (a \o b)[i] = a[i]
         /\ \A i \in 1 .. Len(b) : (a \o b)[Len(a) + i] = b[i]
<1>1. a \o b \in Seq(Cell)
  BY ConcatProperties
<1>2. Len(a \o b) = Len(a) + Len(b) /\ Len(a) \in Nat /\ Len(b) \in Nat
  OBVIOUS
<1>3. \A i \in 1 .. Len(a) : (a \o b)[i] = a[i]
  OBVIOUS
<1>4. \A i \in 1 .. Len(b) : (a \o b)[Len(a) + i] = b[i]
  OBVIOUS
<1> QED  BY <1>1, <1>2, <1>3, <1>4

LEMMA FramedConcat ==
  ASSUME NEW a, NEW b, a \in Seq(Cell), b \in Seq(Cell),
         Framed(a), EndsWhole(a), Framed(b)
  PROVE  Framed(a \o b)
<1> DEFINE c == a \o b
<1>1. /\ c \in Seq(Cell) /\ Len(c) = Len(a) + Len(b) /\ Len(a) \in Nat /\ Len(b) \in Nat
      /\ \A i \in 1 .. Len(a) : c[i] = a[i]
      /\ \A i \in 1 .. Len(b) : c[Len(a) + i] = b[i]
  BY Cells
<1>2. /\ Len(a) > 0 => a[1].k = 1 /\ a[Len(a)].k = a[Len(a)].rec.len
      /\ \A i \in 2 .. Len(a) : Follows(a[i - 1], a[i])
  BY FramedIs, EndsIs
<1>3. /\ Len(b) > 0 => b[1].k = 1
      /\ \A i \in 2 .. Len(b) : Follows(b[i - 1], b[i])
  BY FramedIs
<1> HIDE DEF c
<1>4. Len(c) > 0 => c[1].k = 1
  <2>1. CASE Len(a) > 0
    BY <1>1, <1>2, <2>1
  <2>2. CASE Len(a) = 0 /\ Len(b) > 0
    <3>1. c[Len(a) + 1] = b[1] /\ Len(a) + 1 = 1
      BY <1>1, <2>2
    <3> QED  BY <1>3, <2>2, <3>1
  <2> QED  BY <1>1, <2>1, <2>2
<1>5. ASSUME NEW i \in 2 .. Len(c)
      PROVE  Follows(c[i - 1], c[i])
  <2>1. CASE i <= Len(a)
    BY <1>1, <1>2, <2>1
  <2>2. CASE i = Len(a) + 1
    <3>1. c[i] = b[1] /\ c[i - 1] = a[Len(a)] /\ Len(a) > 0 /\ Len(b) > 0
      BY <1>1, <2>2
    <3> QED  BY <1>2, <1>3, <3>1 DEF Follows
  <2>3. CASE i > Len(a) + 1
    <3> DEFINE j == i - Len(a)
    <3>1. j \in 2 .. Len(b) /\ j - 1 \in 1 .. Len(b) /\ i = Len(a) + j /\ i - 1 = Len(a) + (j - 1)
      BY <1>1, <2>3
    <3> HIDE DEF j
    <3>2. c[Len(a) + j] = b[j] /\ c[Len(a) + (j - 1)] = b[j - 1]
      <4>1. j \in 1 .. Len(b)
        BY <1>1, <3>1
      <4> QED  BY <1>1, <3>1, <4>1
    <3>3. Follows(b[j - 1], b[j])
      BY <1>3, <3>1
    <3> QED  BY <3>1, <3>2, <3>3
  <2> QED  BY <1>1, <2>1, <2>2, <2>3
<1>6. Framed(c)
  BY <1>1, <1>4, <1>5, FramedIs
<1> QED  BY <1>6 DEF c

LEMMA FramedFront ==
  ASSUME NEW a, NEW b, a \in Seq(Cell), b \in Seq(Cell), Framed(a \o b)
  PROVE  Framed(a)
<1> DEFINE c == a \o b
<1>1. /\ c \in Seq(Cell) /\ Len(c) = Len(a) + Len(b) /\ Len(a) \in Nat /\ Len(b) \in Nat
      /\ \A i \in 1 .. Len(a) : c[i] = a[i]
  BY Cells
<1>2. /\ Len(c) > 0 => c[1].k = 1
      /\ \A i \in 2 .. Len(c) : Follows(c[i - 1], c[i])
  BY <1>1, FramedIs
<1> HIDE DEF c
<1>3. Len(a) > 0 => a[1].k = 1
  BY <1>1, <1>2
<1>4. ASSUME NEW i \in 2 .. Len(a)
      PROVE  Follows(a[i - 1], a[i])
  <2>1. i \in 2 .. Len(c) /\ c[i] = a[i] /\ c[i - 1] = a[i - 1]
    BY <1>1
  <2>2. Follows(c[i - 1], c[i])
    BY <1>2, <2>1
  <2> QED  BY <2>1, <2>2
<1> QED  BY <1>3, <1>4, FramedIs

LEMMA FramedBack ==
  ASSUME NEW a, NEW b, a \in Seq(Cell), b \in Seq(Cell), Framed(a \o b), EndsWhole(a)
  PROVE  Framed(b)
<1> DEFINE c == a \o b
<1>1. /\ c \in Seq(Cell) /\ Len(c) = Len(a) + Len(b) /\ Len(a) \in Nat /\ Len(b) \in Nat
      /\ \A i \in 1 .. Len(a) : c[i] = a[i]
      /\ \A i \in 1 .. Len(b) : c[Len(a) + i] = b[i]
  BY Cells
<1>2. /\ Len(c) > 0 => c[1].k = 1
      /\ \A i \in 2 .. Len(c) : Follows(c[i - 1], c[i])
      /\ Len(a) > 0 => a[Len(a)].k = a[Len(a)].rec.len
  BY <1>1, FramedIs, EndsIs
<1> HIDE DEF c
<1>3. Len(b) > 0 => b[1].k = 1
  <2> SUFFICES ASSUME Len(b) > 0
               PROVE  b[1].k = 1
    OBVIOUS
  <2>1. c[Len(a) + 1] = b[1]
    BY <1>1
  <2>2. CASE Len(a) = 0
    BY <1>1, <1>2, <2>1, <2>2
  <2>3. CASE Len(a) > 0
    <3>1. Len(a) + 1 \in 2 .. Len(c) /\ (Len(a) + 1) - 1 = Len(a) /\ c[Len(a)] = a[Len(a)]
      <4>1. Len(a) + 1 \in 2 .. Len(c)
        BY <1>1, <2>3
      <4>2. Len(a) \in 1 .. Len(a) /\ (Len(a) + 1) - 1 = Len(a)
        BY <1>1, <2>3
      <4> QED  BY <1>1, <4>1, <4>2
    <3>2. Follows(c[Len(a)], c[Len(a) + 1])
      BY <1>2, <3>1
    <3> QED  BY <1>2, <2>1, <2>3, <3>1, <3>2 DEF Follows
  <2> QED  BY <1>1, <2>2, <2>3
<1>4. ASSUME NEW j \in 2 .. Len(b)
      PROVE  Follows(b[j - 1], b[j])
  <2> DEFINE i == Len(a) + j
  <2>1. i \in 2 .. Len(c) /\ i - 1 = Len(a) + (j - 1) /\ j - 1 \in 1 .. Len(b)
    BY <1>1
  <2>2. c[Len(a) + j] = b[j] /\ c[Len(a) + (j - 1)] = b[j - 1]
    <3>1. j \in 1 .. Len(b)
      BY <1>1
    <3> QED  BY <1>1, <2>1, <3>1
  <2>3. Follows(c[i - 1], c[i])
    BY <1>2, <2>1
  <2>4. c[i] = b[j] /\ c[i - 1] = b[j - 1]
    BY <2>1, <2>2
  <2> QED  BY <2>3, <2>4
<1> QED  BY <1>3, <1>4, FramedIs

LEMMA EndsBack ==
  ASSUME NEW a, NEW b, a \in Seq(Cell), b \in Seq(Cell)
  PROVE  /\ EndsWhole(a \o b) => EndsWhole(b)
         /\ EndsWhole(b) /\ (b = <<>> => EndsWhole(a)) => EndsWhole(a \o b)
<1> DEFINE c == a \o b
<1>1. /\ c \in Seq(Cell) /\ Len(c) = Len(a) + Len(b) /\ Len(a) \in Nat /\ Len(b) \in Nat
      /\ \A i \in 1 .. Len(b) : c[Len(a) + i] = b[i]
  BY Cells
<1>2. CASE b = <<>>
  <2>1. a \o <<>> = a
    BY ConcatEmptySeq
  <2> QED  BY <1>2, <2>1, FramedEmpty
<1>3. CASE b # <<>>
  <2>1. Len(b) > 0
    BY <1>1, <1>3, EmptySeq
  <2>2. EndsWhole(c) <=> (Len(c) > 0 => c[Len(c)].k = c[Len(c)].rec.len)
    BY <1>1, EndsIs
  <2>3. EndsWhole(b) <=> (Len(b) > 0 => b[Len(b)].k = b[Len(b)].rec.len)
    BY EndsIs
  <2> HIDE DEF c
  <2>4. c[Len(c)] = b[Len(b)] /\ Len(c) > 0
    BY <1>1, <2>1
  <2>5. EndsWhole(c) <=> EndsWhole(b)
    BY <2>1, <2>2, <2>3, <2>4
  <2> QED  BY <1>3, <2>5 DEF c
<1> QED  BY <1>2, <1>3

LEMMA FramedPrefix ==
  ASSUME NEW a, a \in Seq(Cell), Framed(a), NEW n \in 0 .. Len(a)
  PROVE  Framed(SubSeq(a, 1, n))
<1> DEFINE b == SubSeq(a, 1, n)
<1>1. b \in Seq(Cell) /\ Len(b) = n /\ n \in Nat /\ \A i \in 1 .. n : b[i] = a[i]
  OBVIOUS
<1>2. /\ Len(a) > 0 => a[1].k = 1
      /\ \A i \in 2 .. Len(a) : Follows(a[i - 1], a[i])
  BY FramedIs
<1> HIDE DEF b
<1>3. Len(b) > 0 => b[1].k = 1
  BY <1>1, <1>2
<1>4. \A i \in 2 .. Len(b) : Follows(b[i - 1], b[i])
  BY <1>1, <1>2
<1>5. Framed(b)
  BY <1>1, <1>3, <1>4, FramedIs
<1> QED  BY <1>5 DEF b

LEMMA FramedRecord ==
  ASSUME NEW r \in Rec
  PROVE  Framed(CellsOf(r)) /\ EndsWhole(CellsOf(r))
<1> DEFINE c == CellsOf(r)
<1>1. r.len \in Nat \ {0}
  BY StoreAssumption DEF Rec
<1>2. c \in Seq(Cell) /\ Len(c) = r.len
  BY CellsOfType, CellsOfLen
<1>3. \A i \in 1 .. r.len : c[i] = [rec |-> r, k |-> i]
  BY DEF CellsOf
<1> HIDE DEF c
<1>4. ASSUME NEW i \in 1 .. r.len
      PROVE  c[i].rec = r /\ c[i].k = i
  <2>1. c[i] = [rec |-> r, k |-> i]
    BY <1>3
  <2> QED  BY <2>1
<1>5. Framed(c)
  <2>1. c[1].k = 1
    BY <1>1, <1>4
  <2>2. ASSUME NEW i \in 2 .. Len(c)
        PROVE  Follows(c[i - 1], c[i])
    <3>1. i - 1 \in 1 .. r.len /\ i \in 1 .. r.len /\ i - 1 # r.len
      BY <1>1, <1>2
    <3>2. c[i - 1].rec = r /\ c[i - 1].k = i - 1 /\ c[i].rec = r /\ c[i].k = i
      BY <1>4, <3>1
    <3> QED  BY <3>1, <3>2 DEF Follows
  <2> QED  BY <1>2, <2>1, <2>2, FramedIs
<1>6. EndsWhole(c)
  BY <1>1, <1>2, <1>4, EndsIs
<1> QED  BY <1>5, <1>6 DEF c

-----------------------------------------------------------------------------
(***************************************************************************)
(* The drain before the "storage full" event.                              *)
(*                                                                         *)
(* The event is written past the ring, so the file must end with a whole   *)
(* record when this drain is over.  A drain that finds the ring empty      *)
(* leaves the file whole; one that uses up its passes may not.  While it   *)
(* runs, only a producer that had checked s_full before can push, once: u  *)
(* of them are left.  s counts the passes that emptied the ring and moved  *)
(* less than DRAIN_BYTES; after each a push must have come, or the drain   *)
(* had ended.  So what is still to come after s of them is at most N + 1 - *)
(* s records, and DrainAssumption says that the passes suffice.            *)
(***************************************************************************)
N == Cardinality(Producers)

MaxLen == CHOOSE l \in Lens : \A m \in Lens : m <= l

\* Cells in a ring of n cells and in the records of u producers.
Coming(n, u) == n + u * MaxLen

Slack(s, i, n, u) ==
  /\ i * DrainCells + Coming(n, u) <= RingCells + N * MaxLen + s * (DrainCells - 1)
  /\ s >= 1 => Coming(n, u) <= (N + 1 - s) * MaxLen
  /\ s >= 1 => u + s <= N + 1 /\ (n > 0 => u + s <= N)

\* After i passes the ring holds n cells and u producers may still push.
HasSlack(i, n, u) == \E s \in 0 .. N + 1 : Slack(s, i, n, u)

LEMMA Longest ==
  ASSUME TypeOK
  PROVE  MaxLen \in Lens /\ MaxLen \in Nat \ {0} /\ \A l \in Lens : l <= MaxLen
<1>1. PICK p \in Producers : TRUE
  BY StoreAssumption
<1>2. prec[p].len \in Lens
  BY <1>1 DEF TypeOK, Rec
<1> DEFINE d == DrainPasses * DrainCells
           T == {d - l : l \in Lens}
<1>3. \A l \in Lens : l \in Nat /\ l <= d
  BY RecordDrained
<1>4. d \in Nat
  BY Drains
<1>5. T \subseteq Nat /\ T # {}
  <2> HIDE DEF d
  <2> QED  BY <1>2, <1>3, <1>4
<1>6. PICK n \in T : \A m \in T : n <= m
  <2> HIDE DEF T
  <2> QED  BY <1>5, NatMin
<1>7. PICK l \in Lens : n = d - l
  BY <1>6
<1>8. \A m \in Lens : m <= l
  <2> HIDE DEF d
  <2>1. ASSUME NEW m \in Lens
        PROVE  m <= l
    <3>1. d - m \in T
      OBVIOUS
    <3>2. d - l <= d - m
      BY <1>6, <1>7, <3>1
    <3> QED  BY <1>3, <1>4, <3>2
  <2> QED  BY <2>1
<1>9. MaxLen \in Lens /\ \A m \in Lens : m <= MaxLen
  BY <1>8 DEF MaxLen
<1> QED  BY <1>9, StoreAssumption

LEMMA Times ==
  /\ \A a, m \in Nat : a * m \in Nat /\ (a + 1) * m = a * m + m
  /\ \A a, b, m \in Nat : a <= b => a * m <= b * m
  /\ \A m \in Nat : 0 * m = 0
<1>1. \A a, m \in Nat : a * m \in Nat /\ (a + 1) * m = a * m + m
  OBVIOUS
<1>2. \A a, b, m \in Nat : a <= b => a * m <= b * m
  OBVIOUS
<1> QED  BY <1>1, <1>2

LEMMA Sizes ==
  ASSUME TypeOK
  PROVE  /\ N \in Nat /\ MaxLen \in Nat \ {0} /\ RingCells \in Nat /\ DrainCells \in Nat \ {0}
         /\ DrainCells - 1 \in Nat /\ N * MaxLen \in Nat
<1>1. N \in Nat
  BY StoreAssumption, FS_CardinalityType DEF N
<1>2. MaxLen \in Nat \ {0} /\ RingCells \in Nat /\ DrainCells \in Nat \ {0}
  BY StoreAssumption, Longest
<1>3. DrainCells - 1 \in Nat
  BY <1>2
<1>4. N * MaxLen \in Nat
  BY <1>1, <1>2, Times
<1> QED  BY <1>1, <1>2, <1>3, <1>4

LEMMA SlackStart ==
  ASSUME TypeOK, NEW n \in 0 .. RingCells, NEW u \in 0 .. N
  PROVE  HasSlack(0, n, u)
<1>1. N \in Nat /\ MaxLen \in Nat /\ RingCells \in Nat /\ DrainCells \in Nat \ {0}
      /\ DrainCells - 1 \in Nat /\ N * MaxLen \in Nat
  BY Sizes
<1>2. u * MaxLen \in Nat /\ u * MaxLen <= N * MaxLen
  BY <1>1, Times
<1>3. 0 * DrainCells = 0 /\ 0 * (DrainCells - 1) = 0
  BY <1>1, Times
<1>4. Slack(0, 0, n, u)
  BY <1>1, <1>2, <1>3 DEF Slack, Coming
<1> QED  BY <1>1, <1>4 DEF HasSlack

\* A pass that leaves something in the ring has moved DRAIN_BYTES.
LEMMA SlackFullPop ==
  ASSUME TypeOK, NEW i \in Nat, NEW n \in Nat, NEW u \in 0 .. N, HasSlack(i, n, u),
         n > DrainCells
  PROVE  HasSlack(i + 1, n - DrainCells, u)
<1>1. N \in Nat /\ MaxLen \in Nat /\ RingCells \in Nat /\ DrainCells \in Nat \ {0}
      /\ DrainCells - 1 \in Nat /\ N * MaxLen \in Nat
  BY Sizes
<1>2. PICK s \in 0 .. N + 1 : Slack(s, i, n, u)
  BY DEF HasSlack
<1>3. u * MaxLen \in Nat /\ s * (DrainCells - 1) \in Nat
  BY <1>1, Times
<1>4. i * DrainCells \in Nat /\ (i + 1) * DrainCells = i * DrainCells + DrainCells
  BY <1>1, Times
<1>5. (i + 1) * DrainCells + Coming(n - DrainCells, u)
        <= RingCells + N * MaxLen + s * (DrainCells - 1)
  BY <1>1, <1>2, <1>3, <1>4 DEF Slack, Coming
<1>6. s >= 1 => Coming(n - DrainCells, u) <= (N + 1 - s) * MaxLen
  <2> SUFFICES ASSUME s >= 1
               PROVE  Coming(n - DrainCells, u) <= (N + 1 - s) * MaxLen
    OBVIOUS
  <2>1. N + 1 - s \in Nat /\ (N + 1 - s) * MaxLen \in Nat
    BY <1>1, Times
  <2> QED  BY <1>1, <1>2, <1>3, <2>1 DEF Slack, Coming
<1>7. s >= 1 => u + s <= N + 1 /\ (n - DrainCells > 0 => u + s <= N)
  BY <1>1, <1>2 DEF Slack
<1> QED  BY <1>5, <1>6, <1>7 DEF HasSlack, Slack

\* A pass that empties the ring may have moved less.
LEMMA SlackLastPop ==
  ASSUME TypeOK, NEW i \in Nat, NEW n \in Nat, NEW u \in 0 .. N, HasSlack(i, n, u),
         n > 0, n <= DrainCells
  PROVE  HasSlack(i + 1, 0, u)
<1>1. N \in Nat /\ MaxLen \in Nat /\ RingCells \in Nat /\ DrainCells \in Nat \ {0}
      /\ DrainCells - 1 \in Nat /\ N * MaxLen \in Nat
  BY Sizes
<1>2. PICK s \in 0 .. N + 1 : Slack(s, i, n, u)
  BY DEF HasSlack
<1>3. u * MaxLen \in Nat /\ s * (DrainCells - 1) \in Nat
      /\ (s + 1) * (DrainCells - 1) = s * (DrainCells - 1) + (DrainCells - 1)
  BY <1>1, Times
<1>4. i * DrainCells \in Nat /\ (i + 1) * DrainCells = i * DrainCells + DrainCells
  BY <1>1, Times
<1>5. (i + 1) * DrainCells + Coming(0, u)
        <= RingCells + N * MaxLen + (s + 1) * (DrainCells - 1)
  <2>1. i * DrainCells + (n + u * MaxLen) <= RingCells + N * MaxLen + s * (DrainCells - 1)
    BY <1>2 DEF Slack, Coming
  <2> QED  BY <1>1, <1>3, <1>4, <2>1 DEF Coming
<1>6. u + s <= N
  BY <1>1, <1>2 DEF Slack
<1>7. s + 1 \in 0 .. N + 1 /\ u <= N + 1 - (s + 1) /\ N + 1 - (s + 1) \in Nat
  BY <1>1, <1>6
<1>8. Coming(0, u) <= (N + 1 - (s + 1)) * MaxLen
  <2>1. u * MaxLen <= (N + 1 - (s + 1)) * MaxLen
    BY <1>1, <1>7, Times
  <2> QED  BY <1>3, <2>1 DEF Coming
<1>9. u + (s + 1) <= N + 1 /\ (0 > 0 => u + (s + 1) <= N)
  BY <1>1, <1>6
<1>10. Slack(s + 1, i + 1, 0, u)
  BY <1>5, <1>8, <1>9 DEF Slack
<1> QED  BY <1>7, <1>10 DEF HasSlack

\* A producer is decided: it pushed its record of l cells, or there was no room.
LEMMA SlackPush ==
  ASSUME TypeOK, NEW i \in Nat, NEW n \in Nat, NEW u \in 1 .. N, HasSlack(i, n, u),
         NEW l \in 0 .. MaxLen
  PROVE  HasSlack(i, n + l, u - 1) /\ Coming(n + l, u - 1) <= Coming(n, u)
<1>1. N \in Nat /\ MaxLen \in Nat /\ RingCells \in Nat /\ DrainCells \in Nat \ {0}
      /\ DrainCells - 1 \in Nat /\ N * MaxLen \in Nat
  BY Sizes
<1>2. PICK s \in 0 .. N + 1 : Slack(s, i, n, u)
  BY DEF HasSlack
<1>3. (u - 1) * MaxLen \in Nat /\ u * MaxLen = (u - 1) * MaxLen + MaxLen
  <2>1. u - 1 \in Nat /\ (u - 1) + 1 = u
    BY <1>1
  <2> QED  BY <1>1, <2>1, Times
<1>4. /\ Coming(n + l, u - 1) \in Nat /\ Coming(n, u) \in Nat
      /\ Coming(n + l, u - 1) <= Coming(n, u)
  BY <1>1, <1>3 DEF Coming
<1>5. i * DrainCells \in Nat /\ s * (DrainCells - 1) \in Nat
  BY <1>1, Times
<1>6. i * DrainCells + Coming(n + l, u - 1)
        <= RingCells + N * MaxLen + s * (DrainCells - 1)
  BY <1>1, <1>2, <1>4, <1>5 DEF Slack
<1>7. s >= 1 => Coming(n + l, u - 1) <= (N + 1 - s) * MaxLen
  <2> SUFFICES ASSUME s >= 1
               PROVE  Coming(n + l, u - 1) <= (N + 1 - s) * MaxLen
    OBVIOUS
  <2>1. N + 1 - s \in Nat /\ (N + 1 - s) * MaxLen \in Nat
    BY <1>1, Times
  <2> QED  BY <1>2, <1>4, <2>1 DEF Slack
<1>8. s >= 1 => (u - 1) + s <= N + 1 /\ (n + l > 0 => (u - 1) + s <= N)
  BY <1>1, <1>2 DEF Slack
<1>9. Slack(s, i, n + l, u - 1)
  BY <1>6, <1>7, <1>8 DEF Slack
<1> QED  BY <1>4, <1>9 DEF HasSlack

\* A pass that leaves a record torn has enough passes to come.
LEMMA SlackTorn ==
  ASSUME TypeOK, NEW i \in 0 .. DrainPasses, NEW n \in Nat, NEW u \in 0 .. N,
         HasSlack(i, n, u), i = 0 \/ n > DrainCells, i = 0 => n <= RingCells
  PROVE  Coming(n, u) <= Left(i)
<1>1. N \in Nat /\ MaxLen \in Nat /\ RingCells \in Nat /\ DrainCells \in Nat \ {0}
      /\ DrainCells - 1 \in Nat /\ N * MaxLen \in Nat /\ DrainPasses \in Nat
  BY Sizes, StoreAssumption
<1>2. PICK s \in 0 .. N + 1 : Slack(s, i, n, u)
  BY DEF HasSlack
<1>3. u * MaxLen \in Nat /\ s * (DrainCells - 1) \in Nat /\ Coming(n, u) \in Nat
  BY <1>1, Times DEF Coming
<1>4. Left(i) = DrainPasses * DrainCells - i * DrainCells /\ i * DrainCells \in Nat
  BY <1>1 DEF Left
<1>5. DrainPasses * DrainCells \in Nat
  BY Drains
<1>6. ASSUME NEW k \in 0 .. N, k = 0 \/ (N + 1 - k) * MaxLen > DrainCells
      PROVE  DrainPasses * DrainCells >= RingCells + N * MaxLen + k * (DrainCells - 1)
  BY <1>6, Longest, DrainAssumption DEF N
<1>7. CASE s \in 0 .. N /\ (s = 0 \/ (N + 1 - s) * MaxLen > DrainCells)
  <2>1. DrainPasses * DrainCells >= RingCells + N * MaxLen + s * (DrainCells - 1)
    BY <1>6, <1>7
  <2>2. i * DrainCells + Coming(n, u) <= RingCells + N * MaxLen + s * (DrainCells - 1)
    BY <1>2 DEF Slack
  <2> QED  BY <1>1, <1>3, <1>4, <1>5, <2>1, <2>2
<1>8. CASE ~(s \in 0 .. N /\ (s = 0 \/ (N + 1 - s) * MaxLen > DrainCells))
  <2>1. s >= 1
    BY <1>1, <1>8
  <2>2. N + 1 - s \in Nat /\ (N + 1 - s) * MaxLen \in Nat
    BY <1>1, <2>1, Times
  <2>3. (N + 1 - s) * MaxLen <= DrainCells
    <3>1. CASE s = N + 1
      <4>1. N + 1 - s = 0
        BY <1>1, <3>1
      <4>2. 0 * MaxLen = 0
        BY <1>1, Times
      <4> QED  BY <1>1, <4>1, <4>2
    <3>2. CASE s # N + 1
      <4>1. s \in 0 .. N
        BY <1>1, <3>2
      <4> QED  BY <1>1, <1>8, <2>1, <2>2, <4>1
    <3> QED  BY <3>1, <3>2
  <2>4. Coming(n, u) <= DrainCells
    BY <1>1, <1>2, <1>3, <2>1, <2>2, <2>3 DEF Slack
  <2>5. n <= DrainCells
    BY <1>1, <1>3, <2>4 DEF Coming
  <2>6. i = 0
    BY <1>1, <2>5
  <2>7. 0 \in 0 .. N
    BY <1>1
  <2>8. DrainPasses * DrainCells >= RingCells + N * MaxLen + 0 * (DrainCells - 1)
    BY <1>6, <2>7
  <2>9. 0 * (DrainCells - 1) = 0 /\ 0 * DrainCells = 0
    BY <1>1, Times
  <2>10. u * MaxLen <= N * MaxLen
    BY <1>1, Times
  <2> QED  BY <1>1, <1>3, <1>4, <1>5, <2>6, <2>8, <2>9, <2>10 DEF Coming
<1> QED  BY <1>7, <1>8

-----------------------------------------------------------------------------
(***************************************************************************)
(* A host can walk every file.                                             *)
(*                                                                         *)
(* What the file, the writer's buffer and the ring hold together is framed *)
(* and ends with a whole record; the file alone is a prefix of it.  The    *)
(* event of a full partition is the one write past the ring, and EventInv  *)
(* says why no record is torn there.                                       *)
(***************************************************************************)
Pushing == {p \in Producers : ppc[p] = "push"}

InRing == Len(ring)
U == Cardinality(Pushing)

\* The file's last record is torn, whatever the buffer holds.
Torn == Exists(seq) /\ ~EndsWhole(files[seq].cells \o wbuf)

EventDrain == wret = "event" /\ wpc \in {"pop", "write"}

\* The passes whose cells have left the ring.
Moved == IF wpc = "pop" THEN pass ELSE pass + 1

EventInv ==
  /\ EventDrain => full /\ HasSlack(Moved, InRing, U) /\ (Torn => Coming(InRing, U) <= Left(Moved))
  /\ wpc \in {"event"} => ~Torn

Streaming == fileOpen /\ api # "opened" /\ Exists(seq)

StreamInv ==
  Streaming => /\ Framed(files[seq].cells \o wbuf \o ring)
               /\ EndsWhole(files[seq].cells \o wbuf \o ring)
               /\ files[seq].hdr

LEMMA PushingSize == IsFiniteSet(Pushing) /\ U \in 0 .. N
<1>1. Pushing \subseteq Producers /\ IsFiniteSet(Producers)
  BY StoreAssumption DEF Pushing
<1>2. IsFiniteSet(Pushing) /\ Cardinality(Pushing) <= Cardinality(Producers)
  BY <1>1, FS_Subset
<1>3. Cardinality(Pushing) \in Nat /\ Cardinality(Producers) \in Nat
  BY <1>1, <1>2, FS_CardinalityType
<1> QED  BY <1>2, <1>3 DEF U, N

\* ring_pop() moves the first DRAIN_BYTES, or all there is.
LEMMA Pops ==
  ASSUME TypeInv, WriterPop, pass < DrainPasses, ring # <<>>, TypeInv'
  PROVE  /\ wbuf' \in Seq(Cell) /\ ring' \in Seq(Cell) /\ wbuf' \o ring' = ring
         /\ InRing \in Nat /\ InRing > 0
         /\ InRing > DrainCells => InRing' = InRing - DrainCells
         /\ InRing <= DrainCells => ring' = <<>> /\ InRing' = 0
<1>t. ring \in Seq(Cell) /\ Len(ring) \in Nat /\ DrainCells \in Nat \ {0}
  BY StoreAssumption DEF TypeInv, TypeOK
<1> DEFINE n == IF Len(ring) < DrainCells THEN Len(ring) ELSE DrainCells
<1>0. Len(ring) > 0
  BY <1>t, EmptySeq
<1>1. n \in 0 .. Len(ring) /\ Len(ring) \in n .. Len(ring) /\ 1 \in 1 .. Len(ring) + 1
      /\ n + 1 \in 1 .. Len(ring) + 1
  BY <1>t
<1>2. /\ Len(ring) > DrainCells => n = DrainCells
      /\ Len(ring) <= DrainCells => n = Len(ring)
  BY <1>t
<1>3. wbuf' = SubSeq(ring, 1, n) /\ ring' = SubSeq(ring, n + 1, Len(ring))
  BY DEF WriterPop
<1> HIDE DEF n
<1>4. wbuf' \o ring' = ring
  <2>1. SubSeq(ring, 1, n) \o SubSeq(ring, n + 1, Len(ring)) = SubSeq(ring, 1, Len(ring))
    <3>1. n \in 1 - 1 .. Len(ring) /\ Len(ring) \in n .. Len(ring)
      BY <1>1
    <3> QED  BY <1>t, <1>1, <3>1, ConcatAdjacentSubSeq
  <2>2. SubSeq(ring, 1, Len(ring)) = ring
    BY <1>t, SubSeqFull
  <2> QED  BY <1>3, <2>1, <2>2
<1>5. wbuf' \in Seq(Cell) /\ ring' \in Seq(Cell)
  BY DEF TypeInv, TypeOK
<1>6. Len(ring') = Len(ring) - n
  BY <1>t, <1>1, <1>3, SubSeqProperties
<1>7. Len(ring) > DrainCells => Len(ring') = Len(ring) - DrainCells
  BY <1>2, <1>6
<1>8. Len(ring) <= DrainCells => Len(ring') = 0
  BY <1>t, <1>2, <1>6
<1>9. Len(ring') = 0 => ring' = <<>>
  BY <1>5, EmptySeq
<1> QED  BY <1>t, <1>0, <1>4, <1>5, <1>7, <1>8, <1>9 DEF InRing

\* A step that neither pops nor pushes nor drains for the event keeps EventInv.
LEMMA EventKept ==
  ASSUME EventInv, UNCHANGED <<wret, wpc, pass, ring, wbuf, seq, full>>, Pushing' = Pushing,
         Exists(seq)' => Exists(seq) /\ files'[seq].cells = files[seq].cells
  PROVE  EventInv'
<1>1. Torn' => Torn
  BY DEF Torn
<1>2. EventDrain' = EventDrain /\ Moved' = Moved /\ InRing' = InRing /\ U' = U
  BY DEF EventDrain, Moved, InRing, U
<1> QED  BY <1>1, <1>2 DEF EventInv

LEMMA EventInit == Init => EventInv
BY DEF Init, EventInv, EventDrain

LEMMA EventStep ==
  ASSUME TypeInv, HandOver, ConsInv, EndInv, StreamInv, EventInv, [Next]_vars
  PROVE  EventInv'
<1> USE DEF storeVars, writerVars, ringVars, prodVars, histVars
<1>0. TypeInv'
  BY TypeStep
<1>t. /\ TypeOK /\ files \in [Seqs -> File] /\ seq \in Seqs /\ files[seq] \in File
      /\ files[seq].cells \in Seq(Cell) /\ wbuf \in Seq(Cell) /\ ring \in Seq(Cell)
      /\ pass \in 0 .. DrainPasses /\ full \in BOOLEAN /\ prec \in [Producers -> Rec]
      /\ wret \in {"flag", "decide", "event"} /\ DrainPasses \in Nat
      /\ ppc \in [Producers -> {"idle", "called", "active", "push", "pushed"}]
  BY StoreAssumption DEF TypeInv, TypeOK, File
<1>w. ASSUME NEW f, WriteFile(f), f.cells = files[seq].cells, f.st = files[seq].st
      PROVE  /\ files'[seq].cells = files[seq].cells
             /\ files'[seq].st = files[seq].st
  BY <1>t, <1>w DEF WriteFile
\* Where no drain for the event can follow.
<1>1. CASE /\ wpc' \notin {"pop", "write", "event"} \/ (wpc' = "pop" /\ wret' # "event")
  BY <1>1 DEF EventInv, EventDrain
<1>2. CASE BeginOpen \/ BeginHeader \/ BeginFail \/ EndClose
  <2>1. wpc' = "none"
    BY <1>2 DEF BeginOpen, BeginHeader, BeginFail, EndClose, HandOver
  <2> QED  BY <1>1, <2>1
<1>3. CASE BeginLaunch
  <2>1. wpc' = "pop" /\ wret' # "event"
    BY <1>3 DEF BeginLaunch
  <2> QED  BY <1>1, <2>1
<1>4. CASE BeginActivate \/ EndCall \/ EndRequest \/ EndJoin \/ UNCHANGED vars
  <2>1. UNCHANGED <<wret, wpc, pass, ring, wbuf, seq, full, ppc, files>>
    BY <1>4 DEF BeginActivate, EndCall, EndRequest, EndJoin, vars
  <2> QED  BY <2>1, EventKept DEF Pushing, Exists
<1>5. CASE SetAddrs
  <2>1. UNCHANGED <<wret, wpc, pass, ring, wbuf, seq, full, ppc>>
        /\ WriteFile(Synced(files[seq]))
    BY <1>5 DEF SetAddrs
  <2>2. Synced(files[seq]).cells = files[seq].cells /\ Synced(files[seq]).st = files[seq].st
    BY <1>t DEF Synced, File
  <2>3. files'[seq].cells = files[seq].cells /\ files'[seq].st = files[seq].st
    <3> DEFINE f == Synced(files[seq])
    <3>1. WriteFile(f) /\ f.cells = files[seq].cells /\ f.st = files[seq].st
      BY <2>1, <2>2
    <3> HIDE DEF f
    <3> QED  BY <1>w, <3>1
  <2> QED  BY <2>1, <2>3, EventKept DEF Pushing, Exists
<1>6. CASE RemoveAny
  <2>1. UNCHANGED <<wret, wpc, pass, ring, wbuf, seq, full, ppc>>
    BY <1>6 DEF RemoveAny, RemoveOne, RemoveAll, RemoveStep
  <2>2. files'[seq] = files[seq] \/ files'[seq] = Absent
    BY <1>6, <1>t DEF RemoveAny, RemoveOne, RemoveAll, RemoveStep
  <2>3. Exists(seq)' => Exists(seq) /\ files'[seq].cells = files[seq].cells
    BY <2>1, <2>2 DEF Exists, Absent
  <2> QED  BY <2>1, <2>3, EventKept DEF Pushing
<1>7. CASE WriterPop
  <2>1. /\ UNCHANGED <<files, seq, full, ppc, wret, api, fileOpen>> /\ wpc = "pop" /\ wbuf = <<>>
        /\ Pushing' = Pushing /\ U' = U
    BY <1>7 DEF WriterPop, ConsInv, Pushing, U
  <2>2. fileOpen /\ api # "opened"
    BY <2>1 DEF HandOver
  <2>3. CASE wret # "event"
    <3>1. wpc' \in {"write", "flag", "decide"} /\ wret' # "event"
      BY <1>7, <1>t, <2>1, <2>3 DEF WriterPop
    <3> QED  BY <3>1 DEF EventInv, EventDrain
  <2>4. CASE wret = "event" /\ pass < DrainPasses /\ ring # <<>>
    <3>1. wpc' = "write" /\ pass' = pass /\ wret' = "event"
      BY <1>7, <2>1, <2>4 DEF WriterPop
    <3>2. /\ wbuf' \in Seq(Cell) /\ ring' \in Seq(Cell) /\ wbuf' \o ring' = ring
          /\ InRing \in Nat /\ InRing > 0
          /\ InRing > DrainCells => InRing' = InRing - DrainCells
          /\ InRing <= DrainCells => ring' = <<>> /\ InRing' = 0
      BY <1>0, <1>7, <2>4, Pops
    <3>3. full /\ HasSlack(pass, InRing, U) /\ (Torn => Coming(InRing, U) <= Left(pass))
      BY <2>1, <2>4 DEF EventInv, EventDrain, Moved
    <3>4. U \in 0 .. N /\ pass \in Nat /\ Moved' = pass + 1
      BY <1>t, <3>1, PushingSize DEF Moved
    <3>5. CASE InRing > DrainCells
      <4>1. InRing' = InRing - DrainCells
        BY <3>2, <3>5
      <4>2. HasSlack(pass + 1, InRing - DrainCells, U)
        BY <1>t, <3>2, <3>3, <3>4, <3>5, SlackFullPop
      <4>3. Coming(InRing, U) <= Left(pass)
        BY <1>t, <3>2, <3>3, <3>4, <3>5, SlackTorn DEF EndInv, InRing
      <4>4. Coming(InRing - DrainCells, U) <= Left(pass + 1)
        <5>1. Left(pass) = Left(pass + 1) + DrainCells
          BY <1>t, <2>4, LeftBounds
        <5>2. Left(pass + 1) \in Nat
          <6>1. pass + 1 \in 0 .. DrainPasses
            BY <1>t, <2>4
          <6> QED  BY <6>1, LeftBounds
        <5>3. U * MaxLen \in Nat /\ DrainCells \in Nat
          BY <1>t, <3>4, Sizes, Times
        <5> QED  BY <3>2, <4>3, <5>1, <5>2, <5>3 DEF Coming
      <4> QED  BY <2>1, <3>1, <3>3, <3>4, <4>1, <4>2, <4>4 DEF EventInv, EventDrain
    <3>6. CASE ~(InRing > DrainCells)
      <4>1. InRing <= DrainCells
        BY <1>t, <3>2, <3>6, StoreAssumption
      <4>2. ring' = <<>> /\ InRing' = 0
        BY <3>2, <4>1
      <4>3. HasSlack(pass + 1, 0, U)
        BY <1>t, <3>2, <3>3, <3>4, <4>1, SlackLastPop
      <4>4. ~Torn'
        <5> SUFFICES ASSUME Exists(seq)
                     PROVE  EndsWhole(files[seq].cells \o wbuf')
          BY <2>1 DEF Torn, Exists
        <5>1. EndsWhole(files[seq].cells \o wbuf \o ring)
          BY <2>2 DEF StreamInv, Streaming
        <5>2. files[seq].cells \o wbuf = files[seq].cells
          BY <1>t, <2>1, ConcatEmptySeq
        <5>3. wbuf' \o <<>> = wbuf'
          BY <3>2, ConcatEmptySeq
        <5>4. wbuf' = ring
          BY <3>2, <4>2, <5>3
        <5> QED  BY <5>1, <5>2, <5>4
      <4> QED  BY <2>1, <3>1, <3>3, <3>4, <4>2, <4>3, <4>4 DEF EventInv, EventDrain
    <3> QED  BY <3>5, <3>6
  <2>5. CASE wret = "event" /\ ~(pass < DrainPasses /\ ring # <<>>)
    <3>1. wpc' = "event" /\ UNCHANGED <<wbuf, ring>>
      BY <1>7, <2>5 DEF WriterPop
    <3>2. ~Torn
      <4> SUFFICES ASSUME Torn
                   PROVE  FALSE
        OBVIOUS
      <4>1. Exists(seq) /\ ~EndsWhole(files[seq].cells \o wbuf)
        BY DEF Torn
      <4>2. EndsWhole((files[seq].cells \o wbuf) \o ring)
        BY <2>2, <4>1 DEF StreamInv, Streaming
      <4>3. files[seq].cells \o wbuf \in Seq(Cell)
        BY <1>t
      <4>4. ring # <<>>
        <5>1. (files[seq].cells \o wbuf) \o <<>> = files[seq].cells \o wbuf
          BY <4>3, ConcatEmptySeq
        <5> QED  BY <4>1, <4>2, <5>1
      <4>5. pass = DrainPasses
        BY <1>t, <2>5, <4>4
      <4>6. Coming(InRing, U) <= 0
        BY <2>1, <2>5, <4>5, LeftBounds DEF EventInv, EventDrain, Moved
      <4>7. InRing \in Nat /\ U * MaxLen \in Nat
        BY <1>t, PushingSize, Sizes, Times DEF InRing
      <4>8. Len(ring) = 0
        BY <4>6, <4>7 DEF Coming, InRing
      <4> QED  BY <1>t, <4>4, <4>8, EmptySeq
    <3>3. ~Torn'
      BY <2>1, <3>1, <3>2 DEF Torn, Exists
    <3> QED  BY <3>1, <3>3 DEF EventInv, EventDrain
  <2> QED  BY <2>3, <2>4, <2>5
<1>8. CASE WriterWrite
  <2>1. /\ UNCHANGED <<seq, full, ppc, wret, ring>> /\ wpc = "write" /\ wpc' = "pop"
        /\ pass' = pass + 1 /\ wbuf' = <<>> /\ Pushing' = Pushing /\ U' = U /\ InRing' = InRing
        /\ WriteFile([files[seq] EXCEPT !.cells = @ \o wbuf])
    BY <1>8 DEF WriterWrite, Pushing, U, InRing
  <2>2. Torn' => Torn
    <3> SUFFICES ASSUME Torn'
                 PROVE  Torn
      OBVIOUS
    <3>1. Exists(seq)
      BY <1>t, <2>1 DEF WriteFile, Exists, Torn
    <3>2. files'[seq].cells = files[seq].cells \o wbuf
      BY <1>t, <2>1, <3>1 DEF WriteFile, File
    <3>3. files[seq].cells \o wbuf \in Seq(Cell)
      BY <1>t
    <3>4. (files[seq].cells \o wbuf) \o <<>> = files[seq].cells \o wbuf
      BY <3>3, ConcatEmptySeq
    <3>5. ~EndsWhole(files'[seq'].cells \o wbuf')
      BY DEF Torn
    <3> QED  BY <2>1, <3>1, <3>2, <3>4, <3>5 DEF Torn
  <2>3. Moved' = Moved /\ (EventDrain' => EventDrain)
    BY <2>1 DEF Moved, EventDrain
  <2>4. wpc' # "event"
    BY <2>1
  <2> QED  BY <2>1, <2>2, <2>3, <2>4 DEF EventInv
<1>9. CASE WriterReadStop \/ WriterNoSync \/ WriterSpaceLeft \/ WriterEventSync
           \/ WriterSync \/ WriterEvent \/ WriterExit
  <2>1. wpc' \notin {"pop", "write", "event"} \/ (wpc' = "pop" /\ wret' # "event")
    BY <1>9 DEF WriterReadStop, WriterNoSync, WriterSpaceLeft, WriterEventSync, WriterSync,
                WriterEvent, WriterExit, Drain
  <2> QED  BY <1>1, <2>1
<1>10. CASE WriterSpaceLow
  <2>1. /\ wpc' = "pop" /\ pass' = 0 /\ full' = TRUE /\ UNCHANGED <<ring, ppc>>
        /\ InRing' = InRing /\ U' = U /\ Moved' = 0
    BY <1>10 DEF WriterSpaceLow, Drain, InRing, U, Pushing, Moved
  <2>2. InRing \in 0 .. RingCells /\ U \in 0 .. N
    BY <1>t, PushingSize, StoreAssumption DEF EndInv, InRing
  <2>3. HasSlack(0, InRing, U)
    BY <1>t, <2>2, SlackStart
  <2>4. Coming(InRing, U) <= Left(0)
    <3>1. 0 \in 0 .. DrainPasses /\ InRing \in Nat /\ InRing <= RingCells
      BY <1>t, <2>2, StoreAssumption
    <3> QED  BY <1>t, <2>2, <2>3, <3>1, SlackTorn
  <2> QED  BY <2>1, <2>3, <2>4 DEF EventInv
<1>11. CASE PowerCut
  <2>1. wpc' = "none"
    BY <1>11 DEF PowerCut
  <2> QED  BY <1>1, <2>1
<1>12. ASSUME NEW p \in Producers, ProducerStep(p)
       PROVE  EventInv'
  <2>1. UNCHANGED <<files, seq, wpc, wret, pass, wbuf>>
    BY <1>12 DEF ProducerStep, Stamp, CheckActive, CheckFull, Push, NoteT
  <2>2. CASE Stamp(p) \/ CheckActive(p) \/ NoteT(p)
    <3>1. Pushing' = Pushing
      BY <1>t, <2>2 DEF Stamp, CheckActive, NoteT, Pushing
    <3>2. UNCHANGED <<ring, full>>
      BY <2>2 DEF Stamp, CheckActive, NoteT
    <3> QED  BY <2>1, <3>1, <3>2, EventKept DEF Exists
  <2>3. CASE CheckFull(p)
    <3>1. UNCHANGED <<ring, full>>
      BY <2>3 DEF CheckFull
    <3>2. CASE full
      <4>1. Pushing' = Pushing
        BY <1>t, <2>3, <3>2 DEF CheckFull, Pushing
      <4> QED  BY <2>1, <3>1, <4>1, EventKept DEF Exists
    <3>3. CASE ~full
      <4>1. ~EventDrain /\ ~EventDrain'
        BY <2>1, <3>3 DEF EventInv, EventDrain
      <4>2. Torn' = Torn
        BY <2>1 DEF Torn, Exists
      <4> QED  BY <2>1, <4>1, <4>2 DEF EventInv
    <3> QED  BY <3>2, <3>3
  <2>4. CASE Push(p)
    <3>1. UNCHANGED full /\ Torn' = Torn /\ EventDrain' = EventDrain /\ Moved' = Moved
      BY <2>1, <2>4 DEF Push, Torn, Exists, EventDrain, Moved
    <3>2. Pushing' = Pushing \ {p} /\ p \in Pushing
      BY <1>t, <2>4 DEF Push, Pushing
    <3>3. U' = U - 1 /\ U \in 1 .. N
      <4>1. IsFiniteSet(Pushing) /\ U \in 0 .. N
        BY PushingSize
      <4>2. Cardinality(Pushing \ {p}) = Cardinality(Pushing) - 1
        BY <3>2, <4>1, FS_RemoveElement
      <4>3. Cardinality(Pushing) # 0
        BY <3>2, <4>1, FS_EmptySet
      <4> QED  BY <3>2, <4>1, <4>2, <4>3 DEF U
    <3>4. PICK l \in 0 .. MaxLen : InRing' = InRing + l
      <4>1. prec[p] \in Rec /\ prec[p].len \in Nat /\ prec[p].len <= MaxLen /\ MaxLen \in Nat
        BY <1>t, Longest, CellsOfLen DEF Rec
      <4>2. CASE RingCells - Len(ring) >= prec[p].len
        <5> DEFINE e == CellsOf(prec[p])
        <5>1. e \in Seq(Cell) /\ Len(e) = prec[p].len
          BY <4>1, CellsOfType, CellsOfLen
        <5>2. ring' = ring \o e
          BY <2>4, <4>2 DEF Push
        <5> HIDE DEF e
        <5>3. Len(ring \o e) = Len(ring) + Len(e)
          BY <1>t, <5>1, ConcatProperties
        <5>4. prec[p].len \in 0 .. MaxLen
          BY <4>1
        <5>5. InRing' = InRing + prec[p].len
          BY <5>1, <5>2, <5>3 DEF InRing
        <5> QED  BY <5>4, <5>5
      <4>3. CASE ~(RingCells - Len(ring) >= prec[p].len)
        <5>1. ring' = ring /\ Len(ring) \in Nat
          BY <1>t, <2>4, <4>3 DEF Push
        <5>2. 0 \in 0 .. MaxLen /\ InRing' = InRing + 0
          BY <4>1, <5>1 DEF InRing
        <5> QED  BY <5>2
      <4> QED  BY <4>2, <4>3
    <3>5. InRing \in Nat /\ Moved \in Nat
      BY <1>t DEF InRing, Moved
    <3>6. ASSUME EventDrain
          PROVE  /\ HasSlack(Moved, InRing', U')
                 /\ Torn => Coming(InRing', U') <= Left(Moved)
      <4>1. HasSlack(Moved, InRing, U) /\ (Torn => Coming(InRing, U) <= Left(Moved))
        BY <3>6 DEF EventInv
      <4>2. /\ HasSlack(Moved, InRing + l, U - 1)
            /\ Coming(InRing + l, U - 1) <= Coming(InRing, U)
        BY <1>t, <3>3, <3>5, <4>1, SlackPush
      <4>3. Coming(InRing + l, U - 1) \in Int /\ Coming(InRing, U) \in Int /\ Left(Moved) \in Int
        <5>1. U \in Nat /\ U - 1 \in Nat /\ MaxLen \in Nat /\ InRing + l \in Nat
          BY <1>t, <3>3, <3>4, <3>5, Sizes
        <5>2. U * MaxLen \in Nat /\ (U - 1) * MaxLen \in Nat
          BY <5>1, Times
        <5>3. Left(Moved) \in Int
          BY <3>5, StoreAssumption DEF Left
        <5> QED  BY <3>5, <5>1, <5>2, <5>3 DEF Coming
      <4>4. Torn => Coming(InRing + l, U - 1) <= Left(Moved)
        BY <4>1, <4>2, <4>3
      <4> QED  BY <3>3, <3>4, <4>2, <4>4
    <3> QED  BY <2>1, <3>1, <3>6 DEF EventInv
  <2> QED  BY <1>12, <2>2, <2>3, <2>4 DEF ProducerStep
<1> QED
  BY <1>2, <1>3, <1>4, <1>5, <1>6, <1>7, <1>8, <1>9, <1>10, <1>11, <1>12
  DEF Next, ApiStep, WriterStep

\* A file a host can walk.
Walkable(f) ==
  /\ Framed(f.cells)
  /\ f.cells # <<>> => f.hdr
  /\ f.st = "closed" => f.hdr /\ EndsWhole(f.cells)

LEMMA ParsableIs == Parsable <=> \A n \in Seqs : Walkable(files[n])
BY DEF Parsable, Walkable

LEMMA StreamInit == Init => StreamInv /\ Parsable
<1> SUFFICES ASSUME Init
             PROVE  StreamInv /\ Parsable
  OBVIOUS
<1>1. \A n \in Seqs : files[n] = Absent
  BY DEF Init
<1>2. ~fileOpen
  BY DEF Init
<1> QED  BY <1>1, <1>2, FramedEmpty DEF StreamInv, Streaming, Parsable, Absent

\* Nothing moves, or the capture is over.
LEMMA StreamKept ==
  ASSUME StreamInv, UNCHANGED <<seq, wbuf, ring>>,
         Exists(seq)' => Exists(seq) /\ files'[seq].cells = files[seq].cells
                         /\ files'[seq].hdr = files[seq].hdr,
         fileOpen' /\ api' # "opened" => fileOpen /\ api # "opened"
  PROVE  StreamInv'
BY DEF StreamInv, Streaming

LEMMA StreamStep ==
  ASSUME TypeInv, HandOver, ConsInv, EventInv, StreamInv, [Next]_vars
  PROVE  StreamInv'
<1> USE DEF storeVars, writerVars, ringVars, prodVars, histVars
<1>0. TypeInv'
  BY TypeStep
<1>t. /\ TypeOK /\ files \in [Seqs -> File] /\ seq \in Seqs /\ files[seq] \in File
      /\ files[seq].cells \in Seq(Cell) /\ wbuf \in Seq(Cell) /\ ring \in Seq(Cell)
      /\ prec \in [Producers -> Rec] /\ clock \in Nat
  BY DEF TypeInv, TypeOK, File
<1>w. ASSUME NEW f, WriteFile(f), f.cells = files[seq].cells, f.hdr = files[seq].hdr, seq' = seq
      PROVE  Exists(seq)' => Exists(seq) /\ files'[seq].cells = files[seq].cells
                             /\ files'[seq].hdr = files[seq].hdr
  BY <1>t, <1>w DEF WriteFile, Exists
<1>1. CASE BeginOpen \/ BeginFail \/ EndClose \/ PowerCut
  <2>1. ~fileOpen' \/ api' = "opened"
    BY <1>1 DEF BeginOpen, BeginFail, EndClose, PowerCut
  <2> QED  BY <2>1 DEF StreamInv, Streaming
<1>2. CASE BeginHeader
  <2>1. files[seq].cells = <<>> /\ wpc = "none" /\ wbuf = <<>>
    BY <1>2 DEF BeginHeader, HandOver, ConsInv
  <2>2. /\ WriteFile([files[seq] EXCEPT !.hdr = TRUE]) /\ seq' = seq /\ wbuf' = wbuf
        /\ ring' = <<>>
    BY <1>2 DEF BeginHeader
  <2>3. Exists(seq)' => files'[seq].cells = <<>> /\ files'[seq].hdr
    BY <1>t, <2>1, <2>2 DEF WriteFile, Exists, File
  <2>4. <<>> \o <<>> \o <<>> = <<>>
    OBVIOUS
  <2> QED  BY <2>1, <2>2, <2>3, <2>4, FramedEmpty DEF StreamInv, Streaming
<1>3. CASE BeginLaunch
  <2>1. wbuf = <<>> /\ wbuf' = <<>> /\ UNCHANGED <<files, seq, ring, fileOpen>> /\ api = "ready"
    BY <1>3 DEF BeginLaunch, HandOver, ConsInv
  <2> QED  BY <2>1, StreamKept DEF Exists
<1>4. CASE BeginActivate \/ EndCall \/ EndRequest \/ EndJoin \/ UNCHANGED vars
  <2>1. /\ UNCHANGED <<files, seq, ring, fileOpen, wbuf>>
        /\ UNCHANGED api \/ api # "opened"
    BY <1>4 DEF BeginActivate, EndCall, EndRequest, EndJoin, vars
  <2> QED  BY <2>1, StreamKept DEF Exists
<1>5. CASE SetAddrs \/ WriterSync \/ WriterEventSync
  <2> DEFINE f == Synced(files[seq])
  <2>1. WriteFile(f) /\ UNCHANGED <<seq, ring, fileOpen, wbuf, api>>
    BY <1>5 DEF SetAddrs, WriterSync, WriterEventSync
  <2>2. f.cells = files[seq].cells /\ f.hdr = files[seq].hdr
    BY <1>t DEF Synced, File
  <2> HIDE DEF f
  <2>3. Exists(seq)' => Exists(seq) /\ files'[seq].cells = files[seq].cells
                        /\ files'[seq].hdr = files[seq].hdr
    BY <1>w, <2>1, <2>2
  <2> QED  BY <2>1, <2>3, StreamKept
<1>6. CASE WriterPop
  <2>1. UNCHANGED <<files, seq, fileOpen, api>> /\ wbuf = <<>>
    BY <1>6 DEF WriterPop, ConsInv
  <2>2. CASE pass < DrainPasses /\ ring # <<>>
    <3>1. wbuf' \in Seq(Cell) /\ ring' \in Seq(Cell) /\ wbuf' \o ring' = ring
      BY <1>0, <1>6, <2>2, Pops
    <3>2. (files[seq].cells \o wbuf') \o ring' = (files[seq].cells \o wbuf) \o ring
      <4>1. PICK c, x, y : c = files[seq].cells /\ x = wbuf' /\ y = ring'
        OBVIOUS
      <4>2. c \in Seq(Cell) /\ x \in Seq(Cell) /\ y \in Seq(Cell)
        BY <1>t, <3>1, <4>1
      <4>3. (c \o x) \o y = c \o (x \o y)
        <5>1. InARow(c, x, y)
          BY <4>2, Associates
        <5> QED  BY <5>1 DEF InARow
      <4>4. c \o <<>> = c
        BY <4>2, ConcatEmptySeq
      <4> QED  BY <2>1, <3>1, <4>1, <4>3, <4>4
    <3> QED  BY <2>1, <3>2 DEF StreamInv, Streaming, Exists
  <2>3. CASE ~(pass < DrainPasses /\ ring # <<>>)
    <3>1. UNCHANGED <<wbuf, ring>>
      BY <1>6, <2>3 DEF WriterPop
    <3> QED  BY <2>1, <3>1, StreamKept DEF Exists
  <2> QED  BY <2>2, <2>3
<1>7. CASE WriterWrite
  <2>1. /\ WriteFile([files[seq] EXCEPT !.cells = @ \o wbuf]) /\ wbuf' = <<>>
        /\ UNCHANGED <<seq, ring, fileOpen, api>>
    BY <1>7 DEF WriterWrite
  <2> SUFFICES ASSUME Streaming'
               PROVE  /\ Framed(files'[seq].cells \o <<>> \o ring)
                      /\ EndsWhole(files'[seq].cells \o <<>> \o ring)
                      /\ files'[seq].hdr
    BY <2>1 DEF StreamInv
  <2>2. Exists(seq)
    BY <1>t, <2>1 DEF WriteFile, Exists, Streaming
  <2>3. files'[seq].cells = files[seq].cells \o wbuf /\ files'[seq].hdr = files[seq].hdr
    BY <1>t, <2>1, <2>2 DEF WriteFile, File
  <2>4. files[seq].cells \o wbuf \in Seq(Cell)
    BY <1>t
  <2>5. (files[seq].cells \o wbuf) \o <<>> = files[seq].cells \o wbuf
    BY <2>4, ConcatEmptySeq
  <2>6. Streaming
    BY <2>1, <2>2 DEF Streaming
  <2> QED  BY <2>3, <2>5, <2>6 DEF StreamInv
<1>8. CASE WriterEvent
  <2>1. PICK l \in Lens :
          WriteFile([files[seq] EXCEPT !.cells =
            @ \o CellsOf([by |-> Writer, t |-> clock + 1, len |-> l, cap |-> seq])])
    BY <1>8 DEF WriterEvent
  <2> DEFINE r == [by |-> Writer, t |-> clock + 1, len |-> l, cap |-> seq]
  <2>2. r \in Rec
    BY <1>t DEF Rec, Stamps
  <2> HIDE DEF r
  <2>3. CellsOf(r) \in Seq(Cell) /\ Framed(CellsOf(r)) /\ EndsWhole(CellsOf(r))
    BY <2>2, CellsOfType, FramedRecord
  <2>4. WriteFile([files[seq] EXCEPT !.cells = @ \o CellsOf(r)])
    BY <2>1 DEF r
  <2>5. UNCHANGED <<seq, ring, fileOpen, api, wbuf>> /\ wbuf = <<>> /\ ~Torn
    BY <1>8 DEF WriterEvent, ConsInv, EventInv
  <2> SUFFICES ASSUME Streaming'
               PROVE  /\ Framed(files'[seq].cells \o <<>> \o ring)
                      /\ EndsWhole(files'[seq].cells \o <<>> \o ring)
                      /\ files'[seq].hdr
    BY <2>5 DEF StreamInv
  <2>6. Exists(seq)
    BY <1>t, <2>4, <2>5 DEF WriteFile, Exists, Streaming
  <2>7. files'[seq].cells = files[seq].cells \o CellsOf(r) /\ files'[seq].hdr = files[seq].hdr
    BY <1>t, <2>4, <2>6 DEF WriteFile, File
  <2> DEFINE c == files[seq].cells
             e == CellsOf(r)
  <2>8. /\ c \in Seq(Cell) /\ e \in Seq(Cell) /\ Framed(e) /\ EndsWhole(e)
        /\ files'[seq].cells = c \o e
    BY <1>t, <2>3, <2>7
  <2>9. c \o <<>> = c
    BY <2>8, ConcatEmptySeq
  <2>10. EndsWhole(c \o <<>>)
    BY <2>5, <2>6 DEF Torn
  <2>11. Framed((c \o <<>>) \o ring) /\ EndsWhole((c \o <<>>) \o ring) /\ files[seq].hdr
    BY <2>5, <2>6 DEF StreamInv, Streaming
  <2> HIDE DEF c, e
  <2>12. EndsWhole(c) /\ Framed(c \o ring) /\ EndsWhole(c \o ring)
    BY <2>9, <2>10, <2>11
  <2>13. Framed(c) /\ Framed(ring) /\ EndsWhole(ring)
    BY <1>t, <2>8, <2>12, FramedFront, FramedBack, EndsBack
  <2>14. c \o e \in Seq(Cell)
    BY <2>8, Cells
  <2>15. Framed(c \o e) /\ EndsWhole(c \o e)
    BY <2>8, <2>12, <2>13, FramedConcat, EndsBack
  <2>16. Framed((c \o e) \o ring)
    BY <1>t, <2>13, <2>14, <2>15, FramedConcat
  <2>17. EndsWhole((c \o e) \o ring)
    BY <1>t, <2>13, <2>14, <2>15, EndsBack
  <2>18. (c \o e) \o <<>> = c \o e
    BY <2>14, ConcatEmptySeq
  <2> QED  BY <2>7, <2>8, <2>11, <2>16, <2>17, <2>18
<1>9. CASE WriterReadStop \/ WriterNoSync \/ WriterSpaceLeft \/ WriterSpaceLow \/ WriterExit
  <2>1. UNCHANGED <<files, seq, ring, fileOpen, wbuf, api>>
    BY <1>9 DEF WriterReadStop, WriterNoSync, WriterSpaceLeft, WriterSpaceLow, WriterExit
  <2> QED  BY <2>1, StreamKept DEF Exists
<1>10. CASE RemoveAny
  <2>1. UNCHANGED <<seq, ring, fileOpen, wbuf, api>>
    BY <1>10 DEF RemoveAny, RemoveOne, RemoveAll, RemoveStep
  <2>2. files'[seq] = files[seq] \/ files'[seq] = Absent
    BY <1>10, <1>t DEF RemoveAny, RemoveOne, RemoveAll, RemoveStep
  <2>3. Exists(seq)' => Exists(seq) /\ files'[seq] = files[seq]
    BY <2>1, <2>2 DEF Exists, Absent
  <2> QED  BY <2>1, <2>3, StreamKept
<1>11. ASSUME NEW p \in Producers, ProducerStep(p)
       PROVE  StreamInv'
  <2>1. UNCHANGED <<files, seq, fileOpen, api, wbuf>>
    BY <1>11 DEF ProducerStep, Stamp, CheckActive, CheckFull, Push, NoteT
  <2>2. CASE UNCHANGED ring
    BY <2>1, <2>2, StreamKept DEF Exists
  <2>3. CASE ring' # ring
    <3>1. ring' = ring \o CellsOf(prec[p])
      BY <1>11, <2>3 DEF ProducerStep, Stamp, CheckActive, CheckFull, Push, NoteT
    <3> DEFINE b == files[seq].cells \o wbuf
               e == CellsOf(prec[p])
    <3>2. b \in Seq(Cell) /\ e \in Seq(Cell) /\ Framed(e) /\ EndsWhole(e)
      <4>1. prec[p] \in Rec
        BY <1>t
      <4> QED  BY <1>t, <4>1, CellsOfType, FramedRecord
    <3> SUFFICES ASSUME Streaming
                 PROVE  /\ Framed(b \o (ring \o e)) /\ EndsWhole(b \o (ring \o e))
                        /\ files[seq].hdr
      BY <2>1, <3>1 DEF StreamInv, Streaming, Exists
    <3>3. Framed(b \o ring) /\ EndsWhole(b \o ring) /\ files[seq].hdr
      BY DEF StreamInv
    <3> HIDE DEF b, e
    <3>4. b \o ring \in Seq(Cell)
      BY <1>t, <3>2, Cells
    <3>5. Framed((b \o ring) \o e) /\ EndsWhole((b \o ring) \o e)
      BY <3>2, <3>3, <3>4, FramedConcat, EndsBack
    <3>6. (b \o ring) \o e = b \o (ring \o e)
      <4>1. b \in Seq(Cell) /\ ring \in Seq(Cell) /\ e \in Seq(Cell)
        BY <1>t, <3>2
      <4>2. InARow(b, ring, e)
        BY <4>1, Associates
      <4> QED  BY <4>2 DEF InARow
    <3> QED  BY <3>3, <3>5, <3>6
  <2> QED  BY <2>2, <2>3
<1> QED
  BY <1>1, <1>2, <1>3, <1>4, <1>5, <1>6, <1>7, <1>8, <1>9, <1>10, <1>11
  DEF Next, ApiStep, WriterStep

LEMMA WalkableStep ==
  ASSUME TypeInv, HandOver, OpenEntry, ConsInv, EndInv, EventInv, StreamInv, Parsable,
         [Next]_vars
  PROVE  Parsable'
<1> USE DEF storeVars, writerVars, ringVars, prodVars, histVars
<1>t. /\ TypeOK /\ files \in [Seqs -> File] /\ seq \in Seqs /\ files[seq] \in File
      /\ files[seq].cells \in Seq(Cell) /\ wbuf \in Seq(Cell) /\ ring \in Seq(Cell)
      /\ clock \in Nat
  BY DEF TypeInv, TypeOK, File
<1>p. \A n \in Seqs : Walkable(files[n])
  BY ParsableIs
<1> SUFFICES \A n \in Seqs : Walkable(files'[n])
  BY DEF Parsable, Walkable
<1>a. Walkable(Absent) /\ Walkable(NewFile)
  BY FramedEmpty DEF Walkable, Absent, NewFile
<1>w. ASSUME NEW f, WriteFile(f), Exists(seq) => Walkable(f)
      PROVE  \A n \in Seqs : Walkable(files'[n])
  BY <1>t, <1>p, <1>w DEF WriteFile
<1>f. Walkable(files[seq])
  BY <1>t, <1>p
<1>1. CASE BeginOpen
  <2>1. PICK n \in 0 .. MaxSeq - 1 : files' = [files EXCEPT ![n + 1] = NewFile]
    BY <1>1 DEF BeginOpen
  <2> QED  BY <1>t, <1>p, <1>a, <2>1
<1>2. CASE BeginHeader
  <2> DEFINE f == [files[seq] EXCEPT !.hdr = TRUE]
  <2>1. WriteFile(f)
    BY <1>2 DEF BeginHeader
  <2>2. f.cells = files[seq].cells /\ f.st = files[seq].st /\ f.hdr
    BY <1>t DEF File
  <2> HIDE DEF f
  <2>3. Walkable(f)
    BY <1>f, <2>2 DEF Walkable
  <2> QED  BY <1>w, <2>1, <2>3
<1>3. CASE BeginFail
  BY <1>3, <1>t, <1>p, <1>a DEF BeginFail
<1>4. CASE SetAddrs \/ WriterSync \/ WriterEventSync
  <2> DEFINE f == Synced(files[seq])
  <2>1. WriteFile(f)
    BY <1>4 DEF SetAddrs, WriterSync, WriterEventSync
  <2>2. f.cells = files[seq].cells /\ f.st = files[seq].st /\ f.hdr = files[seq].hdr
    BY <1>t DEF Synced, File
  <2> HIDE DEF f
  <2>3. Walkable(f)
    BY <1>f, <2>2 DEF Walkable
  <2> QED  BY <1>w, <2>1, <2>3
<1>5. CASE EndClose
  <2> DEFINE f == [Synced(files[seq]) EXCEPT !.dur = lastT, !.st = "closed"]
  <2>1. WriteFile(f)
    BY <1>5 DEF EndClose
  <2>2. f.cells = files[seq].cells /\ f.hdr = files[seq].hdr
    BY <1>t DEF Synced, File
  <2> HIDE DEF f
  <2>3. wpc = "none" /\ wbuf = <<>> /\ ring = <<>> /\ fileOpen /\ api # "opened"
    BY <1>5 DEF EndClose, HandOver, ConsInv, EndInv
  <2>4. (files[seq].cells \o <<>>) \o <<>> = files[seq].cells
    BY <1>t, ConcatEmptySeq
  <2>5. Exists(seq) => EndsWhole(files[seq].cells) /\ files[seq].hdr
    BY <2>3, <2>4 DEF StreamInv, Streaming
  <2>6. Exists(seq) => Walkable(f)
    BY <1>f, <2>2, <2>5 DEF Walkable
  <2> QED  BY <1>w, <2>1, <2>6
<1>6. CASE WriterWrite
  <2> DEFINE f == [files[seq] EXCEPT !.cells = @ \o wbuf]
  <2>1. WriteFile(f) /\ fileOpen /\ api # "opened"
    BY <1>6 DEF WriterWrite, HandOver
  <2>2. f.cells = files[seq].cells \o wbuf /\ f.hdr = files[seq].hdr /\ f.st = files[seq].st
    BY <1>t DEF File
  <2> HIDE DEF f
  <2>3. ASSUME Exists(seq)
        PROVE  Walkable(f)
    <3>1. Framed((files[seq].cells \o wbuf) \o ring) /\ files[seq].hdr
      BY <2>1, <2>3 DEF StreamInv, Streaming
    <3>2. Framed(files[seq].cells \o wbuf)
      <4>1. files[seq].cells \o wbuf \in Seq(Cell)
        BY <1>t
      <4> QED  BY <1>t, <3>1, <4>1, FramedFront
    <3>3. files[seq].st # "closed"
      BY <2>1, <2>3 DEF OpenEntry
    <3> QED  BY <2>2, <3>1, <3>2, <3>3 DEF Walkable
  <2> QED  BY <1>w, <2>1, <2>3
<1>7. CASE WriterEvent
  <2>1. PICK l \in Lens :
          WriteFile([files[seq] EXCEPT !.cells =
            @ \o CellsOf([by |-> Writer, t |-> clock + 1, len |-> l, cap |-> seq])])
    BY <1>7 DEF WriterEvent
  <2> DEFINE r == [by |-> Writer, t |-> clock + 1, len |-> l, cap |-> seq]
  <2>2. r \in Rec
    BY <1>t DEF Rec, Stamps
  <2> HIDE DEF r
  <2>3. CellsOf(r) \in Seq(Cell) /\ Framed(CellsOf(r)) /\ EndsWhole(CellsOf(r))
    BY <2>2, CellsOfType, FramedRecord
  <2> DEFINE f == [files[seq] EXCEPT !.cells = @ \o CellsOf(r)]
  <2>4. WriteFile(f)
    BY <2>1 DEF r
  <2>5. f.cells = files[seq].cells \o CellsOf(r) /\ f.hdr = files[seq].hdr /\ f.st = files[seq].st
    BY <1>t DEF File
  <2> HIDE DEF f
  <2>6. fileOpen /\ api # "opened" /\ wbuf = <<>> /\ ~Torn
    BY <1>7 DEF WriterEvent, HandOver, ConsInv, EventInv
  <2>7. ASSUME Exists(seq)
        PROVE  Walkable(f)
    <3>1. files[seq].hdr
      BY <2>6, <2>7 DEF StreamInv, Streaming
    <3>2. files[seq].cells \o <<>> = files[seq].cells
      BY <1>t, ConcatEmptySeq
    <3>3. EndsWhole(files[seq].cells)
      BY <2>6, <2>7, <3>2 DEF Torn
    <3>4. Framed(files[seq].cells \o CellsOf(r))
      BY <1>t, <1>f, <2>3, <3>3, FramedConcat DEF Walkable
    <3>5. files[seq].st # "closed"
      BY <2>6, <2>7 DEF OpenEntry, Exists
    <3> QED  BY <2>5, <3>1, <3>4, <3>5 DEF Walkable
  <2> QED  BY <1>w, <2>4, <2>7
<1>8. CASE RemoveAny
  <2>1. \A n \in Seqs : files'[n] \in {files[n], Absent}
    BY <1>8, <1>t DEF RemoveAny, RemoveOne, RemoveAll, RemoveStep
  <2> QED  BY <1>p, <1>a, <2>1
<1>9. CASE PowerCut
  <2>1. ASSUME NEW k \in files[seq].synced .. Len(files[seq].cells)
        PROVE  Walkable(CutAt(files[seq], k))
    <3> DEFINE f == CutAt(files[seq], k)
    <3>1. f.cells = SubSeq(files[seq].cells, 1, k) /\ f.hdr = files[seq].hdr /\ f.st = "cut"
      BY DEF CutAt
    <3> HIDE DEF f
    <3>2. k \in 0 .. Len(files[seq].cells)
      BY <1>t DEF File
    <3>3. Framed(files[seq].cells) /\ (files[seq].cells # <<>> => files[seq].hdr)
      BY <1>f DEF Walkable
    <3>4. Framed(f.cells)
      BY <1>t, <3>1, <3>2, <3>3, FramedPrefix
    <3>5. files[seq].cells = <<>> => f.cells = <<>>
      BY <3>1, <3>2
    <3>6. f.cells # <<>> => f.hdr
      BY <3>1, <3>3, <3>5
    <3>7. Walkable(f)
      BY <3>1, <3>4, <3>6 DEF Walkable
    <3> QED  BY <3>7 DEF f
  <2>2. files' \in {[files EXCEPT ![seq] = CutAt(files[seq], k)] :
                       k \in files[seq].synced .. Len(files[seq].cells)}
        \/ files' = [files EXCEPT ![seq] = Absent] \/ files' = files
    BY <1>9 DEF PowerCut
  <2> QED  BY <1>t, <1>p, <1>a, <2>1, <2>2
<1>10. CASE UNCHANGED files
  BY <1>p, <1>10
<1> QED
  <2>1. ASSUME NEW p \in Producers, ProducerStep(p)
        PROVE  UNCHANGED files
    BY <2>1 DEF ProducerStep, Stamp, CheckActive, CheckFull, Push, NoteT
  <2>2. CASE BeginLaunch \/ BeginActivate \/ EndCall \/ EndRequest \/ EndJoin
    BY <1>10, <2>2 DEF BeginLaunch, BeginActivate, EndCall, EndRequest, EndJoin
  <2>3. CASE WriterPop \/ WriterReadStop \/ WriterNoSync \/ WriterSpaceLeft \/ WriterSpaceLow
             \/ WriterExit
    BY <1>10, <2>3 DEF WriterPop, WriterReadStop, WriterNoSync, WriterSpaceLeft,
                       WriterSpaceLow, WriterExit
  <2>4. CASE UNCHANGED vars
    BY <1>10, <2>4 DEF vars
  <2> QED
    BY <1>1, <1>2, <1>3, <1>4, <1>5, <1>6, <1>7, <1>8, <1>9, <1>10, <2>1, <2>2, <2>3, <2>4
    DEF Next, ApiStep, WriterStep

\* A host can walk every file record by record, whatever ring, buffer, "storage full"
\* event and power cut did to the records on their way.
THEOREM FilesParse == QuietEnd => (Spec => []Parsable)
<1> SUFFICES ASSUME QuietEnd
             PROVE  Spec => []Parsable
  OBVIOUS
<1> DEFINE IInv == /\ TypeInv /\ HandOver /\ OpenEntry /\ ConsInv /\ EndInv /\ EventInv
                   /\ StreamInv /\ Parsable
<1>1. Init => IInv
  BY TypeInit, HandOverInit, OpenEntryInit, ConsInit, EndInit, EventInit, StreamInit
<1>2. IInv /\ [Next]_vars => IInv'
  <2> SUFFICES ASSUME IInv, [Next]_vars
               PROVE  IInv'
    OBVIOUS
  <2>1. TypeInv' /\ HandOver' /\ OpenEntry' /\ ConsInv'
    BY TypeStep, HandOverStep, EntryStep, ConsStep
  <2>2. EndInv'
    BY EndStep
  <2>3. EventInv' /\ StreamInv'
    BY EventStep, StreamStep
  <2>4. Parsable'
    BY WalkableStep
  <2> QED  BY <2>1, <2>2, <2>3, <2>4
<1>3. IInv => Parsable
  OBVIOUS
<1> QED
  <2> HIDE DEF IInv
  <2> QED  BY <1>1, <1>2, <1>3, PTL DEF Spec

-----------------------------------------------------------------------------
(***************************************************************************)
(* The store implements the numbered log of CaptureLog, when producers are *)
(* quiet before store_end() and captures are removed while none is open.   *)
(*                                                                         *)
(* With Conservation the log of the open capture is `accepted`, wherever   *)
(* its cells are: a step that moves them stutters, and only a push that is *)
(* accepted appends.                                                       *)
(***************************************************************************)
EntryInv ==
  /\ fileOpen => files[seq].st = "open"
  /\ \A n \in Seqs : files[n].st = "open" => fileOpen /\ n = seq
  /\ \A n \in Seqs : files[n].st = "absent" => files[n].cells = <<>>

StampInv == \A p \in Producers : ppc[p] # "idle" => prec[p].t <= MaxStamps

ReadyInv == api = "ready" => accepted = <<>>

RefInv == EntryInv /\ StampInv /\ ReadyInv

LEMMA RefInit == Init => RefInv
<1> SUFFICES ASSUME Init
             PROVE  RefInv
  OBVIOUS
<1>1. \A n \in Seqs : files[n] = Absent
  BY DEF Init
<1>2. \A p \in Producers : ppc[p] = "idle"
  BY DEF Init
<1>3. ~fileOpen /\ api = "idle"
  BY DEF Init
<1> QED  BY <1>1, <1>2, <1>3 DEF RefInv, EntryInv, StampInv, ReadyInv, Absent

\* Entries are written, but none is made, closed or removed.
LEMMA EntryKept ==
  ASSUME EntryInv, seq \in Seqs, UNCHANGED <<seq, fileOpen>>,
         \A n \in Seqs : /\ files'[n].st = files[n].st
                         /\ files[n].st = "absent" => files'[n].cells = files[n].cells
  PROVE  EntryInv'
BY DEF EntryInv

LEMMA RefStep ==
  ASSUME QuietEnd, QuietRemove, TypeInv, HandOver, OwnInv, RefInv, [Next]_vars
  PROVE  RefInv'
<1> USE DEF storeVars, writerVars, ringVars, prodVars, histVars
<1>t. /\ files \in [Seqs -> File] /\ seq \in Seqs /\ files[seq] \in File
      /\ clock \in Nat /\ prec \in [Producers -> Rec] /\ MaxStamps \in Nat
      /\ ppc \in [Producers -> {"idle", "called", "active", "push", "pushed"}]
  BY StoreAssumption DEF TypeInv, TypeOK
<1>r. EntryInv /\ StampInv /\ ReadyInv
  BY DEF RefInv
<1>w. ASSUME NEW f, WriteFile(f), f.st = files[seq].st, UNCHANGED <<seq, fileOpen>>
      PROVE  EntryInv'
  <2>1. \A n \in Seqs : /\ files'[n].st = files[n].st
                        /\ files[n].st = "absent" => files'[n].cells = files[n].cells
    BY <1>t, <1>w DEF WriteFile, Exists
  <2> QED  BY <1>r, <1>t, <1>w, <2>1, EntryKept
<1>k. ASSUME UNCHANGED <<files, seq, fileOpen>>
      PROVE  EntryInv'
  BY <1>r, <1>k DEF EntryInv
<1>p. ASSUME UNCHANGED <<ppc, prec>>
      PROVE  StampInv'
  BY <1>r, <1>p DEF StampInv
<1>a. ASSUME api' # "ready" \/ accepted' = <<>>
      PROVE  ReadyInv'
  BY <1>a DEF ReadyInv
<1>1. CASE BeginOpen
  <2>1. PICK n \in 0 .. MaxSeq - 1 : files' = [files EXCEPT ![n + 1] = NewFile] /\ seq' = n + 1
    BY <1>1 DEF BeginOpen
  <2>2. n + 1 \in Seqs
    BY <2>1, StoreAssumption DEF Seqs
  <2>3. ~fileOpen /\ fileOpen' = TRUE /\ api' = "opened" /\ UNCHANGED <<ppc, prec>>
    BY <1>1 DEF BeginOpen
  <2>4. files'[n + 1].st = "open" /\ \A m \in Seqs : m # n + 1 => files'[m] = files[m]
    BY <1>t, <2>1, <2>2 DEF NewFile, Absent
  <2>5. EntryInv'
    BY <1>r, <2>1, <2>3, <2>4 DEF EntryInv
  <2> QED  BY <1>p, <1>a, <2>3, <2>5 DEF RefInv
<1>2. CASE BeginHeader
  <2>1. /\ WriteFile([files[seq] EXCEPT !.hdr = TRUE]) /\ UNCHANGED <<seq, fileOpen, ppc, prec>>
        /\ accepted' = <<>>
    BY <1>2 DEF BeginHeader
  <2>2. [files[seq] EXCEPT !.hdr = TRUE].st = files[seq].st
    BY <1>t DEF File
  <2> QED  BY <1>p, <1>a, <1>w, <2>1, <2>2 DEF RefInv
<1>3. CASE BeginFail
  <2>1. files' = [files EXCEPT ![seq] = Absent] /\ ~fileOpen' /\ api' = "idle"
        /\ UNCHANGED <<ppc, prec>>
    BY <1>3 DEF BeginFail
  <2>2. EntryInv'
    BY <1>t, <1>r, <2>1 DEF EntryInv, Absent
  <2> QED  BY <1>p, <1>a, <2>1, <2>2 DEF RefInv
<1>4. CASE BeginLaunch \/ BeginActivate \/ EndCall \/ EndRequest \/ EndJoin \/ UNCHANGED vars
  <2>1. UNCHANGED <<files, seq, fileOpen, ppc, prec>>
        /\ (api' # "ready" \/ UNCHANGED <<api, accepted>>)
    BY <1>4 DEF BeginLaunch, BeginActivate, EndCall, EndRequest, EndJoin, vars
  <2> QED  BY <1>k, <1>p, <1>a, <1>r, <2>1 DEF RefInv, ReadyInv
<1>5. CASE EndClose
  <2> DEFINE f == [Synced(files[seq]) EXCEPT !.dur = lastT, !.st = "closed"]
  <2>1. WriteFile(f) /\ ~fileOpen' /\ api' = "idle" /\ UNCHANGED <<ppc, prec>> /\ fileOpen
    BY <1>5 DEF EndClose, HandOver
  <2>2. f.st = "closed"
    BY <1>t DEF Synced, File
  <2> HIDE DEF f
  <2>3. Exists(seq)
    BY <1>r, <2>1 DEF EntryInv, Exists
  <2>4. files'[seq].st = "closed" /\ \A m \in Seqs : m # seq => files'[m] = files[m]
    BY <1>t, <2>1, <2>2, <2>3 DEF WriteFile
  <2>5. EntryInv'
    BY <1>r, <2>1, <2>4 DEF EntryInv
  <2> QED  BY <1>p, <1>a, <2>1, <2>5 DEF RefInv
<1>6. CASE SetAddrs \/ WriterSync \/ WriterEventSync
  <2> DEFINE f == Synced(files[seq])
  <2>1. WriteFile(f) /\ UNCHANGED <<seq, fileOpen, ppc, prec, api, accepted>>
    BY <1>6 DEF SetAddrs, WriterSync, WriterEventSync
  <2>2. f.st = files[seq].st
    BY <1>t DEF Synced, File
  <2> HIDE DEF f
  <2> QED  BY <1>p, <1>r, <1>w, <2>1, <2>2 DEF RefInv, ReadyInv
<1>7. CASE WriterWrite
  <2> DEFINE f == [files[seq] EXCEPT !.cells = @ \o wbuf]
  <2>1. WriteFile(f) /\ UNCHANGED <<seq, fileOpen, ppc, prec, api, accepted>>
    BY <1>7 DEF WriterWrite
  <2>2. f.st = files[seq].st
    BY <1>t DEF File
  <2> HIDE DEF f
  <2> QED  BY <1>p, <1>r, <1>w, <2>1, <2>2 DEF RefInv, ReadyInv
<1>8. CASE WriterEvent
  <2>1. PICK l \in Lens :
          WriteFile([files[seq] EXCEPT !.cells =
            @ \o CellsOf([by |-> Writer, t |-> clock + 1, len |-> l, cap |-> seq])])
    BY <1>8 DEF WriterEvent
  <2> DEFINE c == CellsOf([by |-> Writer, t |-> clock + 1, len |-> l, cap |-> seq])
             f == [files[seq] EXCEPT !.cells = @ \o c]
  <2>2. WriteFile(f) /\ UNCHANGED <<seq, fileOpen, ppc, prec, api, accepted>>
    BY <1>8, <2>1 DEF WriterEvent
  <2>3. f.st = files[seq].st
    <3> HIDE DEF c
    <3> QED  BY <1>t DEF File
  <2> HIDE DEF f
  <2> QED  BY <1>p, <1>r, <1>w, <2>2, <2>3 DEF RefInv, ReadyInv
<1>9. CASE WriterPop \/ WriterReadStop \/ WriterNoSync \/ WriterSpaceLeft \/ WriterSpaceLow
           \/ WriterExit \/ RemoveOne \/ RemoveAll
  <2>1. UNCHANGED <<files, seq, fileOpen, ppc, prec, api, accepted>>
    BY <1>9 DEF WriterPop, WriterReadStop, WriterNoSync, WriterSpaceLeft, WriterSpaceLow,
                WriterExit, RemoveOne, RemoveAll
  <2> QED  BY <1>k, <1>p, <1>r, <2>1 DEF RefInv, ReadyInv
<1>10. CASE RemoveStep
  <2>1. ~fileOpen /\ UNCHANGED <<seq, fileOpen, ppc, prec, api, accepted>>
    BY <1>10, QuietRemove DEF RemoveStep, MayRemove
  <2>2. \A n \in Seqs : files'[n] \in {files[n], Absent}
    BY <1>10, <1>t DEF RemoveStep
  <2>3. EntryInv'
    BY <1>r, <2>1, <2>2 DEF EntryInv, Absent
  <2> QED  BY <1>p, <1>r, <2>1, <2>3 DEF RefInv, ReadyInv
<1>11. CASE PowerCut
  <2>1. /\ ~fileOpen' /\ api' = "idle" /\ \A p \in Producers : ppc'[p] = "idle"
    BY <1>11 DEF PowerCut
  <2>2. \/ files' \in {[files EXCEPT ![seq] = CutAt(files[seq], k)] :
                       k \in files[seq].synced .. Len(files[seq].cells)}
        \/ files' = [files EXCEPT ![seq] = Absent]
        \/ files' = files /\ ~(fileOpen /\ Exists(seq))
    BY <1>11 DEF PowerCut
  <2>3. \A k : CutAt(files[seq], k).st = "cut"
    BY DEF CutAt
  <2>4. EntryInv'
    BY <1>t, <1>r, <2>1, <2>2, <2>3 DEF EntryInv, Absent, Exists
  <2>5. StampInv'
    BY <2>1 DEF StampInv
  <2> QED  BY <1>a, <2>1, <2>4, <2>5 DEF RefInv
<1>12. ASSUME NEW p \in Producers, ProducerStep(p)
       PROVE  RefInv'
  <2>1. UNCHANGED <<files, seq, fileOpen, api>>
    BY <1>12 DEF ProducerStep, Stamp, CheckActive, CheckFull, Push, NoteT
  <2>2. StampInv'
    <3>1. CASE Stamp(p)
      <4>1. PICK l \in Lens : prec' = [prec EXCEPT ![p] = [by |-> p, t |-> clock + 1,
                                                            len |-> l, cap |-> seq]]
        BY <3>1 DEF Stamp
      <4>2. prec'[p].t = clock + 1 /\ \A q \in Producers : q # p => prec'[q] = prec[q]
        BY <1>t, <4>1
      <4>3. clock < MaxStamps /\ \A q \in Producers : q # p => ppc'[q] = ppc[q]
        BY <1>t, <3>1 DEF Stamp
      <4> QED  BY <1>t, <1>r, <4>2, <4>3 DEF StampInv
    <3>2. CASE CheckActive(p) \/ CheckFull(p) \/ Push(p) \/ NoteT(p)
      <4>1. \A q \in Producers : ppc'[q] # "idle" => ppc[q] # "idle"
        BY <1>t, <3>2 DEF CheckActive, CheckFull, Push, NoteT
      <4>2. \A q \in Producers : prec'[q].t = prec[q].t
        <5>1. prec' = prec \/ prec' = [prec EXCEPT ![p].cap = seq]
          BY <3>2 DEF CheckActive, CheckFull, Push, NoteT
        <5>2. [prec[p] EXCEPT !.cap = seq].t = prec[p].t
          BY <1>t DEF Rec
        <5> QED  BY <1>t, <5>1, <5>2
      <4> QED  BY <1>r, <4>1, <4>2 DEF StampInv
    <3> QED  BY <1>12, <3>1, <3>2 DEF ProducerStep
  <2>3. ReadyInv'
    <3>1. CASE Push(p)
      <4>1. api = "idle"
        BY <3>1 DEF Push, OwnInv, HandOver
      <4> QED  BY <1>a, <2>1, <4>1
    <3>2. CASE ~Push(p)
      <4>1. accepted' = accepted
        BY <1>12, <3>2 DEF ProducerStep, Stamp, CheckActive, CheckFull, NoteT
      <4> QED  BY <1>r, <2>1, <4>1 DEF ReadyInv
    <3> QED  BY <3>1, <3>2
  <2> QED  BY <1>k, <2>1, <2>2, <2>3 DEF RefInv
<1> QED
  BY <1>1, <1>2, <1>3, <1>4, <1>5, <1>6, <1>7, <1>8, <1>9, <1>10, <1>11, <1>12
  DEF Next, ApiStep, WriterStep, RemoveAny

-----------------------------------------------------------------------------
(***************************************************************************)
(* The steps of the store, as steps of the log.                            *)
(***************************************************************************)
AbsState == [n \in Seqs |-> LogState(n)]
AbsLog == [n \in Seqs |-> LogOf(n)]

AbsRecords == [by : Producers, t : 0 .. MaxStamps + 1, len : Lens, cap : Seqs]

LEMMA StateSame ==
  ASSUME NEW n, files'[n].st = files[n].st
  PROVE  LogState(n)' = LogState(n)
BY DEF LogState

LEMMA StateAt ==
  ASSUME NEW k \in Seqs, NEW v, LogState(k)' = v,
         \A n \in Seqs : n # k => files'[n].st = files[n].st
  PROVE  AbsState' = [AbsState EXCEPT ![k] = v]
<1>1. \A n \in Seqs : n # k => LogState(n)' = LogState(n)
  BY StateSame
<1>2. \A n \in Seqs : LogState(n)' = IF n = k THEN v ELSE LogState(n)
  BY <1>1
<1>3. AbsState' = [n \in Seqs |-> LogState(n)']
  BY DEF AbsState
<1>4. [AbsState EXCEPT ![k] = v] = [n \in Seqs |-> IF n = k THEN v ELSE LogState(n)]
  BY DEF AbsState
<1>5. [n \in Seqs |-> LogState(n)'] = [n \in Seqs |-> IF n = k THEN v ELSE LogState(n)]
  BY <1>2
<1> QED  BY <1>3, <1>4, <1>5

LEMMA LogAt ==
  ASSUME NEW k \in Seqs, NEW v, LogOf(k)' = v,
         \A n \in Seqs : n # k => LogOf(n)' = LogOf(n)
  PROVE  AbsLog' = [AbsLog EXCEPT ![k] = v]
<1>2. \A n \in Seqs : LogOf(n)' = IF n = k THEN v ELSE LogOf(n)
  OBVIOUS
<1>3. AbsLog' = [n \in Seqs |-> LogOf(n)']
  BY DEF AbsLog
<1>4. [AbsLog EXCEPT ![k] = v] = [n \in Seqs |-> IF n = k THEN v ELSE LogOf(n)]
  BY DEF AbsLog
<1>5. [n \in Seqs |-> LogOf(n)'] = [n \in Seqs |-> IF n = k THEN v ELSE LogOf(n)]
  BY <1>2
<1> QED  BY <1>3, <1>4, <1>5

LEMMA AbsSame ==
  ASSUME \A n \in Seqs : files'[n].st = files[n].st, \A n \in Seqs : LogOf(n)' = LogOf(n)
  PROVE  UNCHANGED <<AbsState, AbsLog>>
<1>1. \A n \in Seqs : LogState(n)' = LogState(n)
  BY StateSame
<1>2. AbsState' = [n \in Seqs |-> LogState(n)'] /\ AbsLog' = [n \in Seqs |-> LogOf(n)']
  BY DEF AbsState, AbsLog
<1>3. [n \in Seqs |-> LogState(n)'] = AbsState
  BY <1>1 DEF AbsState
<1>4. [n \in Seqs |-> LogOf(n)'] = AbsLog
  BY DEF AbsLog
<1> QED  BY <1>2, <1>3, <1>4

\* The log of a capture that is not open is what its file lists; of the open one,
\* what was accepted.
LEMMA LogIs ==
  /\ \A n : ~(fileOpen /\ n = seq) => LogOf(n) = Queued(files[n].cells)
  /\ fileOpen /\ api = "opened" => LogOf(seq) = <<>>
  /\ fileOpen /\ api # "opened" /\ Exists(seq) /\ Conservation => LogOf(seq) = accepted
BY DEF LogOf, Conservation

\* Cells move, or nothing does.
LEMMA Stutters ==
  ASSUME TypeOK, EntryInv, EntryInv', Conservation, Conservation', fileOpen, fileOpen',
         api # "opened", api' # "opened", seq' = seq, accepted' = accepted,
         \A n \in Seqs : n # seq => files'[n] = files[n]
  PROVE  UNCHANGED <<AbsState, AbsLog>>
<1>1. seq \in Seqs /\ files[seq].st = "open" /\ files'[seq].st = "open"
  BY DEF TypeOK, EntryInv
<1>2. LogOf(seq) = accepted
  BY <1>1, LogIs DEF Exists
<1>3. LogOf(seq)' = accepted
  BY <1>1 DEF LogOf, Conservation, Exists
<1>4. \A n \in Seqs : n # seq => LogOf(n)' = LogOf(n)
  BY DEF LogOf
<1> QED  BY <1>1, <1>2, <1>3, <1>4, AbsSame

LEMMA Idles ==
  ASSUME UNCHANGED <<files, seq, fileOpen, api>>, ~fileOpen \/ api = "opened"
  PROVE  UNCHANGED <<AbsState, AbsLog>>
<1>1. \A n \in Seqs : LogOf(n)' = LogOf(n)
  BY DEF LogOf
<1> QED  BY <1>1, AbsSame

LEMMA StateIs ==
  \A n \in Seqs : /\ AbsState[n] = LogState(n) /\ AbsLog[n] = LogOf(n)
                  /\ LogState(n) = "open" <=> files[n].st = "open"
                  /\ LogState(n) = "absent" <=> files[n].st = "absent"
                  /\ LogState(n) \in {"absent", "open", "final"}
BY DEF AbsState, AbsLog, LogState

LEMMA LogOpens ==
  ASSUME NEW k \in Seqs, \A m \in Seqs : LogState(m) # "open",
         \A m \in Seqs : m >= k => LogState(m) = "absent",
         AbsState' = [AbsState EXCEPT ![k] = "open"], AbsLog' = AbsLog
  PROVE  Abstract!LogNext
<1>1. Abstract!Open(k)
  BY DEF Abstract!Open, AbsState, AbsLog
<1> QED  BY <1>1 DEF Abstract!LogNext

LEMMA LogCloses ==
  ASSUME NEW k \in Seqs, LogState(k) = "open",
         AbsState' = [AbsState EXCEPT ![k] = "final"], AbsLog' = AbsLog
  PROVE  Abstract!LogNext
<1>1. Abstract!Close(k)
  BY DEF Abstract!Close, AbsState, AbsLog
<1> QED  BY <1>1 DEF Abstract!LogNext

LEMMA LogCrashes ==
  ASSUME NEW k \in Seqs, LogState(k) = "open", NEW kept \in Prefixes(LogOf(k)),
         AbsState' = [AbsState EXCEPT ![k] = "final"], AbsLog' = [AbsLog EXCEPT ![k] = kept]
  PROVE  Abstract!LogNext
<1>1. AbsLog[k] = LogOf(k) /\ AbsState[k] = "open"
  BY DEF AbsState, AbsLog
<1>2. \E q \in Prefixes(AbsLog[k]) : AbsLog' = [AbsLog EXCEPT ![k] = q]
  BY <1>1
<1>3. Abstract!Crash(k)
  BY <1>1, <1>2, Zenon DEF Abstract!Crash, Abstract!Prefixes, Prefixes, AbsState, AbsLog
<1> QED  BY <1>3 DEF Abstract!LogNext

LEMMA LogAbandoned ==
  ASSUME NEW k \in Seqs, LogState(k) = "open", LogOf(k) = <<>>,
         AbsState' = [AbsState EXCEPT ![k] = "absent"], AbsLog' = AbsLog
  PROVE  Abstract!LogNext
<1>1. Abstract!Abandon(k)
  BY DEF Abstract!Abandon, AbsState, AbsLog
<1> QED  BY <1>1 DEF Abstract!LogNext

LEMMA LogDeleted ==
  ASSUME NEW k \in Seqs, LogState(k) = "final",
         AbsState' = [AbsState EXCEPT ![k] = "absent"], AbsLog' = [AbsLog EXCEPT ![k] = <<>>]
  PROVE  Abstract!LogNext
<1>1. Abstract!Delete(k)
  BY DEF Abstract!Delete, AbsState, AbsLog
<1> QED  BY <1>1 DEF Abstract!LogNext

LEMMA LogAppended ==
  ASSUME NEW k \in Seqs, LogState(k) = "open", NEW r \in AbsRecords, LogOf(k) \in Seq(Rec),
         r \in Rec, AbsState' = AbsState, LogOf(k)' = Append(LogOf(k), r),
         AbsLog' = [AbsLog EXCEPT ![k] = Append(LogOf(k), r)]
  PROVE  Abstract!LogNext
<1>1. AbsLog'[k] = Append(LogOf(k), r) /\ AbsLog[k] = LogOf(k)
  BY DEF AbsLog
<1>2. Append(LogOf(k), r) # <<>> /\ Last(Append(LogOf(k), r)) = r
  <2>1. Len(Append(LogOf(k), r)) = Len(LogOf(k)) + 1 /\ Len(LogOf(k)) \in Nat
        /\ Append(LogOf(k), r)[Len(LogOf(k)) + 1] = r
    BY AppendProperties
  <2>2. Len(<<>>) = 0
    OBVIOUS
  <2> QED  BY <2>1, <2>2 DEF Last
<1>3. AbsLog' = [AbsLog EXCEPT ![k] = Append(AbsLog[k], Last(AbsLog'[k]))]
  BY <1>1, <1>2
<1>4. AbsLog'[k] # <<>> /\ Last(AbsLog'[k]) \in AbsRecords
  BY <1>1, <1>2
<1>5. AbsState[k] = "open"
  BY DEF AbsState
<1>6. Abstract!AppendTo(k)
  BY <1>3, <1>4, <1>5, Zenon
  DEF Abstract!AppendTo, Abstract!Last, Last, AbsState, AbsLog, AbsRecords
<1> QED  BY <1>6 DEF Abstract!LogNext

LEMMA LogInits == Init => Abstract!LogInit
<1> SUFFICES ASSUME Init
             PROVE  Abstract!LogInit
  OBVIOUS
<1>1. \A n \in Seqs : files[n] = Absent /\ ~fileOpen
  BY DEF Init
<1>2. \A n \in Seqs : LogState(n) = "absent"
  BY <1>1 DEF LogState, Absent
<1>3. \A n \in Seqs : LogOf(n) = <<>>
  BY <1>1, QueuedEmpty DEF LogOf, Absent
<1> QED  BY <1>2, <1>3 DEF Abstract!LogInit

\* What a power cut leaves of the open file lists a prefix of what was accepted.
LEMMA CutKeepsPrefix ==
  ASSUME NEW c, NEW w, NEW g, c \in Seq(Cell), w \in Seq(Cell), g \in Seq(Cell),
         NEW k \in 0 .. Len(c)
  PROVE  Queued(SubSeq(c, 1, k)) \in Prefixes(Queued(c \o w \o g))
<1> DEFINE a == SubSeq(c, 1, k)
           b == SubSeq(c, k + 1, Len(c))
<1>1. a \o b = c
  <2>1. 1 \in 1 .. Len(c) + 1 /\ k \in 1 - 1 .. Len(c) /\ Len(c) \in k .. Len(c)
    OBVIOUS
  <2>2. SubSeq(c, 1, k) \o SubSeq(c, k + 1, Len(c)) = SubSeq(c, 1, Len(c))
    BY <2>1, ConcatAdjacentSubSeq
  <2>3. SubSeq(c, 1, Len(c)) = c
    BY SubSeqFull
  <2> QED  BY <2>2, <2>3
<1>2. a \in Seq(Cell) /\ b \in Seq(Cell)
  OBVIOUS
<1> HIDE DEF a, b
<1>3. b \o w \in Seq(Cell) /\ (b \o w) \o g \in Seq(Cell) /\ c \o w \in Seq(Cell)
  BY <1>2, Cells
<1>w. w \in Seq(Cell) /\ g \in Seq(Cell)
  OBVIOUS
<1>4. c \o w = a \o (b \o w)
  <2>1. (a \o b) \o w = a \o (b \o w)
    <3>1. a \in Seq(Cell) /\ b \in Seq(Cell) /\ w \in Seq(Cell)
      BY <1>2, <1>w
    <3>2. InARow(a, b, w)
      BY <3>1, Associates
    <3> QED  BY <3>2 DEF InARow
  <2> QED  BY <1>1, <2>1
<1>5. (c \o w) \o g = a \o ((b \o w) \o g)
  <2>1. (a \o (b \o w)) \o g = a \o ((b \o w) \o g)
    <3> DEFINE e == b \o w
    <3>1. a \in Seq(Cell) /\ e \in Seq(Cell) /\ g \in Seq(Cell)
      BY <1>2, <1>3, <1>w
    <3> HIDE DEF e
    <3>2. (a \o e) \o g = a \o (e \o g)
      <4>1. InARow(a, e, g)
        BY <3>1, Associates
      <4> QED  BY <4>1 DEF InARow
    <3> QED  BY <3>2 DEF e
  <2> QED  BY <1>4, <2>1
<1>6. Queued((c \o w) \o g) = Queued(a) \o Queued((b \o w) \o g)
  BY <1>2, <1>3, <1>5, QueuedConcat
<1> DEFINE x == Queued(a)
           y == Queued((b \o w) \o g)
<1>7. x \in Seq(Rec) /\ y \in Seq(Rec)
  BY <1>2, <1>3, QueuedType
<1> HIDE DEF x, y
<1>8. Len(x) \in 0 .. Len(x \o y) /\ SubSeq(x \o y, 1, Len(x)) = x
  <2>1. Len(x \o y) = Len(x) + Len(y) /\ Len(x) \in Nat /\ Len(y) \in Nat
    BY <1>7
  <2>2. x \o y \in Seq(Rec)
    BY <1>7
  <2>3. Len(SubSeq(x \o y, 1, Len(x))) = Len(x)
        /\ \A i \in 1 .. Len(x) : SubSeq(x \o y, 1, Len(x))[i] = x[i]
    BY <1>7, <2>1, <2>2
  <2>4. SubSeq(x \o y, 1, Len(x)) \in Seq(Rec)
    BY <1>7, <2>1, <2>2
  <2> QED  BY <1>7, <2>1, <2>3, <2>4
<1>9. x \in Prefixes(x \o y)
  BY <1>8 DEF Prefixes
<1> QED  BY <1>6, <1>9 DEF a, x, y

LEMMA LogStep ==
  ASSUME QuietEnd, QuietRemove, TypeInv, HandOver, OwnInv, ConsInv, EndInv, StreamInv, RefInv,
         [Next]_vars, ConsInv', RefInv'
  PROVE  [Abstract!LogNext]_(Abstract!logVars)
<1> SUFFICES Abstract!LogNext \/ UNCHANGED <<AbsState, AbsLog>>
  BY DEF Abstract!logVars, AbsState, AbsLog
<1> USE DEF storeVars, writerVars, ringVars, prodVars, histVars
<1>t. /\ TypeOK /\ files \in [Seqs -> File] /\ seq \in Seqs /\ files[seq] \in File
      /\ files[seq].cells \in Seq(Cell) /\ wbuf \in Seq(Cell) /\ ring \in Seq(Cell)
      /\ accepted \in Seq(Rec) /\ prec \in [Producers -> Rec]
  BY DEF TypeInv, TypeOK, File
<1>c. Conservation /\ Conservation' /\ EntryInv /\ EntryInv' /\ StampInv /\ ReadyInv
  BY DEF ConsInv, RefInv
<1>w. ASSUME NEW f, WriteFile(f)
      PROVE  \A n \in Seqs : n # seq => files'[n] = files[n]
  BY <1>t, <1>w DEF WriteFile
<1>1. CASE BeginOpen
  <2>1. PICK n \in 0 .. MaxSeq - 1 : /\ IsMaxSeq(n) /\ files' = [files EXCEPT ![n + 1] = NewFile]
                                     /\ seq' = n + 1
    BY <1>1 DEF BeginOpen
  <2>2. PICK k \in Seqs : k = n + 1
    BY <2>1, StoreAssumption DEF Seqs
  <2>3. ~fileOpen /\ fileOpen' /\ api' = "opened"
    BY <1>1 DEF BeginOpen
  <2>4. files'[k].st = "open" /\ \A m \in Seqs : m # k => files'[m] = files[m]
    BY <1>t, <2>1, <2>2 DEF NewFile, Absent
  <2>5. \A m \in Seqs : m >= k => files[m].st = "absent"
    <3>1. \A m \in Seqs : m >= k => m > n
      BY <2>1, <2>2 DEF Seqs
    <3> QED  BY <2>1, <3>1 DEF IsMaxSeq, Exists
  <2>6. \A m \in Seqs : files[m].st # "open"
    BY <1>c, <2>3 DEF EntryInv
  <2>7. LogState(k)' = "open"
    BY <2>4 DEF LogState
  <2>8. AbsState' = [AbsState EXCEPT ![k] = "open"]
    BY <2>4, <2>7, StateAt
  <2>9. \A m \in Seqs : LogOf(m)' = LogOf(m)
    <3>1. LogOf(k)' = <<>>
      BY <2>1, <2>2, <2>3 DEF LogOf
    <3>2. files[k].cells = <<>>
      <4>1. k >= k
        BY DEF Seqs
      <4> QED  BY <1>c, <2>5, <4>1 DEF EntryInv
    <3>3. LogOf(k) = <<>>
      BY <2>3, <3>2, QueuedEmpty DEF LogOf
    <3>4. \A m \in Seqs : m # k => LogOf(m)' = LogOf(m)
      BY <2>1, <2>2, <2>3, <2>4 DEF LogOf
    <3> QED  BY <3>1, <3>3, <3>4
  <2>10. AbsLog' = AbsLog
    BY <2>9 DEF AbsLog
  <2> QED  BY <2>5, <2>6, <2>8, <2>10, StateIs, LogOpens
<1>2. CASE BeginHeader
  <2>1. /\ WriteFile([files[seq] EXCEPT !.hdr = TRUE]) /\ fileOpen /\ fileOpen' /\ seq' = seq
        /\ api = "opened" /\ api' = "ready" /\ accepted' = <<>>
    BY <1>2 DEF BeginHeader, HandOver
  <2>2. files[seq].st = "open" /\ files'[seq].st = "open"
    BY <1>c, <2>1 DEF EntryInv
  <2>3. LogOf(seq) = <<>> /\ LogOf(seq)' = <<>>
    BY <1>c, <2>1, <2>2 DEF LogOf, Conservation, Exists
  <2>4. \A n \in Seqs : n # seq => files'[n] = files[n]
    BY <1>w, <2>1
  <2>5. \A n \in Seqs : LogOf(n)' = LogOf(n)
    BY <2>1, <2>3, <2>4 DEF LogOf
  <2>6. \A n \in Seqs : files'[n].st = files[n].st
    BY <2>2, <2>4
  <2> QED  BY <2>5, <2>6, AbsSame
<1>3. CASE BeginFail
  <2>1. /\ files' = [files EXCEPT ![seq] = Absent] /\ ~fileOpen' /\ seq' = seq /\ fileOpen
        /\ api \in {"opened", "ready"}
    BY <1>3 DEF BeginFail, HandOver
  <2>2. PICK k \in Seqs : k = seq
    BY <1>t
  <2>3. files'[k] = Absent /\ \A m \in Seqs : m # k => files'[m] = files[m]
    BY <1>t, <2>1, <2>2
  <2>4. files[seq].st = "open" /\ LogState(k) = "open"
    BY <1>c, <2>1, <2>2, StateIs DEF EntryInv
  <2>5. LogOf(k) = <<>>
    <3>1. CASE api = "opened"
      BY <2>1, <2>2, <3>1 DEF LogOf
    <3>2. CASE api = "ready"
      BY <1>c, <2>1, <2>2, <2>4, <3>2 DEF LogOf, Conservation, ReadyInv, Exists
    <3> QED  BY <2>1, <3>1, <3>2
  <2>6. LogOf(k)' = <<>>
    BY <2>1, <2>3, QueuedEmpty DEF LogOf, Absent
  <2>7. \A m \in Seqs : m # k => LogOf(m)' = LogOf(m)
    BY <2>1, <2>2, <2>3 DEF LogOf
  <2>8. AbsLog' = AbsLog
    BY <2>5, <2>6, <2>7 DEF AbsLog
  <2>9. AbsState' = [AbsState EXCEPT ![k] = "absent"]
    <3>1. LogState(k)' = "absent"
      BY <2>3 DEF LogState, Absent
    <3> QED  BY <2>3, <3>1, StateAt
  <2> QED  BY <2>4, <2>5, <2>8, <2>9, LogAbandoned
<1>4. CASE EndClose
  <2> DEFINE f == [Synced(files[seq]) EXCEPT !.dur = lastT, !.st = "closed"]
  <2>1. WriteFile(f) /\ ~fileOpen' /\ seq' = seq /\ fileOpen /\ api = "joined"
    BY <1>4 DEF EndClose, HandOver
  <2>2. f.cells = files[seq].cells /\ f.st = "closed"
    BY <1>t DEF Synced, File
  <2> HIDE DEF f
  <2>3. PICK k \in Seqs : k = seq
    BY <1>t
  <2>4. files[seq].st = "open" /\ LogState(k) = "open" /\ Exists(seq)
    BY <1>c, <2>1, <2>3, StateIs DEF EntryInv, Exists
  <2>5. files'[k] = f /\ \A m \in Seqs : m # k => files'[m] = files[m]
    BY <1>t, <2>1, <2>3, <2>4 DEF WriteFile
  <2>6. wbuf = <<>> /\ ring = <<>>
    BY <2>1 DEF EndInv, ConsInv, HandOver
  <2>7. LogOf(k)' = Queued(files[k].cells)
    BY <2>1, <2>2, <2>3, <2>5 DEF LogOf
  <2>8. LogOf(k) = Queued(files[k].cells)
    <3>1. (files[seq].cells \o <<>>) \o <<>> = files[seq].cells
      BY <1>t, ConcatEmptySeq
    <3> QED  BY <2>1, <2>3, <2>6, <3>1 DEF LogOf
  <2>9. \A m \in Seqs : m # k => LogOf(m)' = LogOf(m)
    BY <2>1, <2>3, <2>5 DEF LogOf
  <2>10. AbsLog' = AbsLog
    BY <2>7, <2>8, <2>9 DEF AbsLog
  <2>11. AbsState' = [AbsState EXCEPT ![k] = "final"]
    <3>1. LogState(k)' = "final"
      BY <2>2, <2>5 DEF LogState
    <3> QED  BY <2>5, <3>1, StateAt
  <2> QED  BY <2>4, <2>10, <2>11, LogCloses
<1>5. CASE BeginLaunch \/ BeginActivate \/ EndCall \/ EndRequest \/ EndJoin
  <2>1. /\ UNCHANGED <<files, seq, fileOpen, accepted>> /\ fileOpen
        /\ api # "opened" /\ api' # "opened"
    BY <1>5 DEF BeginLaunch, BeginActivate, EndCall, EndRequest, EndJoin, HandOver
  <2>2. fileOpen'
    BY <2>1
  <2> QED  BY <1>t, <1>c, <2>1, <2>2, Stutters
<1>6. CASE SetAddrs
  <2>1. /\ WriteFile(Synced(files[seq])) /\ UNCHANGED <<seq, fileOpen, accepted, api>> /\ fileOpen
        /\ api # "opened"
    BY <1>6 DEF SetAddrs
  <2>2. fileOpen' /\ api' # "opened" /\ \A n \in Seqs : n # seq => files'[n] = files[n]
    BY <1>w, <2>1
  <2> QED  BY <1>t, <1>c, <2>1, <2>2, Stutters
<1>7. CASE WriterStep
  <2>1. wpc # "none" /\ UNCHANGED <<seq, fileOpen, accepted, api>>
    BY <1>7 DEF WriterStep, WriterPop, WriterWrite, WriterReadStop, WriterSync, WriterNoSync,
                WriterSpaceLeft, WriterSpaceLow, WriterEvent, WriterEventSync, WriterExit
  <2>2. fileOpen /\ fileOpen' /\ api # "opened" /\ api' # "opened"
    BY <2>1 DEF HandOver
  <2>3. UNCHANGED files \/ \E f : WriteFile(f)
    BY <1>7 DEF WriterStep, WriterPop, WriterWrite, WriterReadStop, WriterSync, WriterNoSync,
                WriterSpaceLeft, WriterSpaceLow, WriterEvent, WriterEventSync, WriterExit
  <2>4. \A n \in Seqs : n # seq => files'[n] = files[n]
    BY <1>w, <2>3
  <2> QED  BY <1>t, <1>c, <2>1, <2>2, <2>4, Stutters
<1>8. CASE RemoveOne \/ RemoveAll
  <2>1. UNCHANGED <<files, seq, fileOpen, api>> /\ ~fileOpen
    BY <1>8, QuietRemove DEF RemoveOne, RemoveAll, MayRemove
  <2> QED  BY <2>1, Idles
<1>9. CASE RemoveStep
  <2>1. ~fileOpen /\ UNCHANGED <<seq, fileOpen, api>> /\ ~active
    BY <1>9, QuietRemove DEF RemoveStep, MayRemove, HandOver
  <2>2. PICK k \in Seqs : files' = [files EXCEPT ![k] = Absent]
    BY <1>9, <2>1 DEF RemoveStep, TypeInv, TypeOK
  <2>3. files'[k] = Absent /\ \A m \in Seqs : m # k => files'[m] = files[m]
    BY <1>t, <2>2
  <2>4. LogOf(k)' = <<>>
    BY <2>1, <2>3, QueuedEmpty DEF LogOf, Absent
  <2>5. \A m \in Seqs : m # k => LogOf(m)' = LogOf(m)
    BY <2>1, <2>3 DEF LogOf
  <2>6. files[k].st # "open"
    BY <1>c, <2>1 DEF EntryInv
  <2>7. CASE files[k].st = "absent"
    <3>1. LogOf(k) = <<>>
      BY <1>c, <2>1, <2>7, QueuedEmpty DEF LogOf, EntryInv
    <3>2. \A m \in Seqs : files'[m].st = files[m].st
      BY <2>3, <2>7 DEF Absent
    <3> QED  BY <2>4, <2>5, <3>1, <3>2, AbsSame
  <2>8. CASE files[k].st # "absent"
    <3>1. LogState(k) = "final"
      BY <2>6, <2>8, StateIs
    <3>2. LogState(k)' = "absent"
      BY <2>3 DEF LogState, Absent
    <3>3. AbsState' = [AbsState EXCEPT ![k] = "absent"]
      BY <2>3, <3>2, StateAt
    <3>4. AbsLog' = [AbsLog EXCEPT ![k] = <<>>]
      BY <2>4, <2>5, LogAt
    <3> QED  BY <3>1, <3>3, <3>4, LogDeleted
  <2> QED  BY <2>7, <2>8
<1>10. CASE PowerCut
  <2>1. ~fileOpen'
    BY <1>10 DEF PowerCut
  <2>2. CASE ~fileOpen
    <3>1. files' = files
      BY <1>10, <2>2 DEF PowerCut
    <3>2. \A n \in Seqs : LogOf(n)' = LogOf(n)
      BY <2>1, <2>2, <3>1 DEF LogOf
    <3> QED  BY <3>1, <3>2, AbsSame
  <2>3. CASE fileOpen
    <3>0. PICK k \in Seqs : k = seq
      BY <1>t
    <3>1. files[seq].st = "open" /\ Exists(seq) /\ LogState(k) = "open"
      BY <1>c, <2>3, <3>0, StateIs DEF EntryInv, Exists
    <3>2. CASE files' = [files EXCEPT ![seq] = Absent] /\ ~files[seq].hdr
      <4>1. api = "opened"
        BY <2>3, <3>1, <3>2 DEF StreamInv, Streaming
      <4>2. LogOf(k) = <<>>
        BY <2>3, <3>0, <4>1 DEF LogOf
      <4>3. files'[k] = Absent /\ \A m \in Seqs : m # k => files'[m] = files[m]
        BY <1>t, <3>0, <3>2
      <4>4. LogOf(k)' = <<>> /\ \A m \in Seqs : m # k => LogOf(m)' = LogOf(m)
        BY <2>1, <3>0, <4>3, QueuedEmpty DEF LogOf, Absent
      <4>5. AbsLog' = AbsLog
        BY <4>2, <4>4 DEF AbsLog
      <4>6. LogState(k)' = "absent"
        BY <4>3 DEF LogState, Absent
      <4>7. AbsState' = [AbsState EXCEPT ![k] = "absent"]
        BY <4>3, <4>6, StateAt
      <4> QED  BY <3>1, <4>2, <4>5, <4>7, LogAbandoned
    <3>3. ASSUME NEW i \in files[seq].synced .. Len(files[seq].cells),
                 files' = [files EXCEPT ![seq] = CutAt(files[seq], i)]
          PROVE  Abstract!LogNext
      <4>1. files'[k] = CutAt(files[seq], i) /\ \A m \in Seqs : m # k => files'[m] = files[m]
        BY <1>t, <3>0, <3>3
      <4>2. files'[k].st = "cut" /\ files'[k].cells = SubSeq(files[seq].cells, 1, i)
        BY <4>1 DEF CutAt
      <4>3. i \in 0 .. Len(files[seq].cells)
        BY <1>t DEF File
      <4> DEFINE kept == Queued(SubSeq(files[seq].cells, 1, i))
      <4>4. kept \in Prefixes(LogOf(k))
        <5>1. CASE api = "opened"
          <6>1. files[seq].cells = <<>> /\ LogOf(k) = <<>>
            BY <2>3, <3>0, <5>1 DEF LogOf, ConsInv
          <6>2. SubSeq(<<>>, 1, i) = <<>>
            BY <4>3, <6>1
          <6>3. kept = <<>>
            BY <6>1, <6>2, QueuedEmpty
          <6>4. <<>> \in Prefixes(<<>>)
            <7>1. SubSeq(<<>>, 1, 0) = <<>> /\ 0 \in 0 .. Len(<<>>)
              OBVIOUS
            <7> QED  BY <7>1 DEF Prefixes
          <6> QED  BY <6>1, <6>3, <6>4
        <5>2. CASE api # "opened"
          <6>1. LogOf(k) = Queued(files[seq].cells \o wbuf \o ring)
            BY <2>3, <3>0, <5>2 DEF LogOf
          <6> QED  BY <1>t, <4>3, <6>1, CutKeepsPrefix
        <5> QED  BY <5>1, <5>2
      <4>5. LogOf(k)' = kept
        BY <2>1, <4>2 DEF LogOf
      <4> HIDE DEF kept
      <4>6. \A m \in Seqs : m # k => LogOf(m)' = LogOf(m)
        BY <2>1, <3>0, <4>1 DEF LogOf
      <4>7. AbsLog' = [AbsLog EXCEPT ![k] = kept]
        BY <4>5, <4>6, LogAt
      <4>8. LogState(k)' = "final"
        BY <4>2 DEF LogState
      <4>9. AbsState' = [AbsState EXCEPT ![k] = "final"]
        BY <4>1, <4>8, StateAt
      <4> QED  BY <3>1, <4>4, <4>7, <4>9, LogCrashes
    <3> QED
      <4>1. \/ \E i \in files[seq].synced .. Len(files[seq].cells) :
                  files' = [files EXCEPT ![seq] = CutAt(files[seq], i)]
            \/ files' = [files EXCEPT ![seq] = Absent] /\ ~files[seq].hdr
        BY <1>10, <2>3, <3>1 DEF PowerCut
      <4> QED  BY <3>2, <3>3, <4>1
  <2> QED  BY <2>2, <2>3
<1>11. ASSUME NEW p \in Producers, ProducerStep(p)
       PROVE  Abstract!LogNext \/ UNCHANGED <<AbsState, AbsLog>>
  <2>1. UNCHANGED <<files, seq, fileOpen, api>>
    BY <1>11 DEF ProducerStep, Stamp, CheckActive, CheckFull, Push, NoteT
  <2>2. CASE accepted' = accepted
    <3>1. CASE fileOpen /\ api # "opened"
      <4>1. fileOpen' /\ api' # "opened" /\ \A n \in Seqs : n # seq => files'[n] = files[n]
        BY <2>1, <3>1
      <4> QED  BY <1>t, <1>c, <2>1, <2>2, <3>1, <4>1, Stutters
    <3>2. CASE ~(fileOpen /\ api # "opened")
      BY <2>1, <3>2, Idles
    <3> QED  BY <3>1, <3>2
  <2>3. CASE accepted' # accepted
    <3>1. Push(p) /\ accepted' = Append(accepted, prec[p])
      BY <1>11, <2>3 DEF ProducerStep, Stamp, CheckActive, CheckFull, Push, NoteT
    <3>2. ppc[p] = "push" /\ active
      BY <3>1 DEF Push, OwnInv
    <3>3. fileOpen /\ api = "idle"
      BY <3>2 DEF HandOver
    <3>4. prec[p].t <= MaxStamps /\ prec[p].by = p /\ prec[p] \in Rec
      BY <1>t, <1>c, <3>2 DEF StampInv, ConsInv
    <3>5. prec[p] \in AbsRecords
      BY <3>4, StoreAssumption DEF AbsRecords, Rec, Stamps
    <3>6. PICK k \in Seqs, r \in {prec[p]} : k = seq /\ r = prec[p]
      BY <1>t
    <3>7. files[seq].st = "open" /\ LogState(k) = "open" /\ Exists(seq)
      BY <1>c, <3>3, <3>6, StateIs DEF EntryInv, Exists
    <3>8. LogOf(k) = accepted
      BY <1>c, <3>3, <3>6, <3>7 DEF LogOf, Conservation
    <3>9. LogOf(k)' = accepted'
      BY <1>c, <2>1, <3>3, <3>6, <3>7 DEF LogOf, Conservation, Exists
    <3>10. LogOf(k)' = Append(LogOf(k), r)
      BY <3>1, <3>6, <3>8, <3>9
    <3>11. \A m \in Seqs : m # k => LogOf(m)' = LogOf(m)
      BY <2>1, <3>6 DEF LogOf
    <3>12. AbsLog' = [AbsLog EXCEPT ![k] = Append(LogOf(k), r)]
      <4>1. PICK v : v = Append(LogOf(k), r)
        OBVIOUS
      <4> QED  BY <3>10, <3>11, <4>1, LogAt
    <3>13. AbsState' = AbsState
      BY <2>1 DEF AbsState, LogState
    <3> QED
      BY <1>t, <3>4, <3>5, <3>6, <3>7, <3>8, <3>10, <3>12, <3>13, LogAppended
  <2> QED  BY <2>2, <2>3
<1>12. CASE UNCHANGED vars
  <2>1. UNCHANGED <<files, seq, fileOpen, api, wbuf, ring>>
    BY <1>12 DEF vars
  <2>2. \A n \in Seqs : LogOf(n)' = LogOf(n)
    BY <2>1 DEF LogOf
  <2> QED  BY <2>1, <2>2, AbsSame
<1> QED
  BY <1>1, <1>2, <1>3, <1>4, <1>5, <1>6, <1>7, <1>8, <1>9, <1>10, <1>11, <1>12
  DEF Next, ApiStep, RemoveAny

\* The ring, the writer task and the file are the numbered log that capture_store.h
\* promises, for every ring, every number of producers and of power cuts.
THEOREM StoreIsLog == QuietEnd /\ QuietRemove => (Spec => ImplementsLog)
<1> SUFFICES ASSUME QuietEnd, QuietRemove
             PROVE  Spec => ImplementsLog
  OBVIOUS
<1> DEFINE IInv == /\ TypeInv /\ HandOver /\ OpenEntry /\ OwnInv /\ ConsInv /\ EndInv /\ EventInv
                   /\ StreamInv /\ RefInv
<1>1. Init => IInv
  BY TypeInit, HandOverInit, OpenEntryInit, OwnInit, ConsInit, EndInit, EventInit, StreamInit,
     RefInit
<1>2. IInv /\ [Next]_vars => IInv' /\ [Abstract!LogNext]_(Abstract!logVars)
  <2> SUFFICES ASSUME IInv, [Next]_vars
               PROVE  IInv' /\ [Abstract!LogNext]_(Abstract!logVars)
    OBVIOUS
  <2>1. TypeInv' /\ HandOver' /\ OpenEntry' /\ ConsInv'
    BY TypeStep, HandOverStep, EntryStep, ConsStep
  <2>2. OwnInv' /\ EndInv'
    BY OwnStep, EndStep
  <2>3. EventInv' /\ StreamInv'
    BY EventStep, StreamStep
  <2>4. RefInv'
    BY RefStep
  <2>5. [Abstract!LogNext]_(Abstract!logVars)
    BY <2>1, <2>4, LogStep
  <2> QED  BY <2>1, <2>2, <2>3, <2>4, <2>5
<1>3. Init => Abstract!LogInit
  BY LogInits
<1> QED
  <2> HIDE DEF IInv
  <2> QED  BY <1>1, <1>2, <1>3, PTL DEF Spec, ImplementsLog, Abstract!LogSpec
=============================================================================
