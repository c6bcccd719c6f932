---------------------------- MODULE Readout_proofs ----------------------------
(***************************************************************************)
(* The list of networks keeps its shape under two tasks that edit it       *)
(* without a lock, a complete download is a whole capture, and whoever     *)
(* edits the list alone is told what became of it, for every length of     *)
(* list, capture and body and any number of requests.                      *)
(***************************************************************************)
EXTENDS Readout, TLAPS, SequenceTheorems

Net == [ssid : Names, key : Keys]

\* No network twice, and no more than there is room for.
Sound(l) ==
  /\ l \in Seq(Net) /\ Len(l) <= NetMax
  /\ \A i, j \in 1 .. Len(l) : l[i].ssid = l[j].ssid => i = j

-----------------------------------------------------------------------------
\* What IndexOf() finds in such a list is there once.
LEMMA Found ==
  ASSUME NEW l, Sound(l), NEW s, IndexOf(l, s) # {}
  PROVE  /\ Min(IndexOf(l, s)) \in 1 .. Len(l)
         /\ l[Min(IndexOf(l, s))].ssid = s
<1>1. DOMAIN l = 1 .. Len(l)
  BY DEF Sound
<1>2. PICK i \in 1 .. Len(l) : IndexOf(l, s) = {i} /\ l[i].ssid = s
  BY <1>1 DEF Sound, IndexOf
<1>3. Min({i}) = i
  BY DEF Min
<1> QED BY <1>2, <1>3

\* wifi_store_add() keeps a list as it must be.
LEMMA AddedSound ==
  ASSUME NEW l, Sound(l), NEW n \in Net
  PROVE  Sound(Added(l, n))
<1>1. NetMax \in Nat \ {0}
  BY ReadoutAssumption
<1>2. CASE IndexOf(l, n.ssid) # {}
  <2> DEFINE i == Min(IndexOf(l, n.ssid))
             m == [l EXCEPT ![i] = n]
  <2>1. i \in 1 .. Len(l) /\ l[i].ssid = n.ssid
    BY <1>2, Found
  <2>2. Added(l, n) = m
    BY <1>2 DEF Added, Replace
  <2> HIDE DEF i
  <2>3. /\ m \in Seq(Net) /\ Len(m) = Len(l)
        /\ \A j \in 1 .. Len(l) : m[j] = IF j = i THEN n ELSE l[j]
    BY <2>1 DEF Sound
  <2>4. \A j \in 1 .. Len(l) : m[j].ssid = l[j].ssid
    BY <2>1, <2>3
  <2> HIDE DEF m
  <2> QED BY <2>2, <2>3, <2>4 DEF Sound
<1>3. CASE IndexOf(l, n.ssid) = {} /\ Len(l) >= NetMax
  BY <1>3 DEF Added
<1>4. CASE IndexOf(l, n.ssid) = {} /\ ~(Len(l) >= NetMax)
  <2> DEFINE m == Append(l, n)
  <2>1. Added(l, n) = m
    BY <1>4 DEF Added
  <2>2. l \in Seq(Net) /\ Len(l) \in Nat
    BY DEF Sound
  <2>3. /\ m \in Seq(Net) /\ Len(m) = Len(l) + 1
        /\ \A j \in 1 .. Len(l) : m[j] = l[j]
        /\ m[Len(l) + 1] = n
    BY <2>2, AppendProperties
  <2>4. \A j \in 1 .. Len(l) : l[j].ssid # n.ssid
    BY <1>4 DEF IndexOf, Sound
  <2> HIDE DEF m
  <2>5. ASSUME NEW j \in 1 .. Len(m), NEW k \in 1 .. Len(m), m[j].ssid = m[k].ssid
        PROVE  j = k
    <3>1. j \in 1 .. Len(l) \/ j = Len(l) + 1
      BY <2>2, <2>3
    <3>2. k \in 1 .. Len(l) \/ k = Len(l) + 1
      BY <2>2, <2>3
    <3> QED BY <2>3, <2>4, <2>5, <3>1, <3>2 DEF Sound
  <2>6. Len(m) <= NetMax
    BY <1>1, <1>4, <2>2, <2>3
  <2> QED BY <2>1, <2>3, <2>5, <2>6 DEF Sound
<1> QED BY <1>2, <1>3, <1>4

\* wifi_store_del(): the list without the one network, the ones behind it moved up.
LEMMA RemovedList ==
  ASSUME NEW l, Sound(l), NEW s, IndexOf(l, s) # {}
  PROVE  LET i == Min(IndexOf(l, s))
             m == Removed(l, s)
         IN  /\ m \in Seq(Net) /\ Len(m) = Len(l) - 1
             /\ \A j \in 1 .. Len(m) : m[j] = l[IF j < i THEN j ELSE j + 1]
<1> DEFINE i == Min(IndexOf(l, s))
           a == SubSeq(l, 1, i - 1)
           b == SubSeq(l, i + 1, Len(l))
           m == a \o b
<1>1. i \in 1 .. Len(l)
  BY Found
<1>2. Removed(l, s) = m
  BY DEF Removed, RemoveAt
<1>3. l \in Seq(Net) /\ Len(l) \in Nat
  BY DEF Sound
<1> HIDE DEF i
<1>4. a \in Seq(Net) /\ Len(a) = i - 1 /\ \A j \in 1 .. i - 1 : a[j] = l[j]
  BY <1>1, <1>3, SubSeqProperties
<1>5. /\ b \in Seq(Net) /\ Len(b) = Len(l) - i
      /\ \A j \in 1 .. Len(l) - i : b[j] = l[i + j]
  BY <1>1, <1>3, SubSeqProperties
<1> HIDE DEF a, b
<1>c. /\ m \in Seq(Net) /\ Len(m) = Len(a) + Len(b)
      /\ \A j \in 1 .. Len(a) + Len(b) : m[j] = IF j <= Len(a) THEN a[j] ELSE b[j - Len(a)]
  BY <1>4, <1>5, ConcatProperties
<1> HIDE DEF m
<1>6. m \in Seq(Net) /\ Len(m) = Len(l) - 1
  BY <1>1, <1>3, <1>4, <1>5, <1>c
<1>7. ASSUME NEW j \in 1 .. Len(m) PROVE m[j] = l[IF j < i THEN j ELSE j + 1]
  <2>n. i \in Nat /\ j \in Nat /\ 1 <= j /\ j <= Len(l) - 1 /\ 1 <= i /\ i <= Len(l)
    BY <1>1, <1>3, <1>6
  <2>m. m[j] = IF j <= Len(a) THEN a[j] ELSE b[j - Len(a)]
    <3>1. j \in 1 .. Len(a) + Len(b)
      BY <1>3, <1>4, <1>5, <2>n
    <3> QED BY <1>c, <3>1
  <2>1. CASE j < i
    <3>1. j <= Len(a) /\ j \in 1 .. i - 1
      BY <1>4, <2>n, <2>1
    <3> QED BY <1>4, <2>m, <2>1, <3>1
  <2>2. CASE ~(j < i)
    <3>1. ~(j <= Len(a)) /\ j - Len(a) \in 1 .. Len(l) - i
      BY <1>3, <1>4, <2>n, <2>2
    <3>2. i + (j - Len(a)) = j + 1
      BY <1>4, <2>n
    <3> QED BY <1>5, <2>m, <2>2, <3>1, <3>2
  <2> QED BY <2>1, <2>2
<1> QED BY <1>2, <1>6, <1>7 DEF i

\* It keeps a list as it must be.
LEMMA RemovedSound ==
  ASSUME NEW l, Sound(l), NEW s
  PROVE  Sound(Removed(l, s))
<1>1. CASE IndexOf(l, s) = {}
  BY <1>1 DEF Removed
<1>2. CASE IndexOf(l, s) # {}
  <2> DEFINE i == Min(IndexOf(l, s))
             m == Removed(l, s)
  <2>1. i \in 1 .. Len(l)
    BY <1>2, Found
  <2>3. l \in Seq(Net) /\ Len(l) \in Nat
    BY DEF Sound
  <2>6. m \in Seq(Net) /\ Len(m) = Len(l) - 1
    BY <1>2, RemovedList
  <2>7. \A j \in 1 .. Len(m) : m[j] = l[IF j < i THEN j ELSE j + 1]
    BY <1>2, RemovedList
  <2> HIDE DEF i, m
  <2>8. ASSUME NEW j \in 1 .. Len(m), NEW k \in 1 .. Len(m), m[j].ssid = m[k].ssid
        PROVE  j = k
    <3> DEFINE from(x) == IF x < i THEN x ELSE x + 1
    <3>n. /\ i \in Nat /\ 1 <= i /\ i <= Len(l)
          /\ j \in Nat /\ 1 <= j /\ j <= Len(l) - 1
          /\ k \in Nat /\ 1 <= k /\ k <= Len(l) - 1
      BY <2>1, <2>3, <2>6
    <3>1. from(j) \in 1 .. Len(l) /\ from(k) \in 1 .. Len(l)
      BY <2>3, <3>n
    <3>2. l[from(j)].ssid = l[from(k)].ssid
      <4>1. m[j] = l[from(j)]
        BY <2>7
      <4>2. m[k] = l[from(k)]
        BY <2>7
      <4> QED BY <2>8, <4>1, <4>2
    <3> HIDE DEF from
    <3>3. from(j) = from(k)
      BY <3>1, <3>2 DEF Sound
    <3> QED BY <3>n, <3>3 DEF from
  <2>9. Len(m) <= NetMax
    BY <2>3, <2>6, ReadoutAssumption DEF Sound
  <2> QED BY <2>6, <2>8, <2>9 DEF Sound, m
<1> QED BY <1>1, <1>2

-----------------------------------------------------------------------------
(***************************************************************************)
(* The invariant.                                                          *)
(***************************************************************************)
Places == {"idle", "load", "save", "done", "body", "set", "index", "settings", "remove",
           "open", "send", "stop"}

\* What a caller was asked to add can have been typed.
Typed(o) == o.kind = "add" => o.ssid \in Names /\ o.key \in Keys

NetsInv ==
  /\ Sound(nets)
  /\ list = [c \in Callers |-> list[c]] /\ \A c \in Callers : Sound(list[c])

OpInv ==
  /\ at \in [Callers -> Places]
  /\ op = [c \in Callers |-> op[c]] /\ \A c \in Callers : Typed(op[c])
  /\ at["console"] = "remove" =>
       op["console"] = [kind |-> "caprm", seqs |-> op["console"].seqs]

\* The download under way has received what was sent of it.
SentInv ==
  /\ files \subseteq Captures
  /\ saved \in [Tabs -> [seq : Captures \cup {0}, blocks : Nat, whole : BOOLEAN]]
  /\ at["httpd"] = "open" => op["httpd"].tab \in Tabs
  /\ at["httpd"] = "send" =>
       LET x == saved[op["httpd"].tab] IN
         /\ op["httpd"].tab \in Tabs
         /\ x.seq = op["httpd"].seq /\ x.blocks = pos /\ x.whole = FALSE

LEMMA EmptySound == Sound(<<>>)
  BY ReadoutAssumption, EmptySeq DEF Sound

LEMMA InitInv == Init => NetsInv /\ OpInv
<1> SUFFICES ASSUME Init PROVE NetsInv /\ OpInv
  OBVIOUS
<1>1. NetsInv
  BY EmptySound DEF Init, NetsInv
<1>2. OpInv
  BY DEF Init, OpInv, Typed, NoOp, Callers, Places
<1> QED BY <1>1, <1>2

\* A request or a command is taken on, by the caller c.
LEMMA TakenOn ==
  ASSUME OpInv, NEW c \in Callers, NEW o, NEW to \in Places, Typed(o),
         c = "console" /\ to = "remove" => o = [kind |-> "caprm", seqs |-> o.seqs],
         op' = [op EXCEPT ![c] = o], at' = [at EXCEPT ![c] = to]
  PROVE  OpInv'
<1>1. op' = [d \in Callers |-> IF d = c THEN o ELSE op[d]]
  BY DEF OpInv
<1>2. at' = [d \in Callers |-> IF d = c THEN to ELSE at[d]]
  BY DEF OpInv
<1>3. \A d \in Callers : op'[d] = IF d = c THEN o ELSE op[d]
  BY <1>1
<1>4. \A d \in Callers : Typed(op'[d])
  BY <1>3 DEF OpInv
<1>5. at' \in [Callers -> Places]
  BY <1>2 DEF OpInv
<1>6. at'["console"] = "remove" =>
        op'["console"] = [kind |-> "caprm", seqs |-> op'["console"].seqs]
  BY <1>2, <1>3 DEF OpInv, Callers
<1>7. op' = [d \in Callers |-> op'[d]]
  BY <1>1
<1> QED BY <1>4, <1>5, <1>6, <1>7 DEF OpInv, Typed

\* A caller moves on with what it was asked for.
LEMMA MovesOn ==
  ASSUME OpInv, NEW c \in Callers, NEW to \in Places, to # "remove", op' = op,
         at' = [at EXCEPT ![c] = to]
  PROVE  OpInv'
<1>1. at' = [d \in Callers |-> IF d = c THEN to ELSE at[d]]
  BY DEF OpInv
<1> QED BY <1>1 DEF OpInv, Typed, Callers

LEMMA StepOp == OpInv /\ [Next]_vars => OpInv'
<1> SUFFICES ASSUME OpInv, [Next]_vars PROVE OpInv'
  OBVIOUS
<1> USE DEF callVars, pageVars, Goes, Ends
<1>c. "httpd" \in Callers /\ "console" \in Callers
  BY DEF Callers
<1>p. {"idle", "load", "save", "done", "body", "set", "index", "settings", "remove",
       "open", "send", "stop"} \subseteq Places
  BY DEF Places
<1>1. ASSUME NEW c \in Callers, Load(c) \/ Save(c) PROVE OpInv'
  <2>1. op' = op /\ \E to \in {"save", "done"} : at' = [at EXCEPT ![c] = to]
    BY <1>1 DEF Load, Save, Edit
  <2> QED BY <2>1, <1>p, MovesOn
<1>2. CASE TimesOut \/ SetChannel \/ SendIndex \/ SendSettings \/ PageFails \/ RmPost
           \/ OpenFile \/ SendEnd \/ SendFails \/ Receive
  <2>1. op' = op /\ \E to \in {"save", "done", "body", "set", "load", "send"} :
                     at' = [at EXCEPT !["httpd"] = to]
    BY <1>2 DEF TimesOut, Waits, SetChannel, SendIndex, SendSettings, PageFails, RmPost,
                OpenFile, SendEnd, SendFails, Receive, BodyDone
  <2> QED BY <2>1, <1>c, <1>p, MovesOn
<1>3. CASE SendBlock
  BY <1>3 DEF SendBlock, OpInv, Typed
<1>4. ASSUME NEW c \in Callers, Answer(c) PROVE OpInv'
  <2>1. op' = [op EXCEPT ![c] = NoOp] /\ at' = [at EXCEPT ![c] = "idle"]
    BY <1>4 DEF Answer
  <2>2. Typed(NoOp)
    BY DEF Typed, NoOp
  <2> QED BY <2>1, <2>2, <1>p, TakenOn
<1>5. CASE CapRm
  <2>1. at["console"] = "remove"
    BY <1>5 DEF CapRm
  <2>2. CASE op' = op /\ at' = [at EXCEPT !["console"] = "done"]
    BY <2>2, <1>c, <1>p, MovesOn
  <2>3. ASSUME NEW s, op' = [op EXCEPT !["console"].seqs = s], at' = at PROVE OpInv'
    <3>1. op["console"] = [kind |-> "caprm", seqs |-> op["console"].seqs]
      BY <2>1 DEF OpInv
    <3>2. [op["console"] EXCEPT !.seqs = s] = [kind |-> "caprm", seqs |-> s]
      BY <3>1
    <3>3. op' = [op EXCEPT !["console"] = [kind |-> "caprm", seqs |-> s]]
      BY <2>3, <3>2
    <3>4. at' = [at EXCEPT !["console"] = "remove"]
      BY <2>1, <2>3 DEF OpInv
    <3>5. Typed([kind |-> "caprm", seqs |-> s])
      BY DEF Typed
    <3> QED BY <1>c, <1>p, <3>3, <3>4, <3>5, TakenOn
  <2> QED BY <1>5, <2>2, <2>3 DEF CapRm
<1>6. CASE WebStop
  BY <1>6, <1>c, <1>p, MovesOn DEF WebStop
<1>7. ASSUME NEW o, NEW to \in Places, Accept(o, to), Typed(o) PROVE OpInv'
  BY <1>7, <1>c, TakenOn DEF Accept
<1>8. CASE Post
  <2>1. ASSUME NEW o, Form(o), Typed(o) PROVE OpInv'
    BY <1>7, <1>p, <2>1 DEF Form
  <2>2. PICK t \in Tabs :
          \/ \E s \in Names, k \in Keys :
               Form([kind |-> "add", tab |-> t, ssid |-> s, key |-> k])
          \/ \E s \in shown[t] : Form([kind |-> "del", tab |-> t, ssid |-> s])
          \/ \E n \in Channels \cup {Unknown} : Form([kind |-> "chan", tab |-> t, name |-> n])
    BY <1>8 DEF Post
  <2>3. ASSUME NEW s \in Names, NEW k \in Keys
        PROVE  Typed([kind |-> "add", tab |-> t, ssid |-> s, key |-> k])
    BY DEF Typed
  <2>4. ASSUME NEW s PROVE Typed([kind |-> "del", tab |-> t, ssid |-> s])
    BY DEF Typed
  <2>5. ASSUME NEW n PROVE Typed([kind |-> "chan", tab |-> t, name |-> n])
    BY DEF Typed
  <2> QED BY <2>1, <2>2, <2>3, <2>4, <2>5
<1>9. CASE Get
  BY <1>7, <1>9, <1>p DEF Get, Typed
<1>10. ASSUME NEW o, NEW to \in Places, Command(o, to), Typed(o),
              to = "remove" => o = [kind |-> "caprm", seqs |-> o.seqs]
       PROVE  OpInv'
  BY <1>10, <1>c, TakenOn DEF Command
<1>11. CASE Type
  BY <1>10, <1>11, <1>p DEF Type, Typed
<1>12. CASE UNCHANGED vars
  BY <1>12 DEF vars, OpInv, Typed
<1> QED BY <1>1, <1>2, <1>3, <1>4, <1>5, <1>6, <1>8, <1>9, <1>11, <1>12, <1>c
        DEF Next, Handler, ConsoleTask

\* What becomes of a list that was read is a list as it must be.
LEMMA EditSound ==
  ASSUME NetsInv, OpInv, NEW c \in Callers, NEW l, Sound(l), Edit(c, l)
  PROVE  list' = [d \in Callers |-> list'[d]] /\ \A d \in Callers : Sound(list'[d])
<1>1. UNCHANGED list \/ list' = [list EXCEPT ![c] = Removed(l, op[c].ssid)]
      \/ (op[c].kind = "add" /\ list' = [list EXCEPT ![c] = Added(l, NetOf(op[c]))])
  BY DEF Edit
<1>2. ASSUME NEW m, Sound(m), list' = [list EXCEPT ![c] = m]
      PROVE  list' = [d \in Callers |-> list'[d]] /\ \A d \in Callers : Sound(list'[d])
  <2>1. list' = [d \in Callers |-> IF d = c THEN m ELSE list[d]]
    BY <1>2 DEF NetsInv
  <2>2. \A d \in Callers : list'[d] = IF d = c THEN m ELSE list[d]
    BY <2>1
  <2> QED BY <1>2, <2>1, <2>2 DEF NetsInv
<1>3. op[c].kind = "add" => NetOf(op[c]) \in Net
  BY DEF OpInv, Typed, NetOf, Net
<1> QED BY <1>1, <1>2, <1>3, AddedSound, RemovedSound DEF NetsInv

LEMMA StepNets == NetsInv /\ OpInv /\ [Next]_vars => NetsInv'
<1> SUFFICES ASSUME NetsInv, OpInv, [Next]_vars PROVE NetsInv'
  OBVIOUS
<1> USE DEF callVars, pageVars
<1>1. ASSUME NEW c \in Callers, Load(c) PROVE NetsInv'
  <2>1. UNCHANGED nets /\ \E l \in {nets, <<>>} : Edit(c, l)
    BY <1>1 DEF Load
  <2>2. PICK l : Sound(l) /\ Edit(c, l)
    BY <2>1, EmptySound DEF NetsInv
  <2> QED BY <2>1, <2>2, EditSound DEF NetsInv
<1>2. ASSUME NEW c \in Callers, Save(c) PROVE NetsInv'
  <2>1. UNCHANGED list /\ nets' \in {nets, list[c]}
    BY <1>2 DEF Save
  <2> QED BY <2>1 DEF NetsInv
<1>3. ASSUME NEW c \in Callers, Answer(c) PROVE NetsInv'
  <2>1. UNCHANGED nets /\ list' = [list EXCEPT ![c] = <<>>]
    BY <1>3 DEF Answer
  <2>2. list' = [d \in Callers |-> IF d = c THEN <<>> ELSE list[d]]
    BY <2>1 DEF NetsInv
  <2>3. \A d \in Callers : list'[d] = IF d = c THEN <<>> ELSE list[d]
    BY <2>2
  <2> QED BY <2>1, <2>2, <2>3, EmptySound DEF NetsInv
<1>4. CASE UNCHANGED <<nets, list>>
  BY <1>4 DEF NetsInv
<1>5. CASE TimesOut \/ SetChannel \/ SendIndex \/ SendSettings \/ PageFails \/ RmPost
           \/ OpenFile \/ SendBlock \/ SendEnd \/ SendFails \/ Receive \/ CapRm \/ WebStop
  BY <1>4, <1>5 DEF TimesOut, Waits, SetChannel, SendIndex, SendSettings, PageFails, RmPost,
                    OpenFile, SendBlock, SendEnd, SendFails, Receive, CapRm, WebStop
<1>6. CASE Post \/ Get \/ Type
  BY <1>4, <1>6 DEF Post, Form, Get, Type, Accept, Command
<1>7. CASE UNCHANGED vars
  BY <1>4, <1>7 DEF vars
<1> QED BY <1>1, <1>2, <1>3, <1>5, <1>6, <1>7 DEF Next, Handler, ConsoleTask, Callers

\* However the forms of the page and the commands of the console interleave, and
\* whichever of their writes fail, the list in flash has no network twice and never too
\* many.
THEOREM ListStaysSound == Spec => []NetsSound
<1>1. NetsInv => NetsSound
  BY DEF NetsInv, Sound, NetsSound, IsInjective
<1>2. NetsInv /\ OpInv /\ [Next]_vars => (NetsInv /\ OpInv)'
  BY StepOp, StepNets
<1> QED BY <1>1, <1>2, InitInv, PTL DEF Spec

-----------------------------------------------------------------------------
(***************************************************************************)
(* Downloads.                                                              *)
(***************************************************************************)
LEMMA InitSent == Init => SentInv /\ WholeFile
<1> SUFFICES ASSUME Init PROVE SentInv /\ WholeFile
  OBVIOUS
<1>1. /\ files = Captures /\ at["httpd"] = "idle"
      /\ saved = [t \in Tabs |-> NoFile]
  BY DEF Init, Callers
<1>2. NoFile \in [seq : Captures \cup {0}, blocks : Nat, whole : BOOLEAN]
  BY DEF NoFile
<1>3. \A t \in Tabs : saved[t] = NoFile
  BY <1>1
<1>4. NoFile.whole = FALSE
  BY DEF NoFile
<1> QED BY <1>1, <1>2, <1>3, <1>4 DEF SentInv, WholeFile

\* A step that has nothing to do with a download.
LEMMA SentUnchanged ==
  ASSUME SentInv, WholeFile, saved' = saved, files' \subseteq files,
         \/ at'["httpd"] \notin {"open", "send"}
         \/ /\ at'["httpd"] = at["httpd"] /\ op'["httpd"] = op["httpd"] /\ pos' = pos
  PROVE  (SentInv /\ WholeFile)'
  BY DEF SentInv, WholeFile

LEMMA StepSent == OpInv /\ SentInv /\ WholeFile /\ [Next]_vars => (SentInv /\ WholeFile)'
<1> SUFFICES ASSUME OpInv, SentInv, WholeFile, [Next]_vars PROVE (SentInv /\ WholeFile)'
  OBVIOUS
<1> USE DEF callVars, pageVars, Goes, Ends
<1>c. "httpd" \in Callers /\ "console" \in Callers
  BY DEF Callers
<1>b. Blocks \in [Captures -> Nat]
  BY ReadoutAssumption
<1>m. ASSUME NEW c \in Callers, NEW to, at' = [at EXCEPT ![c] = to]
      PROVE  /\ at'[c] = to
             /\ c = "console" => at'["httpd"] = at["httpd"]
  BY <1>c, <1>m DEF OpInv
<1>1. ASSUME NEW c \in Callers, Load(c) \/ Save(c) PROVE (SentInv /\ WholeFile)'
  <2>1. UNCHANGED <<op, pos, files, saved>>
        /\ \E to \in {"save", "done"} : at' = [at EXCEPT ![c] = to]
    BY <1>1 DEF Load, Save, Edit
  <2>2. c = "httpd" \/ c = "console"
    BY DEF Callers
  <2> QED BY <2>1, <2>2, <1>m, SentUnchanged
<1>2. CASE TimesOut \/ SetChannel \/ SendIndex \/ SendSettings \/ PageFails \/ RmPost
           \/ SendFails \/ Receive
  <2>1. saved' = saved /\ files' \subseteq files
        /\ \E to \in {"done", "body", "set", "load"} : at' = [at EXCEPT !["httpd"] = to]
    BY <1>2 DEF TimesOut, Waits, SetChannel, SendIndex, SendSettings, PageFails, RmPost,
                SendFails, Receive, BodyDone
  <2> QED BY <2>1, <1>c, <1>m, SentUnchanged
<1>3. CASE OpenFile
  <2> DEFINE o == op["httpd"]
  <2>1. CASE saved' = saved /\ files' = files /\ at' = [at EXCEPT !["httpd"] = "done"]
    <3>1. at'["httpd"] = "done" /\ files' \subseteq files
      BY <2>1, <1>c, <1>m
    <3> QED BY <2>1, <3>1, SentUnchanged
  <2>2. CASE /\ o.seq \in files /\ pos' = 0 /\ files' = files /\ op' = op
             /\ saved' = [saved EXCEPT ![o.tab] =
                            [seq |-> o.seq, blocks |-> 0, whole |-> FALSE]]
             /\ at' = [at EXCEPT !["httpd"] = "send"]
    <3>1. o.tab \in Tabs /\ o.seq \in Captures
      BY <1>3, <2>2 DEF OpenFile, SentInv
    <3>2. \A t \in Tabs : saved'[t] = IF t = o.tab
                                     THEN [seq |-> o.seq, blocks |-> 0, whole |-> FALSE]
                                     ELSE saved[t]
      BY <2>2 DEF SentInv
    <3>3. saved' \in [Tabs -> [seq : Captures \cup {0}, blocks : Nat, whole : BOOLEAN]]
      BY <2>2, <3>1 DEF SentInv
    <3>4. WholeFile'
      BY <3>2 DEF WholeFile
    <3>5. at'["httpd"] = "send"
      BY <2>2, <1>c, <1>m
    <3> QED BY <2>2, <3>1, <3>2, <3>3, <3>4, <3>5 DEF SentInv
  <2> QED BY <1>3, <2>1, <2>2 DEF OpenFile
<1>4. CASE SendBlock
  <2> DEFINE o == op["httpd"]
             x == saved[o.tab]
  <2>1. /\ at["httpd"] = "send" /\ pos' = pos + 1
        /\ saved' = [saved EXCEPT ![o.tab].blocks = @ + 1]
        /\ UNCHANGED <<at, op, files>>
    BY <1>4 DEF SendBlock
  <2>2. /\ o.tab \in Tabs /\ x.seq = o.seq /\ x.blocks = pos /\ x.whole = FALSE
        /\ x \in [seq : Captures \cup {0}, blocks : Nat, whole : BOOLEAN]
    BY <2>1 DEF SentInv
  <2>3. \A t \in Tabs : saved'[t] = IF t = o.tab
                                   THEN [seq |-> x.seq, blocks |-> x.blocks + 1,
                                         whole |-> x.whole]
                                   ELSE saved[t]
    BY <2>1, <2>2 DEF SentInv
  <2>4. saved' \in [Tabs -> [seq : Captures \cup {0}, blocks : Nat, whole : BOOLEAN]]
    BY <2>1, <2>2 DEF SentInv
  <2>5. WholeFile'
    BY <2>2, <2>3 DEF WholeFile
  <2> QED BY <2>1, <2>2, <2>3, <2>4, <2>5 DEF SentInv
<1>5. CASE SendEnd
  <2> DEFINE o == op["httpd"]
             x == saved[o.tab]
  <2>1. /\ at["httpd"] = "send" /\ pos = Blocks[o.seq]
        /\ saved' = [saved EXCEPT ![o.tab].whole = TRUE]
        /\ at' = [at EXCEPT !["httpd"] = "done"] /\ files' = files
    BY <1>5 DEF SendEnd
  <2>2. /\ o.tab \in Tabs /\ x.seq = o.seq /\ x.blocks = pos
        /\ x \in [seq : Captures \cup {0}, blocks : Nat, whole : BOOLEAN]
    BY <2>1 DEF SentInv
  <2>3. \A t \in Tabs : /\ t # o.tab => saved'[t] = saved[t]
                       /\ t = o.tab => /\ saved'[t].seq = x.seq
                                       /\ saved'[t].blocks = x.blocks
    BY <2>1, <2>2 DEF SentInv
  <2>4. saved' \in [Tabs -> [seq : Captures \cup {0}, blocks : Nat, whole : BOOLEAN]]
    BY <2>1, <2>2 DEF SentInv
  <2>5. WholeFile'
    BY <2>1, <2>2, <2>3 DEF WholeFile
  <2>6. at'["httpd"] = "done"
    BY <2>1, <1>c, <1>m
  <2> QED BY <2>1, <2>4, <2>5, <2>6 DEF SentInv
<1>6. ASSUME NEW c \in Callers, Answer(c) PROVE (SentInv /\ WholeFile)'
  <2>1. /\ at' = [at EXCEPT ![c] = "idle"] /\ op' = [op EXCEPT ![c] = NoOp]
        /\ UNCHANGED <<pos, files, saved>>
    BY <1>6 DEF Answer
  <2>2. CASE c = "httpd"
    BY <2>1, <2>2, <1>m, SentUnchanged
  <2>3. CASE c = "console"
    <3>1. op'["httpd"] = op["httpd"]
      BY <2>1, <2>3, <1>c DEF OpInv
    <3> QED BY <2>1, <2>3, <3>1, <1>c, <1>m, SentUnchanged
  <2> QED BY <2>2, <2>3 DEF Callers
<1>7. CASE CapRm \/ WebStop
  <2>1. /\ UNCHANGED <<pos, saved>> /\ files' \subseteq files
        /\ at' = at \/ at' = [at EXCEPT !["console"] = "done"]
        /\ op' = op \/ \E s : op' = [op EXCEPT !["console"].seqs = s]
    BY <1>7 DEF CapRm, WebStop
  <2>2. op'["httpd"] = op["httpd"]
    BY <2>1, <1>c DEF OpInv
  <2>3. at'["httpd"] = at["httpd"]
    BY <2>1, <1>c, <1>m
  <2> QED BY <2>1, <2>2, <2>3, SentUnchanged
<1>8. ASSUME NEW o, NEW to, Accept(o, to), to # "send", to = "open" => o.tab \in Tabs
      PROVE  (SentInv /\ WholeFile)'
  <2>1. /\ at' = [at EXCEPT !["httpd"] = to] /\ op' = [op EXCEPT !["httpd"] = o]
        /\ UNCHANGED <<files, saved>>
    BY <1>8 DEF Accept
  <2>2. at'["httpd"] = to /\ op'["httpd"] = o
    BY <2>1, <1>c DEF OpInv
  <2> QED BY <1>8, <2>1, <2>2 DEF SentInv, WholeFile
<1>9. CASE Post
  BY <1>8, <1>9 DEF Post, Form
<1>10. CASE Get
  BY <1>8, <1>10 DEF Get
<1>11. ASSUME NEW o, NEW to, Command(o, to) PROVE (SentInv /\ WholeFile)'
  <2>1. /\ at' = [at EXCEPT !["console"] = to] /\ op' = [op EXCEPT !["console"] = o]
        /\ UNCHANGED <<pos, files, saved>>
    BY <1>11 DEF Command
  <2>2. at'["httpd"] = at["httpd"] /\ op'["httpd"] = op["httpd"]
    BY <2>1, <1>c DEF OpInv
  <2> QED BY <2>1, <2>2, SentUnchanged
<1>12. CASE Type
  BY <1>11, <1>12 DEF Type
<1>13. CASE UNCHANGED vars
  BY <1>13, SentUnchanged DEF vars
<1> QED BY <1>1, <1>2, <1>3, <1>4, <1>5, <1>6, <1>7, <1>9, <1>10, <1>12, <1>13, <1>c
        DEF Next, Handler, ConsoleTask

\* A client that was told its download is complete has every block of it, of a capture
\* of any size, whoever removed what meanwhile.
THEOREM CompleteIsWhole == Spec => []WholeFile
<1>1. OpInv /\ SentInv /\ WholeFile /\ [Next]_vars => (OpInv /\ SentInv /\ WholeFile)'
  BY StepOp, StepSent
<1> QED BY <1>1, InitInv, InitSent, PTL DEF Spec

-----------------------------------------------------------------------------
(***************************************************************************)
(* What the caller is told.                                                *)
(***************************************************************************)

\* The keys that the list l has for a network.
KeysOf(l, s) == {l[i].key : i \in IndexOf(l, s)}

\* The list l is b with what o asks for, and nothing else changed.
Edited(o, l, b) ==
  \A s \in Names :
    KeysOf(l, s) = IF s # o.ssid THEN KeysOf(b, s)
                   ELSE IF o.kind = "add" THEN {o.key} ELSE {}

LEMMA KeysAre ==
  ASSUME NEW l, Sound(l), NEW s, NEW k
  PROVE  k \in KeysOf(l, s) <=> \E i \in 1 .. Len(l) : l[i].ssid = s /\ l[i].key = k
<1>1. DOMAIN l = 1 .. Len(l)
  BY DEF Sound
<1> QED BY <1>1 DEF KeysOf, IndexOf

\* wifi_store_add() adds the one network, or changes its key.
LEMMA AddedKeys ==
  ASSUME NEW l, Sound(l), NEW n \in Net, NEW s,
         IndexOf(l, n.ssid) # {} \/ Len(l) < NetMax
  PROVE  KeysOf(Added(l, n), s) = IF s # n.ssid THEN KeysOf(l, s) ELSE {n.key}
<1> DEFINE a == Added(l, n)
<1>1. Sound(a)
  BY AddedSound
<1>n. NetMax \in Nat \ {0} /\ l \in Seq(Net) /\ Len(l) \in Nat
  BY ReadoutAssumption DEF Sound
<1>2. \A k : k \in KeysOf(a, s) <=> \E i \in 1 .. Len(a) : a[i].ssid = s /\ a[i].key = k
  BY <1>1, KeysAre
<1>3. \A k : k \in KeysOf(l, s) <=> \E i \in 1 .. Len(l) : l[i].ssid = s /\ l[i].key = k
  BY KeysAre
<1>4. PICK h \in 1 .. Len(a) :
        /\ a[h] = n
        /\ \A i \in 1 .. Len(a) : i # h => i \in 1 .. Len(l) /\ a[i] = l[i]
        /\ \A i \in 1 .. Len(l) : i # h => i \in 1 .. Len(a)
        /\ h \in 1 .. Len(l) => l[h].ssid = n.ssid
  <2>1. CASE IndexOf(l, n.ssid) # {}
    <3> DEFINE i == Min(IndexOf(l, n.ssid))
    <3>1. i \in 1 .. Len(l) /\ l[i].ssid = n.ssid
      BY <2>1, Found
    <3>2. a = [l EXCEPT ![i] = n]
      BY <2>1 DEF Added, Replace
    <3> HIDE DEF i, a
    <3>3. Len(a) = Len(l) /\ \A j \in 1 .. Len(l) : a[j] = IF j = i THEN n ELSE l[j]
      BY <1>n, <3>1, <3>2
    <3> QED BY <3>1, <3>3
  <2>2. CASE IndexOf(l, n.ssid) = {}
    <3>1. a = Append(l, n)
      BY <1>n, <2>2 DEF Added
    <3> HIDE DEF a
    <3>2. /\ Len(a) = Len(l) + 1 /\ a[Len(l) + 1] = n
          /\ \A j \in 1 .. Len(l) : a[j] = l[j]
      BY <1>n, <3>1, AppendProperties
    <3> QED BY <1>n, <3>2
  <2> QED BY <2>1, <2>2
<1> HIDE DEF a
<1>5. CASE s # n.ssid
  <2>1. ASSUME NEW k PROVE k \in KeysOf(a, s) <=> k \in KeysOf(l, s)
    <3>1. ASSUME NEW i \in 1 .. Len(a), a[i].ssid = s, a[i].key = k
          PROVE  \E j \in 1 .. Len(l) : l[j].ssid = s /\ l[j].key = k
      BY <1>4, <1>5, <3>1
    <3>2. ASSUME NEW i \in 1 .. Len(l), l[i].ssid = s, l[i].key = k
          PROVE  \E j \in 1 .. Len(a) : a[j].ssid = s /\ a[j].key = k
      <4>1. i # h /\ i \in 1 .. Len(a)
        BY <1>4, <1>5, <3>2
      <4> QED BY <1>4, <3>2, <4>1
    <3> QED BY <1>2, <1>3, <3>1, <3>2
  <2> QED BY <1>5, <2>1 DEF a
<1>6. CASE s = n.ssid
  <2>1. ASSUME NEW i \in 1 .. Len(a), a[i].ssid = s PROVE i = h
    BY <1>1, <1>4, <1>6, <2>1 DEF Sound
  <2>2. ASSUME NEW k PROVE k \in KeysOf(a, s) <=> k = n.key
    BY <1>2, <1>4, <1>6, <2>1
  <2> QED BY <1>6, <2>2 DEF a
<1> QED BY <1>5, <1>6

\* wifi_store_del() takes the one network out.
LEMMA RemovedKeys ==
  ASSUME NEW l, Sound(l), NEW t, IndexOf(l, t) # {}, NEW s
  PROVE  KeysOf(Removed(l, t), s) = IF s # t THEN KeysOf(l, s) ELSE {}
<1> DEFINE m == Removed(l, t)
           h == Min(IndexOf(l, t))
<1>1. Sound(m)
  BY RemovedSound
<1>2. \A k : k \in KeysOf(m, s) <=> \E i \in 1 .. Len(m) : m[i].ssid = s /\ m[i].key = k
  BY <1>1, KeysAre
<1>3. \A k : k \in KeysOf(l, s) <=> \E i \in 1 .. Len(l) : l[i].ssid = s /\ l[i].key = k
  BY KeysAre
<1>4. h \in 1 .. Len(l) /\ l[h].ssid = t
  BY Found
<1>5. Len(m) = Len(l) - 1 /\ \A j \in 1 .. Len(m) : m[j] = l[IF j < h THEN j ELSE j + 1]
  BY RemovedList
<1>n. Len(l) \in Nat
  BY DEF Sound
<1> HIDE DEF m, h
<1>6. \A j \in 1 .. Len(m) : \E i \in 1 .. Len(l) : i # h /\ m[j] = l[i]
  <2> SUFFICES ASSUME NEW j \in 1 .. Len(m)
               PROVE  \E i \in 1 .. Len(l) : i # h /\ m[j] = l[i]
    OBVIOUS
  <2> DEFINE i == IF j < h THEN j ELSE j + 1
  <2>1. m[j] = l[i]
    BY <1>5
  <2>2. i \in 1 .. Len(l) /\ i # h
    BY <1>n, <1>4, <1>5
  <2> QED BY <2>1, <2>2
<1>7. \A i \in 1 .. Len(l) : i # h => \E j \in 1 .. Len(m) : m[j] = l[i]
  <2> SUFFICES ASSUME NEW i \in 1 .. Len(l), i # h
               PROVE  \E j \in 1 .. Len(m) : m[j] = l[i]
    OBVIOUS
  <2> DEFINE j == IF i < h THEN i ELSE i - 1
  <2>1. j \in 1 .. Len(m) /\ (IF j < h THEN j ELSE j + 1) = i
    BY <1>n, <1>4, <1>5
  <2> HIDE DEF j
  <2> QED BY <1>5, <2>1
<1>8. \A i \in 1 .. Len(l) : l[i].ssid = t => i = h
  BY <1>4 DEF Sound
<1>9. CASE s # t
  <2>1. ASSUME NEW k PROVE k \in KeysOf(m, s) <=> k \in KeysOf(l, s)
    <3>1. ASSUME NEW j \in 1 .. Len(m), m[j].ssid = s, m[j].key = k
          PROVE  \E i \in 1 .. Len(l) : l[i].ssid = s /\ l[i].key = k
      BY <1>6, <3>1
    <3>2. ASSUME NEW i \in 1 .. Len(l), l[i].ssid = s, l[i].key = k
          PROVE  \E j \in 1 .. Len(m) : m[j].ssid = s /\ m[j].key = k
      <4>1. i # h
        BY <1>4, <1>9, <3>2
      <4> QED BY <1>7, <3>2, <4>1
    <3> QED BY <1>2, <1>3, <3>1, <3>2
  <2> QED BY <1>9, <2>1 DEF m
<1>10. CASE s = t
  <2>1. ASSUME NEW k PROVE k \notin KeysOf(m, s)
    <3>1. ASSUME NEW j \in 1 .. Len(m), m[j].ssid = s PROVE FALSE
      BY <1>6, <1>8, <1>10, <3>1
    <3> QED BY <1>2, <3>1
  <2> QED BY <1>10, <2>1 DEF m
<1> QED BY <1>9, <1>10
Editing(o) == o.kind \in {"add", "del"}

\* What the caller c was asked to do with the list, so far as nobody came in between.
Told(c) ==
  Editing(op[c]) =>
    /\ at[c] \in {"body", "load", "save", "done"}
    /\ alone[c] = TRUE =>
         /\ at[c] = "save" => Edited(op[c], list[c], before[c])
         /\ at[c] = "done" /\ code[c] \in {"size", "full", "missing"} => nets = before[c]
         /\ at[c] = "done" /\ code[c] = "ok" => Edited(op[c], nets, before[c])

ToldInv ==
  /\ code = [c \in Callers |-> code[c]] /\ before = [c \in Callers |-> before[c]]
  /\ alone \in [Callers -> BOOLEAN]
  /\ \A c \in Callers : Told(c)

LEMMA InitTold == Init => ToldInv
<1> SUFFICES ASSUME Init PROVE ToldInv
  OBVIOUS
<1>1. /\ code = [c \in Callers |-> "ok"] /\ before = [c \in Callers |-> <<>>]
      /\ op = [c \in Callers |-> NoOp]
  BY DEF Init
<1>2. alone \in [Callers -> BOOLEAN]
  BY Zenon DEF Init
<1>3. \A c \in Callers : op[c].kind = "none"
  BY <1>1 DEF NoOp
<1>4. \A c \in Callers : Told(c)
  BY <1>3 DEF Told, Editing
<1>5. code = [c \in Callers |-> code[c]]
  BY <1>1
<1>6. before = [c \in Callers |-> before[c]]
  BY <1>1
<1> QED BY <1>2, <1>4, <1>5, <1>6 DEF ToldInv

\* Of a caller that a step does not touch, all stays true.
LEMMA NotTouched ==
  ASSUME NEW d \in Callers, Told(d), nets' = nets, op'[d] = op[d], at'[d] = at[d],
         list'[d] = list[d], code'[d] = code[d], before'[d] = before[d],
         alone'[d] = alone[d]
  PROVE  Told(d)'
BY DEF Told

\* A caller is asked for something, by a request or a command.
LEMMA AskedTold ==
  ASSUME ToldInv, OpInv, NEW c \in Callers, NEW o, NEW to, Editing(o) => to \in {"body", "load"},
         op' = [op EXCEPT ![c] = o], at' = [at EXCEPT ![c] = to],
         UNCHANGED <<nets, list, code, before, alone>>
  PROVE  ToldInv'
<1>1. op'[c] = o /\ at'[c] = to
  BY DEF OpInv
<1>2. \A d \in Callers : d # c => op'[d] = op[d] /\ at'[d] = at[d]
  BY DEF OpInv
<1>3. ASSUME NEW d \in Callers PROVE Told(d)'
  <2>1. CASE d = c
    BY <1>1, <2>1 DEF Told
  <2>2. CASE d # c
    BY <1>2, <2>2, NotTouched DEF ToldInv
  <2> QED BY <2>1, <2>2
<1> QED BY <1>3 DEF ToldInv

\* A caller moves on with something that is no edit of the list, or with the body of one.
LEMMA ElsewhereTold ==
  ASSUME ToldInv, OpInv, NEW c \in Callers, NEW to, NEW said,
         Editing(op[c]) => to \in {"body", "load"} \/ (to = "done" /\ said = "form"),
         op' = op, at' = [at EXCEPT ![c] = to],
         code' = code \/ code' = [code EXCEPT ![c] = said],
         to = "done" => code' = [code EXCEPT ![c] = said],
         UNCHANGED <<nets, list, before, alone>>
  PROVE  ToldInv'
<1>1. at'[c] = to /\ (to = "done" => code'[c] = said)
  BY DEF OpInv, ToldInv
<1>2. \A d \in Callers : d # c => at'[d] = at[d] /\ code'[d] = code[d]
  BY DEF OpInv, ToldInv
<1>3. ASSUME NEW d \in Callers PROVE Told(d)'
  <2>1. CASE d = c
    BY <1>1, <2>1 DEF Told
  <2>2. CASE d # c
    BY <1>2, <2>2, NotTouched DEF ToldInv
  <2> QED BY <2>1, <2>2
<1>4. code' = [d \in Callers |-> code'[d]]
  BY DEF ToldInv
<1> QED BY <1>3, <1>4 DEF ToldInv

\* The list is read and edited.
LEMMA LoadTold ==
  ASSUME ToldInv, OpInv, NetsInv, NEW c \in Callers, Load(c)
  PROVE  ToldInv'
<1> USE DEF Goes, Ends
<1>1. /\ at[c] = "load" /\ before' = [before EXCEPT ![c] = nets]
      /\ UNCHANGED <<nets, op>>
  BY DEF Load
<1>2. PICK l \in {nets, <<>>} : Edit(c, l) /\ alone' = [alone EXCEPT ![c] = l = nets]
  BY Zenon DEF Load
<1>3. Sound(l)
  BY <1>2, EmptySound DEF NetsInv
<1>a. alone'[c] = TRUE => l = nets
  BY <1>2, Zenon DEF ToldInv
<1>b. alone' \in [Callers -> BOOLEAN]
  BY <1>2, Zenon DEF ToldInv
<1>c. \A d \in Callers : d # c => alone'[d] = alone[d]
  BY <1>2, Zenon DEF ToldInv
<1>d. /\ before'[c] = nets /\ before' = [d \in Callers |-> before'[d]]
      /\ \A d \in Callers : d # c => before'[d] = before[d]
  BY <1>1 DEF ToldInv
<1> DEFINE o == op[c]
<1>4. \/ /\ o.kind = "add" /\ o.key \notin WrongKey
         /\ IndexOf(l, o.ssid) # {} \/ Len(l) < NetMax
         /\ list' = [list EXCEPT ![c] = Added(l, NetOf(o))]
         /\ at' = [at EXCEPT ![c] = "save"] /\ code' = code
      \/ /\ o.kind = "del" /\ IndexOf(l, o.ssid) # {}
         /\ list' = [list EXCEPT ![c] = Removed(l, o.ssid)]
         /\ at' = [at EXCEPT ![c] = "save"] /\ code' = code
      \/ /\ list' = list /\ at' = [at EXCEPT ![c] = "done"]
         /\ \E said \in {"size", "full", "missing"} : code' = [code EXCEPT ![c] = said]
  BY <1>2 DEF Edit
<1>5. \A d \in Callers : d # c => list'[d] = list[d] /\ at'[d] = at[d] /\ code'[d] = code[d]
  BY <1>4 DEF ToldInv, OpInv, NetsInv
<1>6. code' = [d \in Callers |-> code'[d]]
  BY <1>4 DEF ToldInv
<1>7. ASSUME o.kind = "add" /\ (IndexOf(l, o.ssid) # {} \/ Len(l) < NetMax),
             list' = [list EXCEPT ![c] = Added(l, NetOf(o))],
             at' = [at EXCEPT ![c] = "save"]
      PROVE  Told(c)'
  <2>1. list'[c] = Added(l, NetOf(o)) /\ at'[c] = "save"
    BY <1>7 DEF OpInv, NetsInv
  <2>k. o.kind = "add" /\ (IndexOf(l, o.ssid) # {} \/ Len(l) < NetMax)
    BY <1>7
  <2>t. Typed(o)
    BY DEF OpInv
  <2> HIDE DEF o
  <2> DEFINE n == NetOf(o)
  <2>2. n \in Net /\ n.ssid = o.ssid /\ n.key = o.key
    BY <2>k, <2>t DEF Typed, NetOf, Net
  <2> HIDE DEF n
  <2>3. \A s : KeysOf(Added(l, n), s) = IF s # n.ssid THEN KeysOf(l, s) ELSE {n.key}
    BY <1>3, <2>k, <2>2, AddedKeys
  <2>4. Edited(o, Added(l, n), l)
    BY <2>k, <2>2, <2>3 DEF Edited
  <2>5. op'[c] = o /\ before'[c] = nets /\ list'[c] = Added(l, n)
    BY <1>1, <1>d, <2>1 DEF n, o
  <2> QED BY <1>a, <2>1, <2>4, <2>5 DEF Told
<1>8. ASSUME o.kind = "del" /\ IndexOf(l, o.ssid) # {},
             list' = [list EXCEPT ![c] = Removed(l, o.ssid)],
             at' = [at EXCEPT ![c] = "save"]
      PROVE  Told(c)'
  <2>1. list'[c] = Removed(l, o.ssid) /\ at'[c] = "save"
    BY <1>8 DEF OpInv, NetsInv
  <2>k. o.kind = "del" /\ IndexOf(l, o.ssid) # {}
    BY <1>8
  <2> HIDE DEF o
  <2>3. \A s : KeysOf(Removed(l, o.ssid), s) = IF s # o.ssid THEN KeysOf(l, s) ELSE {}
    BY <1>3, <2>k, RemovedKeys
  <2>4. Edited(o, Removed(l, o.ssid), l)
    BY <2>k, <2>3 DEF Edited
  <2>5. op'[c] = o /\ before'[c] = nets /\ list'[c] = Removed(l, o.ssid)
    BY <1>1, <1>d, <2>1 DEF o
  <2> QED BY <1>a, <2>1, <2>4, <2>5 DEF Told
<1>9. ASSUME at' = [at EXCEPT ![c] = "done"],
             \E said \in {"size", "full", "missing"} : code' = [code EXCEPT ![c] = said]
      PROVE  Told(c)'
  <2>1. at'[c] = "done" /\ code'[c] \in {"size", "full", "missing"}
    BY <1>9 DEF OpInv, ToldInv
  <2>2. nets' = nets /\ before'[c] = nets
    BY <1>1, <1>d
  <2> QED BY <2>1, <2>2 DEF Told
<1>10. Told(c)'
  <2> HIDE DEF o
  <2> QED BY <1>4, <1>7, <1>8, <1>9
<1>11. ASSUME NEW d \in Callers, d # c PROVE Told(d)'
  <2>1. op'[d] = op[d] /\ Told(d)
    BY <1>1 DEF ToldInv
  <2> QED BY <1>1, <1>c, <1>d, <1>5, <1>11, <2>1, NotTouched
<1>12. \A d \in Callers : Told(d)'
  BY <1>10, <1>11
<1> QED BY <1>b, <1>d, <1>6, <1>12 DEF ToldInv

\* The copy is written back; of the other one, nothing is said any more.
LEMMA SaveTold ==
  ASSUME ToldInv, OpInv, NEW c \in Callers, Save(c)
  PROVE  ToldInv'
<1> USE DEF Goes, Ends
<1>1. /\ at[c] = "save" /\ at' = [at EXCEPT ![c] = "done"] /\ UNCHANGED <<op, list, before>>
      /\ \/ nets' = list[c] /\ code' = [code EXCEPT ![c] = "ok"]
         \/ code' = [code EXCEPT ![c] = "flash"]
  BY DEF Save
<1>2. alone' = [d \in Callers |-> alone[d] /\ (d = c \/ at[d] \notin {"save", "done"})]
  BY Zenon DEF Save
<1>3. alone' \in [Callers -> BOOLEAN]
  BY <1>2, Zenon DEF ToldInv
<1>4. alone'[c] = TRUE => alone[c] = TRUE
  BY <1>2, Zenon DEF ToldInv
<1>5. \A d \in Callers : d # c /\ alone'[d] = TRUE => at[d] \notin {"save", "done"}
  BY <1>2, Zenon DEF ToldInv
<1>6. /\ at'[c] = "done" /\ code' = [d \in Callers |-> code'[d]]
      /\ code'[c] \in {"ok", "flash"} /\ (code'[c] = "ok" => nets' = list[c])
  BY <1>1 DEF OpInv, ToldInv
<1>7. Told(c)'
  BY <1>1, <1>4, <1>6 DEF Told, ToldInv
<1>8. ASSUME NEW d \in Callers, d # c PROVE Told(d)'
  <2>1. at'[d] = at[d] /\ Told(d) /\ op'[d] = op[d]
    BY <1>1, <1>8 DEF OpInv, ToldInv
  <2> QED BY <1>5, <1>8, <2>1 DEF Told
<1>9. \A d \in Callers : Told(d)'
  BY <1>7, <1>8
<1> QED BY <1>1, <1>3, <1>6, <1>9 DEF ToldInv

LEMMA AnswerTold ==
  ASSUME ToldInv, OpInv, NetsInv, NEW c \in Callers, Answer(c)
  PROVE  ToldInv'
<1>1. /\ op' = [op EXCEPT ![c] = NoOp] /\ at' = [at EXCEPT ![c] = "idle"]
      /\ list' = [list EXCEPT ![c] = <<>>] /\ before' = [before EXCEPT ![c] = <<>>]
      /\ code' = [code EXCEPT ![c] = "ok"] /\ nets' = nets
  BY DEF Answer, Goes
<1>2. alone' = [alone EXCEPT ![c] = TRUE]
  BY Zenon DEF Answer
<1>3. alone' \in [Callers -> BOOLEAN] /\ \A d \in Callers : d # c => alone'[d] = alone[d]
  BY <1>2, Zenon DEF ToldInv
<1>4. op'[c] = NoOp
  BY <1>1 DEF OpInv
<1>5. \A d \in Callers : d # c => /\ op'[d] = op[d] /\ at'[d] = at[d] /\ list'[d] = list[d]
                                  /\ before'[d] = before[d] /\ code'[d] = code[d]
  BY <1>1 DEF OpInv, NetsInv, ToldInv
<1>6. Told(c)'
  BY <1>4 DEF Told, NoOp, Editing
<1>7. \A d \in Callers : Told(d)'
  BY <1>1, <1>3, <1>5, <1>6, NotTouched DEF ToldInv
<1>8. /\ code' = [d \in Callers |-> code'[d]]
      /\ before' = [d \in Callers |-> before'[d]]
  BY <1>1 DEF ToldInv
<1> QED BY <1>3, <1>7, <1>8 DEF ToldInv

LEMMA StepTold == NetsInv /\ OpInv /\ ToldInv /\ [Next]_vars => ToldInv'
<1> SUFFICES ASSUME NetsInv, OpInv, ToldInv, [Next]_vars PROVE ToldInv'
  OBVIOUS
<1> USE DEF callVars, pageVars, Goes, Ends
<1>c. "httpd" \in Callers /\ "console" \in Callers
  BY DEF Callers
<1>p. \A c \in Callers : Editing(op[c]) => at[c] \in {"body", "load", "save", "done"}
  BY DEF ToldInv, Told
<1>1. ASSUME NEW c \in Callers, Load(c) \/ Save(c) \/ Answer(c) PROVE ToldInv'
  BY <1>1, LoadTold, SaveTold, AnswerTold
<1>2. CASE Receive \/ TimesOut
  <2>1. /\ op' = op /\ UNCHANGED <<nets, list, before, alone>>
        /\ \/ at' = [at EXCEPT !["httpd"] = BodyDone] /\ code' = code
           \/ at' = [at EXCEPT !["httpd"] = "body"] /\ code' = code
           \/ at' = [at EXCEPT !["httpd"] = "done"] /\ code' = [code EXCEPT !["httpd"] = "form"]
    BY <1>2 DEF Receive, TimesOut, Waits
  <2>2. Editing(op["httpd"]) => BodyDone = "load"
    BY DEF Editing, BodyDone
  <2>3. BodyDone # "done"
    BY DEF BodyDone
  <2> HIDE DEF BodyDone
  <2> QED BY <1>c, <2>1, <2>2, <2>3, ElsewhereTold
<1>3. CASE SetChannel \/ SendIndex \/ SendSettings \/ PageFails \/ RmPost \/ OpenFile
           \/ SendEnd \/ SendFails
  <2>1. /\ op' = op /\ UNCHANGED <<nets, list, before, alone>>
        /\ at["httpd"] \in {"set", "index", "settings", "remove", "open", "send"}
        /\ \/ \E said : /\ at' = [at EXCEPT !["httpd"] = "done"]
                        /\ code' = [code EXCEPT !["httpd"] = said]
           \/ at' = [at EXCEPT !["httpd"] = "send"] /\ code' = code
    BY <1>3 DEF SetChannel, SendIndex, SendSettings, PageFails, RmPost, OpenFile, SendEnd,
                SendFails
  <2>2. ~Editing(op["httpd"])
    BY <1>c, <1>p, <2>1
  <2> QED BY <1>c, <2>1, <2>2, ElsewhereTold
<1>4. CASE UNCHANGED <<at, op, list, code, nets, before, alone>>
  BY <1>4 DEF ToldInv, Told
<1>5. CASE SendBlock \/ UNCHANGED vars
  BY <1>4, <1>5 DEF SendBlock, vars
<1>6. CASE WebStop
  <2>1. ~Editing(op["console"])
    BY <1>6, <1>c, <1>p DEF WebStop
  <2> QED BY <1>6, <1>c, <2>1, ElsewhereTold DEF WebStop
<1>7. CASE CapRm
  <2>1. ~Editing(op["console"])
    BY <1>7, <1>c, <1>p DEF CapRm
  <2>2. CASE /\ op' = op /\ at' = [at EXCEPT !["console"] = "done"]
             /\ code' = [code EXCEPT !["console"] = "ok"]
    BY <1>7, <2>1, <2>2, <1>c, ElsewhereTold DEF CapRm
  <2>3. ASSUME NEW s, op' = [op EXCEPT !["console"].seqs = s], UNCHANGED <<at, code>>
        PROVE  ToldInv'
    <3>1. at["console"] = "remove"
      BY <1>7 DEF CapRm
    <3>2. op["console"] = [kind |-> "caprm", seqs |-> op["console"].seqs]
      BY <3>1 DEF OpInv
    <3>3. [op["console"] EXCEPT !.seqs = s] = [kind |-> "caprm", seqs |-> s]
      BY <3>2
    <3>4. op' = [op EXCEPT !["console"] = [kind |-> "caprm", seqs |-> s]]
      BY <2>3, <3>3
    <3>5. at' = [at EXCEPT !["console"] = "remove"]
      BY <2>3, <3>1 DEF OpInv
    <3>6. ~Editing([kind |-> "caprm", seqs |-> s])
      BY DEF Editing
    <3>7. UNCHANGED <<nets, list, code, before, alone>>
      BY <1>7, <2>3 DEF CapRm
    <3> QED BY <1>c, <3>4, <3>5, <3>6, <3>7, AskedTold
  <2> QED BY <1>7, <2>2, <2>3 DEF CapRm
<1>8. ASSUME NEW o, NEW to, Accept(o, to), Editing(o) => to \in {"body", "load"}
      PROVE  ToldInv'
  BY <1>8, <1>c, AskedTold DEF Accept
<1>9. CASE Post
  BY <1>8, <1>9 DEF Post, Form
<1>10. CASE Get
  BY <1>8, <1>10 DEF Get, Editing
<1>11. ASSUME NEW o, NEW to, Command(o, to), Editing(o) => to \in {"body", "load"}
       PROVE  ToldInv'
  BY <1>11, <1>c, AskedTold DEF Command
<1>12. CASE Type
  BY <1>11, <1>12 DEF Type, Editing
<1> QED BY <1>1, <1>2, <1>3, <1>5, <1>6, <1>7, <1>9, <1>10, <1>12, <1>c
        DEF Next, Handler, ConsoleTask

\* Whoever adds or forgets a network is told what has become of the list, when nobody
\* else wrote it meanwhile: of lists of every length, and however requests and commands
\* interleave.
THEOREM ToldTheTruth == Spec => []AnswerTrue
<1>1. ToldInv => AnswerTrue
  BY DEF ToldInv, Told, Editing, Edited, KeysOf, AnswerTrue
<1>2. NetsInv /\ OpInv /\ ToldInv /\ [Next]_vars => (NetsInv /\ OpInv /\ ToldInv)'
  BY StepOp, StepNets, StepTold
<1> QED BY <1>1, <1>2, InitInv, InitTold, PTL DEF Spec
=============================================================================
