-------------------------------- MODULE Readout --------------------------------
(***************************************************************************)
(* The handlers of main/webdump.c, the list of networks of                 *)
(* main/wifi_store.c they edit, and the console commands of main/cmd_cap.c *)
(* that work on the same list and the same files at the same time.         *)
(*                                                                         *)
(* There is one httpd task: a handler runs to its end before the next      *)
(* request is looked at, however slowly its client sends or receives.  The *)
(* console is another task.  wifi_store reads the list, edits the copy and *)
(* writes it back, without a lock; NVS itself does one call at a time.     *)
(*                                                                         *)
(* How the server is brought up and down around this is in Modes, and      *)
(* nothing records while it runs.                                          *)
(***************************************************************************)
EXTENDS Integers, Sequences, FiniteSets, SequencesExt, FiniteSetsExt

CONSTANTS
  Tabs,      \* pages open in a browser
  Names,     \* SSIDs that can be typed
  Keys,      \* passphrases that can be typed
  WrongKey,  \* those of a length wifi_store_add() refuses
  NetMax,    \* WIFI_STORE_MAX
  Channels,  \* update channels
  Unknown,   \* a channel this build does not have
  Captures,  \* numbers of captures
  Blocks,    \* WEB_CHUNK blocks of each capture
  ListMax,   \* WEB_LIST_MAX
  Pieces,    \* how many segments a form may arrive in
  MaxOps     \* bound: commands and requests

ASSUME ReadoutAssumption ==
  /\ WrongKey \subseteq Keys /\ Unknown \notin Channels
  /\ {NetMax, ListMax, Pieces} \subseteq Nat \ {0} /\ MaxOps \in Nat
  /\ Captures \subseteq Nat /\ Blocks \in [Captures -> Nat]

VARIABLES
  nets,      \* the list in flash
  chan,      \* the channel in flash
  files,     \* the captures there are
  running,   \* s_running
  at,        \* per caller, where it is: "idle", or what it does next
  op,        \* per caller: what it was asked for
  list,      \* per caller: its copy of the list
  code,      \* per caller: how it went
  left, idle,   \* read_body(): segments to come, timeouts so far
  pos,       \* file_get(): blocks sent
  rows,      \* per tab: the captures its listing shows
  shown,     \* per tab: the SSIDs its settings page shows
  saved,     \* per tab: what its last download received, and whether it was complete
  ops,       \* history: commands and requests so far
  before,    \* history: per caller, what was in flash when it read the list
  alone      \* history: per caller, it could read the list and nobody wrote it since

Callers == {"httpd", "console"}

callVars == <<at, op, list, code>>
pageVars == <<rows, shown, saved>>
vars == <<nets, chan, files, running, callVars, left, idle, pos, pageVars, ops, before, alone>>

NoOp == [kind |-> "none"]
NoFile == [seq |-> 0, blocks |-> 0, whole |-> FALSE]

Init ==
  /\ nets = <<>> /\ chan \in Channels /\ files = Captures /\ running = TRUE
  /\ at = [c \in Callers |-> "idle"] /\ op = [c \in Callers |-> NoOp]
  /\ list = [c \in Callers |-> <<>>] /\ code = [c \in Callers |-> "ok"]
  /\ left = 0 /\ idle = 0 /\ pos = 0
  /\ rows = [t \in Tabs |-> {}] /\ shown = [t \in Tabs |-> {}]
  /\ saved = [t \in Tabs |-> NoFile]
  /\ ops = 0
  /\ before = [c \in Callers |-> <<>>] /\ alone = [c \in Callers |-> TRUE]

Goes(c, to) == at' = [at EXCEPT ![c] = to]

\* The caller is done, with this to say.
Ends(c, said) == at' = [at EXCEPT ![c] = "done"] /\ code' = [code EXCEPT ![c] = said]

-----------------------------------------------------------------------------
(***************************************************************************)
(* wifi_store.c                                                            *)
(***************************************************************************)
IndexOf(l, ssid) == {i \in DOMAIN l : l[i].ssid = ssid}

Replace(l, i, x) == [l EXCEPT ![i] = x]

\* Mutation of Added: a new key for a network is a new network.
AddedAgain(l, n) ==
  IF Len(l) >= NetMax THEN l ELSE Append(l, n)

\* wifi_store_add(): the list with the network, or as it was when there is no room.
Added(l, n) ==
  IF IndexOf(l, n.ssid) # {} THEN Replace(l, Min(IndexOf(l, n.ssid)), n)
  ELSE IF Len(l) >= NetMax THEN l ELSE Append(l, n)

\* Mutation of Removed: the last one goes.
RemovedLast(l, ssid) == IF IndexOf(l, ssid) = {} THEN l ELSE Front(l)

\* wifi_store_del()
Removed(l, ssid) ==
  IF IndexOf(l, ssid) = {} THEN l ELSE RemoveAt(l, Min(IndexOf(l, ssid)))

NetOf(o) == [ssid |-> o.ssid, key |-> o.key]

\* What becomes of the list l that was read.
Edit(c, l) ==
  LET o == op[c]
      there == IndexOf(l, o.ssid) # {}
  IN  \/ /\ o.kind = "add" /\ o.key \in WrongKey
         /\ Ends(c, "size") /\ UNCHANGED list
      \/ /\ o.kind = "add" /\ o.key \notin WrongKey
         /\ IF there \/ Len(l) < NetMax
            THEN list' = [list EXCEPT ![c] = Added(l, NetOf(o))] /\ Goes(c, "save") /\ UNCHANGED code
            ELSE Ends(c, "full") /\ UNCHANGED list
      \/ /\ o.kind = "del"
         /\ IF there
            THEN list' = [list EXCEPT ![c] = Removed(l, o.ssid)] /\ Goes(c, "save") /\ UNCHANGED code
            ELSE Ends(c, "missing") /\ UNCHANGED list

\* load(): a list that cannot be read is taken for none.
Load(c) ==
  /\ at[c] = "load"
  /\ before' = [before EXCEPT ![c] = nets]
  /\ \E l \in {nets, <<>>} : Edit(c, l) /\ alone' = [alone EXCEPT ![c] = l = nets]
  /\ UNCHANGED <<nets, chan, files, running, op, left, idle, pos, pageVars, ops>>

\* save().  One that fails has changed nothing, or everything when it is nvs_commit()
\* that does.
Save(c) ==
  /\ at[c] = "save"
  /\ \/ nets' = list[c] /\ Ends(c, "ok")
     \/ nets' \in {nets, list[c]} /\ Ends(c, "flash")
  /\ alone' = [d \in Callers |-> alone[d] /\ (d = c \/ at[d] \notin {"save", "done"})]
  /\ UNCHANGED <<chan, files, running, op, list, left, idle, pos, pageVars, ops, before>>

-----------------------------------------------------------------------------
(***************************************************************************)
(* The requests.                                                           *)
(***************************************************************************)

\* The httpd task takes the next request on.
Accept(o, to) ==
  /\ running /\ at["httpd"] = "idle" /\ at["console"] # "stop" /\ ops < MaxOps
  /\ op' = [op EXCEPT !["httpd"] = o] /\ Goes("httpd", to)
  /\ ops' = ops + 1
  /\ UNCHANGED <<nets, chan, files, running, list, code, pageVars, before, alone>>

\* A form of the settings page, with what it will announce of its body.
Form(o) ==
  /\ Accept(o, "body")
  /\ left' \in 1 .. Pieces /\ idle' = 0
  /\ UNCHANGED pos

Post ==
  \E t \in Tabs :
    \/ \E s \in Names, k \in Keys : Form([kind |-> "add", tab |-> t, ssid |-> s, key |-> k])
    \/ \E s \in shown[t] : Form([kind |-> "del", tab |-> t, ssid |-> s])
    \/ \E n \in Channels \cup {Unknown} : Form([kind |-> "chan", tab |-> t, name |-> n])

Get ==
  \E t \in Tabs :
    /\ \/ Accept([kind |-> "settings", tab |-> t], "settings")
       \/ Accept([kind |-> "index", tab |-> t], "index")
       \/ \E s \in rows[t] : Accept([kind |-> "rm", tab |-> t, seq |-> s], "remove")
       \/ \E s \in rows[t] : Accept([kind |-> "file", tab |-> t, seq |-> s], "open")
    /\ UNCHANGED <<left, idle, pos>>

BodyDone == CASE op["httpd"].kind = "chan" -> "set" [] OTHER -> "load"

\* Mutation of Waits: however often nothing comes, it is waited for.
WaitsOn == Goes("httpd", "body") /\ UNCHANGED <<idle, code>>

\* "One retry."
Waits ==
  IF idle >= 1 THEN Ends("httpd", "form") /\ UNCHANGED idle
  ELSE idle' = idle + 1 /\ Goes("httpd", "body") /\ UNCHANGED code

\* read_body(): a segment, a client that is gone, or a body that is no form
Receive ==
  /\ at["httpd"] = "body"
  /\ \/ /\ left' = left - 1 /\ UNCHANGED code
        /\ Goes("httpd", IF left = 1 THEN BodyDone ELSE "body")
     \/ Ends("httpd", "form") /\ UNCHANGED left
  /\ UNCHANGED <<nets, chan, files, running, op, list, idle, pos, pageVars, ops, before, alone>>

\* HTTPD_SOCK_ERR_TIMEOUT
TimesOut ==
  /\ at["httpd"] = "body"
  /\ Waits
  /\ UNCHANGED <<nets, chan, files, running, op, list, left, pos, pageVars, ops, before, alone>>

\* ota_channel_post()
SetChannel ==
  /\ at["httpd"] = "set"
  /\ LET n == op["httpd"].name IN
       \/ n \notin Channels /\ Ends("httpd", "badchan") /\ UNCHANGED chan
       \/ n \in Channels /\ chan' = n /\ Ends("httpd", "ok")
       \/ n \in Channels /\ chan' \in {chan, n} /\ Ends("httpd", "flash")
  /\ UNCHANGED <<nets, files, running, op, list, left, idle, pos, pageVars, ops, before, alone>>

\* The client is gone before the whole page was sent.
PageFails ==
  /\ at["httpd"] \in {"index", "settings"}
  /\ Ends("httpd", "gone")
  /\ UNCHANGED <<nets, chan, files, running, op, list, left, idle, pos, pageVars, ops,
                 before, alone>>

\* index_get(): of more captures than the page has room for, some are shown.
SendIndex ==
  /\ at["httpd"] = "index"
  /\ \E r \in kSubset(Min({ListMax, Cardinality(files)}), files) :
       rows' = [rows EXCEPT ![op["httpd"].tab] = r]
  /\ Ends("httpd", "ok")
  /\ UNCHANGED <<nets, chan, files, running, op, list, left, idle, pos, shown, saved, ops,
                 before, alone>>

\* settings_get()
SendSettings ==
  /\ at["httpd"] = "settings"
  /\ \E l \in {nets, <<>>} :
       shown' = [shown EXCEPT ![op["httpd"].tab] = {n.ssid : n \in ToSet(l)}]
  /\ Ends("httpd", "ok")
  /\ UNCHANGED <<nets, chan, files, running, op, list, left, idle, pos, rows, saved, ops,
                 before, alone>>

\* rm_post(): store_remove()
RmPost ==
  /\ at["httpd"] = "remove"
  /\ files' = files \ {op["httpd"].seq}
  /\ Ends("httpd", IF op["httpd"].seq \in files THEN "ok" ELSE "missing")
  /\ UNCHANGED <<nets, chan, running, op, list, left, idle, pos, pageVars, ops, before, alone>>

\* file_get(), up to the first block
OpenFile ==
  /\ at["httpd"] = "open"
  /\ LET o == op["httpd"] IN
       \/ /\ o.seq \in files
          /\ saved' = [saved EXCEPT ![o.tab] = [seq |-> o.seq, blocks |-> 0, whole |-> FALSE]]
          /\ pos' = 0
          /\ Goes("httpd", "send") /\ UNCHANGED code
       \/ Ends("httpd", "missing") /\ UNCHANGED <<saved, pos>>
  /\ UNCHANGED <<nets, chan, files, running, op, list, left, idle, rows, shown, ops, before, alone>>

\* A block is read and sent.
SendBlock ==
  /\ at["httpd"] = "send"
  /\ LET o == op["httpd"] IN
       /\ pos < Blocks[o.seq]
       /\ pos' = pos + 1
       /\ saved' = [saved EXCEPT ![o.tab].blocks = @ + 1]
  /\ UNCHANGED <<nets, chan, files, running, callVars, left, idle, rows, shown, ops, before, alone>>

\* Mutation of SendEnd: the answer ends in the same way when reading has failed.
SendEndAnyway ==
  /\ at["httpd"] = "send"
  /\ saved' = [saved EXCEPT ![op["httpd"].tab].whole = TRUE]
  /\ Ends("httpd", "ok")
  /\ UNCHANGED <<nets, chan, files, running, op, list, left, idle, pos, rows, shown, ops,
                 before, alone>>

\* The end of the file: the terminating chunk.
SendEnd ==
  /\ at["httpd"] = "send" /\ pos = Blocks[op["httpd"].seq]
  /\ saved' = [saved EXCEPT ![op["httpd"].tab].whole = TRUE]
  /\ Ends("httpd", "ok")
  /\ UNCHANGED <<nets, chan, files, running, op, list, left, idle, pos, rows, shown, ops,
                 before, alone>>

\* "No terminating chunk on a partial body": the client is gone, or a read fails, which
\* it may when the file has been removed.
SendFails ==
  /\ at["httpd"] = "send"
  /\ Ends("httpd", "gone")
  /\ UNCHANGED <<nets, chan, files, running, op, list, left, idle, pos, pageVars, ops,
                 before, alone>>

-----------------------------------------------------------------------------
(***************************************************************************)
(* The console.                                                            *)
(***************************************************************************)
Command(o, to) ==
  /\ at["console"] = "idle" /\ ops < MaxOps
  /\ op' = [op EXCEPT !["console"] = o] /\ Goes("console", to)
  /\ ops' = ops + 1
  /\ UNCHANGED <<nets, chan, files, running, list, code, left, idle, pos, pageVars,
                 before, alone>>

\* "wifi add", "wifi del", "caprm", and "wifi off"
Type ==
  \/ \E s \in Names, k \in Keys : Command([kind |-> "add", ssid |-> s, key |-> k], "load")
  \/ \E s \in Names : Command([kind |-> "del", ssid |-> s], "load")
  \/ \E r \in {{s} : s \in Captures} \cup kSubset(Min({ListMax, Cardinality(files)}), files) :
       Command([kind |-> "caprm", seqs |-> r], "remove")
  \/ running /\ Command([kind |-> "off"], "stop")

\* store_remove() of one, or of the next of all.
CapRm ==
  /\ at["console"] = "remove"
  /\ LET s == op["console"].seqs IN
       \/ /\ s # {}
          /\ files' = files \ {Min(s)}
          /\ op' = [op EXCEPT !["console"].seqs = @ \ {Min(s)}]
          /\ UNCHANGED <<at, code>>
       \/ s = {} /\ Ends("console", "ok") /\ UNCHANGED <<files, op>>
  /\ UNCHANGED <<nets, chan, running, list, left, idle, pos, pageVars, ops, before, alone>>

\* web_stop(): httpd_stop() returns when the httpd task is through with its request.
WebStop ==
  /\ at["console"] = "stop" /\ at["httpd"] = "idle"
  /\ running' = FALSE
  /\ Ends("console", "ok")
  /\ UNCHANGED <<nets, chan, files, op, list, left, idle, pos, pageVars, ops, before, alone>>

\* The answer is sent or printed, and what was borrowed is given back.
Answer(c) ==
  /\ at[c] = "done"
  /\ Goes(c, "idle")
  /\ op' = [op EXCEPT ![c] = NoOp] /\ list' = [list EXCEPT ![c] = <<>>]
  /\ before' = [before EXCEPT ![c] = <<>>]
  /\ code' = [code EXCEPT ![c] = "ok"] /\ alone' = [alone EXCEPT ![c] = TRUE]
  /\ UNCHANGED <<nets, chan, files, running, left, idle, pos, pageVars, ops>>

-----------------------------------------------------------------------------
Handler ==
  \/ TimesOut \/ Load("httpd") \/ Save("httpd") \/ SetChannel
  \/ SendIndex \/ SendSettings \/ PageFails \/ RmPost \/ OpenFile \/ SendBlock \/ SendEnd \/ SendFails
  \/ Answer("httpd")

ConsoleTask ==
  \/ Load("console") \/ Save("console") \/ CapRm \/ WebStop \/ Answer("console")

Next == Handler \/ ConsoleTask \/ Receive \/ Post \/ Get \/ Type

\* The httpd task runs, a receive times out, and so does a send to a client that does
\* not read.  Nothing is assumed of what a client sends.
Spec == Init /\ [][Next]_vars /\ WF_vars(Handler)

-----------------------------------------------------------------------------
\* The list is one that update mode can go through, whoever wrote it last and whatever
\* they did at the same time: no network is in it twice, and there are never too many.
NetsSound == Len(nets) <= NetMax /\ IsInjective([i \in DOMAIN nets |-> nets[i].ssid])

\* "Network remembered.", "Network forgotten." and the refusals are true of the list in
\* flash: it is the one that was there, with that network and nothing else changed.
\* Unless the other task wrote in between, or the list could not be read.
AnswerTrue ==
  \A c \in Callers :
    LET o == op[c]
        key(l, s) == {l[i].key : i \in IndexOf(l, s)}
    IN  at[c] = "done" /\ o.kind \in {"add", "del"} /\ alone[c] =>
          /\ code[c] \in {"size", "full", "missing"} => nets = before[c]
          /\ code[c] = "ok" =>
               \A s \in Names :
                 key(nets, s) = IF s # o.ssid THEN key(before[c], s)
                                ELSE IF o.kind = "add" THEN {o.key} ELSE {}

\* A download that ended as a complete one is the whole capture, also when it was
\* removed meanwhile.
WholeFile == \A t \in Tabs : saved[t].whole => saved[t].blocks = Blocks[saved[t].seq]

\* "A client that has announced a body and then stops sending it must not hold the
\* single httpd task open": the server becomes free for the next request, and for
\* web_stop(), whatever a client does.
HttpdFree == at["httpd"] # "idle" ~> at["httpd"] = "idle"
=============================================================================
