-------------------------------- MODULE BmsPoll --------------------------------
(***************************************************************************)
(* main/capture.c: how wide the BMS is polled.                             *)
(*                                                                         *)
(* The Daly speaks only when asked.  The capture task asks once a second   *)
(* for Wide registers; it narrows to Proven when the MTU of the connection *)
(* cannot carry the wide answer, or when the peer leaves Tries requests    *)
(* unanswered, which it then remembers for the rest of the boot.  The      *)
(* count of unanswered requests is shared with the NimBLE host task, which *)
(* clears it when an answer decodes.                                       *)
(*                                                                         *)
(* One step is one critical section of s_mux, or one call of the host.     *)
(* The rest of bringing a link up and dropping it is CapLink's; when a     *)
(* poll is due is a nondeterministic choice.                               *)
(***************************************************************************)
EXTENDS Integers, Sequences

CONSTANTS
  Wide,        \* CAP_BMS_POLL_COUNT
  Proven,      \* CAP_BMS_POLL_PROVEN
  Needs,       \* the values of WF_BMS_REG_NEEDED, the registers wf_bms_decode() must
               \* have, that the generated field table may come to
  Tries,       \* CAP_BMS_WIDE_TRIES
  CounterMax,  \* where poll_unanswered saturates (0xffff)
  Mtus,        \* what connections may negotiate
  MaxAir       \* bound: requests sent and not answered yet

ASSUME PollAssumption ==
  /\ Wide \in Nat /\ Proven \in Nat /\ Needs \subseteq 0 .. Wide
  /\ 0 < Proven /\ Proven < Wide
  /\ Tries \in Nat \ {0} /\ CounterMax \in Nat /\ Tries <= CounterMax
  /\ Mtus \subseteq Nat
  /\ MaxAir \in Nat \ {0}

VARIABLES
  needed,   \* WF_BMS_REG_NEEDED of this build
  conn,     \* the host: the connection is up, being terminated, or not there
  mtu,      \* the host: what was negotiated for it
  serves,   \* the peer: the widths it answers with what was asked for
  air,      \* the widths of the requests under way
  hd,       \* s_link[].conn_handle # BLE_HS_CONN_HANDLE_NONE
  sub,      \* s_pub.link[].subscribed
  width,    \* s_link[].poll_count
  unans,    \* s_link[].poll_unanswered
  refused,  \* s_link[].poll_refused
  tpc,      \* where the task is in link_setup() or link_poll()
  want,     \* want_count of link_setup()
  count, missed,  \* the locals of link_poll()
  left      \* history: requests that left since one was answered, to CounterMax

peerVars == <<conn, mtu, serves, air>>
linkVars == <<hd, sub, width, unans, refused>>
taskVars == <<tpc, want, count, missed>>
vars == <<needed, peerVars, linkVars, taskVars, left>>

-----------------------------------------------------------------------------
\* daly_response_len(), and the ATT header of a notification.
Carries(m, n) == m >= 5 + 2 * n + 3

\* wf_bms_width_decodes()
Decodes(n) == needed <= n /\ n <= Wide

\* poll_fallback_count(): "With no fallback the poll stays wide".
Fallback == IF Decodes(Proven) THEN Proven ELSE 0

UpTo(n) == IF n < CounterMax THEN n + 1 ELSE n

Init ==
  /\ needed \in Needs
  /\ conn = "none" /\ mtu = 0 /\ serves \in SUBSET {Wide, Proven} /\ air = <<>>
  /\ hd = FALSE /\ sub = FALSE /\ width = 0 /\ unans = 0 /\ refused = FALSE
  /\ tpc = "idle" /\ want = 0 /\ count = 0 /\ missed = 0
  /\ left = 0

-----------------------------------------------------------------------------
(***************************************************************************)
(* link_connect(), link_setup() and link_drop(), on the capture task.      *)
(***************************************************************************)
Connect ==
  /\ tpc = "idle" /\ ~hd /\ conn = "none"
  /\ conn' = "up" /\ mtu' \in Mtus
  /\ hd' = TRUE /\ sub' = FALSE
  /\ tpc' = "choose"
  /\ UNCHANGED <<needed, serves, air, width, unans, refused, want, count, missed, left>>

Asked == IF refused /\ Fallback # 0 THEN Fallback ELSE Wide

\* ble_att_mtu() of a connection that is gone is 0.
Mtu == IF conn = "none" THEN 0 ELSE mtu

\* Mutation of ChooseWidth: the narrow answer is taken to fit.
ChooseWidthUnchecked ==
  /\ tpc = "choose"
  /\ \/ Carries(Mtu, Asked) /\ want' = Asked /\ tpc' = "subscribe"
     \/ /\ ~Carries(Mtu, Asked)
        /\ IF Fallback # 0 /\ Fallback < Asked
           THEN want' = Fallback /\ tpc' = "subscribe"
           ELSE tpc' = "drop" /\ UNCHANGED want
  /\ UNCHANGED <<needed, peerVars, linkVars, count, missed, left>>

\* "How wide this poll may be, decided fresh for this connection"
ChooseWidth ==
  /\ tpc = "choose"
  /\ \/ Carries(Mtu, Asked) /\ want' = Asked /\ tpc' = "subscribe"
     \/ /\ ~Carries(Mtu, Asked)
        /\ IF Fallback # 0 /\ Fallback < Asked /\ Carries(Mtu, Fallback)
           THEN want' = Fallback /\ tpc' = "subscribe"
           ELSE tpc' = "drop" /\ UNCHANGED want
  /\ UNCHANGED <<needed, peerVars, linkVars, count, missed, left>>

\* The MTU exchange, a discovery or the CCCD write failed.
SetupFails ==
  /\ tpc \in {"choose", "subscribe"}
  /\ tpc' = "drop"
  /\ UNCHANGED <<needed, peerVars, linkVars, want, count, missed, left>>

Subscribed ==
  /\ tpc = "subscribe"
  /\ width' = want /\ unans' = 0 /\ sub' = TRUE
  /\ left' = 0
  /\ tpc' = "idle"
  /\ UNCHANGED <<needed, peerVars, hd, refused, want, count, missed>>

\* The set-up failed; or the watchdog, or the end of the capture, drops the link.
LinkDrop ==
  /\ tpc = "drop" \/ (tpc = "idle" /\ hd)
  /\ conn' = IF hd /\ conn = "up" THEN "closing" ELSE conn
  /\ hd' = FALSE /\ sub' = FALSE /\ width' = 0 /\ unans' = 0
  /\ left' = 0
  /\ tpc' = "idle"
  /\ UNCHANGED <<needed, mtu, serves, air, refused, want, count, missed>>

-----------------------------------------------------------------------------
(***************************************************************************)
(* link_poll(), on the capture task.                                       *)
(***************************************************************************)
PollDue ==
  /\ tpc = "idle" /\ sub /\ hd /\ width # 0
  /\ count' = width /\ missed' = unans
  /\ tpc' = "narrow"
  /\ UNCHANGED <<needed, peerVars, linkVars, want, left>>

\* "after CAP_BMS_WIDE_TRIES unanswered requests the poll gives up the upper
\* registers and keeps the ride"
Narrow ==
  /\ tpc = "narrow"
  /\ IF missed >= Tries /\ Fallback # 0 /\ count > Fallback
     THEN /\ count' = Fallback /\ width' = Fallback
          /\ unans' = 0 /\ refused' = TRUE
          /\ left' = 0
     ELSE UNCHANGED <<count, width, unans, refused, left>>
  /\ tpc' = "count"
  /\ UNCHANGED <<needed, peerVars, hd, sub, want, missed>>

\* "Counted before the write, not after."
Count ==
  /\ tpc = "count"
  /\ unans' = UpTo(unans)
  /\ tpc' = "write"
  /\ UNCHANGED <<needed, peerVars, hd, sub, width, refused, want, count, missed, left>>

Write ==
  /\ tpc = "write" /\ conn = "up" /\ Len(air) < MaxAir
  /\ air' = Append(air, count)
  /\ left' = UpTo(left)
  /\ tpc' = "idle"
  /\ UNCHANGED <<needed, conn, mtu, serves, linkVars, want, count, missed>>

\* The host is out of buffers, or the connection is gone.
WriteFails ==
  /\ tpc = "write"
  /\ tpc' = "undo"
  /\ UNCHANGED <<needed, peerVars, linkVars, want, count, missed, left>>

\* "A request that never left is not evidence about the width"
Undo ==
  /\ tpc = "undo"
  /\ unans' = IF unans > 0 THEN unans - 1 ELSE 0
  /\ tpc' = "idle"
  /\ UNCHANGED <<needed, peerVars, hd, sub, width, refused, want, count, missed, left>>

-----------------------------------------------------------------------------
(***************************************************************************)
(* The peer, and the callbacks on the NimBLE host task.                    *)
(***************************************************************************)

\* Mutation of Answered: any notification counts as an answer.
AnsweredByAny(n) == TRUE

\* bms_decode() of what the peer sends for a request of n registers: an exception
\* frame is a notification, but does not decode.
Answered(n) == n \in serves /\ Decodes(n)

\* notify_sink()
Answer ==
  /\ conn # "none" /\ air # <<>>
  /\ air' = Tail(air)
  /\ IF Answered(Head(air))
     THEN unans' = 0 /\ left' = 0
     ELSE UNCHANGED <<unans, left>>
  /\ UNCHANGED <<needed, conn, mtu, serves, hd, sub, width, refused, taskVars>>

\* Silence: the request, or the answer, is lost.
Lost ==
  /\ air # <<>>
  /\ air' = Tail(air)
  /\ UNCHANGED <<needed, conn, mtu, serves, linkVars, taskVars, left>>

\* BLE_GAP_EVENT_DISCONNECT
OnDisconnect ==
  /\ conn # "none"
  /\ conn' = "none" /\ air' = <<>>
  /\ hd' = FALSE /\ sub' = FALSE
  /\ UNCHANGED <<needed, mtu, serves, width, unans, refused, taskVars, left>>

-----------------------------------------------------------------------------
TaskStep ==
  \/ Connect \/ ChooseWidth \/ SetupFails \/ Subscribed \/ LinkDrop
  \/ PollDue \/ Narrow \/ Count \/ Write \/ WriteFails \/ Undo

Next == TaskStep \/ Answer \/ Lost \/ OnDisconnect

Spec == Init /\ [][Next]_vars

\* The task polls once a second for as long as the link is up, and the radio gets
\* some of the requests out; each is answered or lost in the end.
Fairness ==
  /\ WF_vars(PollDue \/ Narrow \/ Count \/ Undo)
  /\ WF_vars(Write \/ WriteFails)
  /\ SF_vars(Write)
  /\ WF_vars(Answer \/ Lost)

FairSpec == Spec /\ Fairness

-----------------------------------------------------------------------------
Widths == {0, Proven, Wide}

TaskPcs == {"idle", "choose", "subscribe", "drop", "narrow", "count", "write", "undo"}

\* Every variable holds a value of its kind, and the counter its width.
TypeOK ==
  /\ needed \in Needs
  /\ conn \in {"none", "up", "closing"} /\ mtu \in Mtus \cup {0}
  /\ serves \subseteq {Wide, Proven} /\ air \in Seq(Widths) /\ Len(air) <= MaxAir
  /\ hd \in BOOLEAN /\ sub \in BOOLEAN /\ width \in Widths
  /\ unans \in 0 .. CounterMax /\ refused \in BOOLEAN
  /\ tpc \in TaskPcs /\ want \in Widths /\ count \in Widths /\ missed \in 0 .. CounterMax
  /\ left \in 0 .. CounterMax

\* What is asked for is never more than the connection can carry the answer to, also
\* after the poll narrowed while the link was being lost.
WidthFits == conn # "none" /\ hd /\ sub => Carries(mtu, width)

\* A link that is subscribed asks for registers, and for enough of them to decode:
\* the fallback may cost the upper registers, never the State of Charge.
WidthDecodes == sub => Decodes(width)

\* A peer that has refused the wide read is not asked for it again, on any later
\* connection of the boot.
RefusedKept == refused => width \in {0, Proven} /\ Fallback = Proven

\* poll_unanswered is the number of requests that left since one was answered,
\* give or take the one being written: neither a request that never left nor an
\* answer that overtook the counting adds up over the ride.
CountsWhatLeft ==
  LET pending == IF tpc \in {"write", "undo"} THEN 1 ELSE 0
  IN  unans <= left + pending /\ left <= unans + 1

\* A BMS that answers the proven width only gets to be asked for it, while the link
\* stays up, in every build in which that width decodes.
Narrows ==
  (Decodes(Proven) /\ serves = {Proven} /\ sub /\ hd) ~> (width = Fallback \/ ~sub \/ ~hd)
=============================================================================
