----------------------------- MODULE CaptureLog -----------------------------
(***************************************************************************)
(* What the capture store promises (main/capture_store.h): numbered logs,  *)
(* each written once.  A log grows by whole records while it is open; what *)
(* was appended stays, in order, when it is closed; a power cut keeps a    *)
(* prefix; afterwards a log never changes until it is removed whole.       *)
(***************************************************************************)
EXTENDS SequencesExt, Integers

CONSTANTS
  Numbers,   \* sequence numbers
  Records    \* what a record may be

VARIABLES
  state,     \* of each number: "absent", "open" or "final"
  log        \* of each number: the records

logVars == <<state, log>>

LogTypeOK ==
  /\ state \in [Numbers -> {"absent", "open", "final"}]
  /\ log \in [Numbers -> Seq(Records)]

LogInit ==
  /\ state = [n \in Numbers |-> "absent"]
  /\ log = [n \in Numbers |-> <<>>]

\* A number is never handed out while it, or a later one, is in use.
Open(n) ==
  /\ \A m \in Numbers : state[m] # "open"
  /\ \A m \in Numbers : m >= n => state[m] = "absent"
  /\ state' = [state EXCEPT ![n] = "open"]
  /\ UNCHANGED log

AppendTo(n) ==
  /\ state[n] = "open"
  /\ log'[n] # <<>> /\ Last(log'[n]) \in Records
  /\ log' = [log EXCEPT ![n] = Append(@, Last(log'[n]))]
  /\ UNCHANGED state

Close(n) ==
  /\ state[n] = "open"
  /\ state' = [state EXCEPT ![n] = "final"]
  /\ UNCHANGED log

Crash(n) ==
  /\ state[n] = "open"
  /\ state' = [state EXCEPT ![n] = "final"]
  /\ \E kept \in Prefixes(log[n]) : log' = [log EXCEPT ![n] = kept]

\* Opening failed, or nothing of the log had reached the flash.
Abandon(n) ==
  /\ state[n] = "open" /\ log[n] = <<>>
  /\ state' = [state EXCEPT ![n] = "absent"]
  /\ UNCHANGED log

Delete(n) ==
  /\ state[n] = "final"
  /\ state' = [state EXCEPT ![n] = "absent"]
  /\ log' = [log EXCEPT ![n] = <<>>]

LogNext ==
  \E n \in Numbers :
    Open(n) \/ AppendTo(n) \/ Close(n) \/ Crash(n) \/ Abandon(n) \/ Delete(n)

LogSpec == LogInit /\ [][LogNext]_logVars
=============================================================================
