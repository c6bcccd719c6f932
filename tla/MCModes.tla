------------------------------- MODULE MCModes -------------------------------
EXTENDS Modes

\* The presses that open the menu, pick an entry and confirm.
MCFew == {p \in AllPresses : p.btn = "B" \/ (p.btn = "A" /\ ~p.long)}

\* The rider, and a bench that types what the console knows.
MCRider == {}
MCBench == AllCmds \ {"scan_stop", "rec_stop"}
=============================================================================
