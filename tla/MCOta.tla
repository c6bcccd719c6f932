------------------------------- MODULE MCOta -------------------------------
(***************************************************************************)
(* A small instance of Ota for TLC: two images that pass every gate, and   *)
(* one that does not mount the store.                                      *)
(***************************************************************************)
EXTENDS Ota

CONSTANTS old, good, bad,  \* images
          debug            \* a channel

MCImages == {old, good, bad}
MCPasses == [i \in MCImages |-> IF i = bad THEN Gates \ {"store"} ELSE Gates]
MCChannels == {Stable, debug}
=============================================================================
