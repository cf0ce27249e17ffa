------------------------------ MODULE MCSession ------------------------------
(* Bounded instances of Session for TLC.                                   *)
EXTENDS Session

CONSTANTS
    MaxRead,        \* bound on the samples read from stdin
    MaxToServer     \* bound on the datagrams on their way to the server

Bounded == read' <= MaxRead /\ Len(toServer') <= MaxToServer

MCNext == Next /\ Bounded

MCSpec == Init /\ [][MCNext]_vars

MCFairSpec == MCSpec /\ Fairness
=============================================================================
