----------------------------- MODULE MCClientData -----------------------------
(* Bounded instances of ClientData for TLC.                                *)
EXTENDS ClientData

CONSTANTS
    MaxAccepted,    \* bound on the samples of the stream
    MaxNr           \* bound on the datagram numbers

MCNext ==
    \/ \E n \in 0 .. MaxUpload :
           accepted + n <= MaxAccepted
           /\ cd.expected_client_datagram_nr < MaxAccepted /\ Upload(n)
    \/ nr < MaxNr /\ Mix
    \/ Report

MCSpec == Init /\ [][MCNext]_vars
=============================================================================
