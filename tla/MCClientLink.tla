----------------------------- MODULE MCClientLink -----------------------------
(* Bounded instances of ClientLink for TLC.                                *)
EXTENDS ClientLink

CONSTANTS
    MaxTime,        \* bound on the clock
    MaxDatagrams,   \* bound on the datagrams that arrive
    MaxAhead        \* bound on how far a deadline is ahead of the clock

VARIABLE arrived    \* the datagrams that arrived

Bounded ==
    /\ now' <= MaxTime
    /\ expires'["reconnect"] <= now' + MaxAhead

MCInit == Init /\ arrived = 0

MCNext ==
    /\ Next /\ Bounded
    /\ arrived' = IF HandleOther \/ \E type \in {"DATA", "ACK"} : Arrive(type)
                  THEN arrived + 1 ELSE arrived
    /\ arrived' <= MaxDatagrams

MCSpec == MCInit /\ [][MCNext]_<< vars, arrived >>

(* Fairness of ClientLink for the steps within the bounds.                 *)
MCFairness ==
    /\ WF_vars(Connect /\ Bounded) /\ WF_vars(Alarm /\ Bounded)
    /\ WF_vars(Keepalive) /\ WF_vars(Handle) /\ WF_vars(Expiry)
    /\ WF_vars((Established \/ Refused) /\ Bounded)
    /\ SF_vars(Tick /\ Bounded)

MCFairSpec == MCSpec /\ MCFairness
=============================================================================
