-------------------------------- MODULE Uplink --------------------------------
(***************************************************************************)
(* What the uploads of one client promise on a path that keeps order,      *)
(* without datagrams, ticks or repetitions: the client numbers its UPLOADs *)
(* 0, 1, 2, ..., the server accepts them one by one in that order, and the *)
(* client, which learns of it later and never of all numbers, is at most   *)
(* Ahead of them beyond the last number it learned.                        *)
(***************************************************************************)
EXTENDS Naturals

CONSTANT Ahead      \* UPLOADs the client may have sent and knows nothing of

VARIABLES
    sent,       \* the number of the next UPLOAD
    received,   \* the number the server expects
    learned     \* the last acknowledged number the client has seen

uplink == << sent, received, learned >>

UplinkInit == sent = 0 /\ received = 0 /\ learned = 0

Send ==
    /\ sent < learned + Ahead
    /\ sent' = sent + 1
    /\ UNCHANGED << received, learned >>

Accept ==
    /\ received < sent
    /\ received' = received + 1
    /\ UNCHANGED << sent, learned >>

(* Never back: an acknowledgement is news.                                 *)
Learn ==
    /\ learned' \in learned + 1 .. received
    /\ UNCHANGED << sent, received >>

UplinkNext == Send \/ Accept \/ Learn

UplinkSpec == UplinkInit /\ [][UplinkNext]_uplink
=============================================================================
