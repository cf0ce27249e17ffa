---------------------------- MODULE SlidingWindow ----------------------------
(***************************************************************************)
(* What the FIFO of one client promises, without saying how it is kept.    *)
(* The client uploads a stream of samples numbered 1, 2, 3, ...; at any    *)
(* time the FIFO holds the samples head+1 .. tail of it.  Samples enter in *)
(* order at the tail, and leave only at the head: a fixed number of them   *)
(* per mixer interval, or as many as an upload to a full FIFO pushes out.  *)
(***************************************************************************)
EXTENDS Naturals

CONSTANTS
    Capacity,   \* samples the FIFO may hold
    Take        \* samples one mixer interval consumes

VARIABLES head, tail

window == << head, tail >>

WindowInit == head = 0 /\ tail = 0

(* n new samples; the oldest make room, and only as many as are needed.    *)
Put(n) ==
    /\ tail' = tail + n
    /\ head' = IF tail + n - head > Capacity THEN tail + n - Capacity ELSE head

TakeOne ==
    /\ head + Take <= tail
    /\ head' = head + Take
    /\ tail' = tail

WindowNext == TakeOne \/ \E n \in 0 .. Capacity : Put(n)

WindowSpec == WindowInit /\ [][WindowNext]_window
=============================================================================
