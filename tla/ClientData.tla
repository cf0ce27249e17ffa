------------------------------ MODULE ClientData ------------------------------
(***************************************************************************)
(* One client_data object over its life, driven by the calls the server    *)
(* makes: an accepted UPLOAD, a tick of the mixer, a tick of the report    *)
(* timer.  RETRANSMIT only reads the object, so what it answers is stated  *)
(* as an invariant.                                                        *)
(*                                                                         *)
(* The samples of the client's stream are numbered 1, 2, 3, ... in the     *)
(* order in which the client sent them, and a sample is its number: this   *)
(* is what makes order, loss and duplication inside the queue visible.     *)
(***************************************************************************)
EXTENDS Integers, Sequences, FiniteSets, ClientDataOps

CONSTANTS
    UploadHeader,   \* bytes of the shortest UPLOAD header line
    MixSamples,     \* samples one mixer interval consumes of each ACTIVE queue
    FirstDgramNr    \* current_datagram_nr_ of the server at construction

(* A datagram is read into a buffer of fifo_size_ bytes and its header     *)
(* takes some of them, so no upload is larger than the queue.              *)
MaxUpload == (FifoSize - UploadHeader) \div 2

(* An ACTIVE queue holds at least the samples of one mixer interval; when  *)
(* -H and -i break this, mixer::mix leaves the queue (see module Mixer).   *)
ASSUME CallerAssumption ==
    /\ UploadHeader \in 1 .. FifoSize
    /\ MixSamples \in Nat \ {0}
    /\ 2 * MixSamples + 1 <= High
    /\ FirstDgramNr \in Nat

VARIABLES
    cd,         \* the object
    nr,         \* current_datagram_nr_ of the server: the next DATA datagram
    accepted,   \* history: samples of the stream uploaded so far
    seen        \* history: the sizes the queue had since the last report

vars == << cd, nr, accepted, seen >>

(* The samples of an upload of n samples.                                  *)
NewSamples(n) == [i \in 1 .. n |-> accepted + i]

Init ==
    /\ cd = NewClientData("ep")
    /\ nr = FirstDgramNr
    /\ accepted = 0
    /\ seen = {0}

(* An UPLOAD with the expected number: do_manage_msg, branch UPLOAD.       *)
Upload(n) ==
    /\ cd' = AfterUpload(cd, NewSamples(n))
    /\ accepted' = accepted + n
    /\ seen' = seen \cup {cd'.queue_size}
    /\ nr' = nr

(* server::mixer as one client_data sees it: an ACTIVE queue gives the     *)
(* samples that were mixed, and every client is sent the next datagram.    *)
Mixed == IF RateQueueState(cd) = "ACTIVE"
         THEN AfterMixery(cd, 2 * MixSamples)
         ELSE cd

Mix ==
    /\ cd' = AddDgram(Mixed, [nr |-> nr])
    /\ nr' = nr + 1
    /\ seen' = seen \cup {cd'.queue_size}
    /\ accepted' = accepted

(* server::send_raport.                                                    *)
Report ==
    /\ cd' = ResetStatistics(cd)
    /\ seen' = {cd.queue_size}
    /\ UNCHANGED << nr, accepted >>

Next ==
    \/ \E n \in 0 .. MaxUpload : Upload(n)
    \/ Mix
    \/ Report

Spec == Init /\ [][Next]_vars

-----------------------------------------------------------------------------
(* The record has the fields of the class, with natural sizes.             *)
CDType == [ udp_endpoint : {"ep"}, queue : Seq(Nat), queue_size : Nat,
            min_bytes : Nat, max_bytes : Nat,
            expected_client_datagram_nr : Nat,
            last_dgrams : Seq([nr : Nat]) ]

TypeOK ==
    /\ cd \in CDType
    /\ nr \in Nat
    /\ accepted \in Nat
    /\ seen \in SUBSET Nat

(* queue_size_ is the size of queue_ and never exceeds max_queue_length_,  *)
(* so max_queue_length_ - queue_size_ cannot wrap around and no upload can *)
(* ask pop_front_sequence for more samples than there are.                 *)
QueueBounded ==
    /\ cd.queue_size = Len(cd.queue)
    /\ cd.queue_size <= MaxQueueLength
    /\ \A n \in 0 .. MaxUpload :
           UploadShift(cd, NewSamples(n)) <= cd.queue_size

(* The queue is the newest part of the stream, in order, without a gap or  *)
(* a repetition, whatever uploads and mixer ticks came before.             *)
QueueIsNewest ==
    \A i \in 1 .. Len(cd.queue) :
        cd.queue[i] = accepted - Len(cd.queue) + i

(* min_bytes_ and max_bytes_ are exactly the extreme sizes the queue had   *)
(* since the last report, in bytes (client_data.hh:101-104).               *)
StatisticsExact ==
    /\ \E s \in seen : cd.min_bytes = 2 * s
    /\ \E s \in seen : cd.max_bytes = 2 * s
    /\ \A s \in seen : cd.min_bytes <= 2 * s /\ 2 * s <= cd.max_bytes

(* The datagrams kept for retransmission are the last ones sent, with      *)
(* consecutive numbers up to nr - 1, and as many as -X allows.             *)
DgramsAreLast ==
    /\ Len(cd.last_dgrams) = Smaller(BufLen, nr - FirstDgramNr)
    /\ \A i \in 1 .. Len(cd.last_dgrams) :
           cd.last_dgrams[i].nr = nr - Len(cd.last_dgrams) + i - 1

(* The answer to a retransmission: the newest datagrams, in order, each    *)
(* once and without a gap; all that are kept with a number above inf_nr    *)
(* and none below it.  Code (client_data.cc:168) and comment               *)
(* (client_data.hh:53) agree on that; they differ on inf_nr itself, which  *)
(* the code returns and the comment excludes.                              *)
RetransmitGapless ==
    \A inf_nr \in 0 .. nr :
        LET answer == GetLastDgrams(cd, inf_nr)
            n      == Len(answer)
        IN  /\ \A i \in 1 .. n : answer[i].nr = nr - n + i - 1
            /\ nr - n >= inf_nr
            /\ n >= Smaller(nr - inf_nr - 1, Len(cd.last_dgrams))

(* A DATA datagram never advertises a closed window: get_available_size is *)
(* read after the mixer has consumed, and a queue that was not ACTIVE is   *)
(* at least two bytes short of -F.  A client that waits for room in the    *)
(* FIFO is thus never told to wait by DATA.                                *)
DataOpensWindow == [][nr' # nr => GetAvailableSize(cd') > 0]_vars

-----------------------------------------------------------------------------
(* The abstract FIFO: its window is read off the contents of the queue.    *)
Head1 == IF cd.queue = << >> THEN accepted ELSE cd.queue[1] - 1
Tail1 == IF cd.queue = << >> THEN accepted ELSE cd.queue[Len(cd.queue)]

Window == INSTANCE SlidingWindow
    WITH Capacity <- MaxQueueLength, Take <- MixSamples,
         head <- Head1, tail <- Tail1

(* The client's FIFO implements the sliding window.                        *)
ImplementsWindow == Window!WindowSpec
=============================================================================
