---------------------------- MODULE ClientDataOps ----------------------------
(***************************************************************************)
(* The class client_data of client_data_on_server/: what the server keeps  *)
(* for one client.  A client_data object is a record with the fields of    *)
(* the class (the trailing underscore of the C++ names is dropped); every  *)
(* method that changes the object is an operator from the old record to    *)
(* the new one, every other method an operator that reads it.              *)
(*                                                                         *)
(* A sample (int16_t) is any value; sizes are in samples where the code    *)
(* counts elements of queue_ and in bytes (2 per sample) where it counts   *)
(* bytes, exactly as the code does.                                        *)
(***************************************************************************)
LOCAL INSTANCE Naturals
LOCAL INSTANCE Sequences

CONSTANTS
    FifoSize,   \* fifo_size_: option -F of the server, in bytes
    High,       \* fifo_high_watermark_: option -H, in bytes, at most FifoSize
    Low,        \* fifo_low_watermark_: option -L, in bytes
    BufLen      \* buf_len_: option -X, datagrams kept for retransmission

(* server_parser::parse caps High with FifoSize and checks nothing else.   *)
ASSUME WatermarkAssumption ==
    /\ FifoSize \in Nat
    /\ High \in 0 .. FifoSize
    /\ Low \in Nat
    /\ BufLen \in Nat

(* The server passes fifo_size_ / 2 as max_queue_length.                   *)
MaxQueueLength == FifoSize \div 2

Larger(a, b)  == IF a >= b THEN a ELSE b
Smaller(a, b) == IF a <= b THEN a ELSE b

(* Deviation: the minimum starts from a mark for "none yet".               *)
NewClientDataMarked(ep) ==
    [ udp_endpoint |-> ep, queue |-> << >>, queue_size |-> 0,
      min_bytes |-> 0 - 1, max_bytes |-> 0,
      expected_client_datagram_nr |-> 0, last_dgrams |-> << >> ]

(* The constructor.                                                        *)
NewClientData(ep) ==
    [ udp_endpoint |-> ep, queue |-> << >>, queue_size |-> 0,
      min_bytes |-> 0, max_bytes |-> 0,
      expected_client_datagram_nr |-> 0, last_dgrams |-> << >> ]

(* Deviation: the samples are taken from the wrong end.                    *)
PopBack(q, shift) == SubSeq(q, 1, Len(q) - shift)

(* pop_front_sequence on the queue: [begin + shift, end).  A shift beyond  *)
(* the queue is undefined in the code; the callers are shown never to ask  *)
(* for one (QueueBounded of ClientData).                                   *)
PopFront(q, shift) == SubSeq(q, shift + 1, Len(q))

(* Deviations: samples compared with bytes; the watermarks swapped.        *)
ReachesHighInSamples(cd) == High > 0 /\ cd.queue_size >= High - 1
ReachesLow(cd)           == cd.queue_size * 2 >= Low

(* rate_queue_state.  size_t wraps: with High = 0 the bound High - 1 is    *)
(* SIZE_MAX and no queue is ever ACTIVE.                                   *)
ReachesHigh(cd) == High > 0 /\ cd.queue_size * 2 >= High - 1

RateQueueState(cd) ==
    IF ReachesHigh(cd) THEN "ACTIVE"
    ELSE IF cd.queue_size * 2 <= Low THEN "FILLING" ELSE "INCOMPLETE"

(* Deviation: the size of the FIFO is given for the room left in it.       *)
GetFifoSize(cd) == MaxQueueLength * 2

GetQueueSize(cd)     == cd.queue_size * 2
GetAvailableSize(cd) == (MaxQueueLength - cd.queue_size) * 2

(* Deviation: one sample too few makes room.                               *)
UploadShiftShort(cd, data) ==
    IF cd.queue_size + Len(data) > MaxQueueLength
    THEN cd.queue_size + Len(data) - MaxQueueLength - 1
    ELSE 0

(* The samples an upload pushes out of a full queue: the oldest ones.      *)
UploadShift(cd, data) ==
    IF cd.queue_size + Len(data) > MaxQueueLength
    THEN cd.queue_size + Len(data) - MaxQueueLength
    ELSE 0

AfterUpload(cd, data) ==
    LET q == PopFront(cd.queue, UploadShift(cd, data)) \o data
    IN  [cd EXCEPT !.queue = q,
                   !.queue_size = Len(q),
                   !.max_bytes = Larger(@, Len(q) * 2),
                   !.expected_client_datagram_nr = @ + 1]

(* Deviations: the minimum is forgotten; bytes are taken for samples.      *)
AfterMixeryNoMin(cd, bytes) ==
    LET q == PopFront(cd.queue, bytes \div 2)
    IN  [cd EXCEPT !.queue = q, !.queue_size = Len(q)]

AfterMixeryInBytes(cd, bytes) ==
    LET q == PopFront(cd.queue, bytes)
    IN  [cd EXCEPT !.queue = q,
                   !.queue_size = Len(q),
                   !.min_bytes = Smaller(@, Len(q) * 2)]

AfterMixery(cd, bytes) ==
    LET q == PopFront(cd.queue, bytes \div 2)
    IN  [cd EXCEPT !.queue = q,
                   !.queue_size = Len(q),
                   !.min_bytes = Smaller(@, Len(q) * 2)]

(* get_statistics reports the sizes and resets them.                       *)
ResetStatistics(cd) ==
    [cd EXCEPT !.min_bytes = cd.queue_size * 2,
               !.max_bytes = cd.queue_size * 2]

(* Deviation: the size is tested before the datagram is added.             *)
AddDgramLate(cd, dgram) ==
    [cd EXCEPT !.last_dgrams =
        Append(IF Len(@) > BufLen THEN Tail(@) ELSE @, dgram)]

(* add_to_dgrams_list: the list keeps the newest BufLen datagrams.         *)
AddDgram(cd, dgram) ==
    LET dgrams == Append(cd.last_dgrams, dgram)
    IN  [cd EXCEPT !.last_dgrams =
            IF Len(dgrams) > BufLen THEN Tail(dgrams) ELSE dgrams]

(* The loop of get_last_dgrams: ret_list[i] is ret_list after i of the     *)
(* datagrams.  A kept datagram is a record with its number in nr.          *)
DgramsFrom(dgrams, least) ==
    LET ret_list[i \in 0 .. Len(dgrams)] ==
            IF i = 0 THEN << >>
            ELSE IF dgrams[i].nr >= least THEN Append(ret_list[i - 1], dgrams[i])
            ELSE ret_list[i - 1]
    IN  ret_list[Len(dgrams)]

(* Deviation: a place in the list is taken for a number.                   *)
GetLastDgramsByPlace(cd, inf_nr) ==
    SubSeq(cd.last_dgrams, Larger(inf_nr, 1), Len(cd.last_dgrams))

GetLastDgrams(cd, inf_nr) == DgramsFrom(cd.last_dgrams, inf_nr)
=============================================================================
