-------------------------------- MODULE Mixer --------------------------------
(***************************************************************************)
(* mixer::mix (mixer/mixer.cc): sums the ACTIVE queues sample by sample    *)
(* into the output buffer and counts what it took of each.  One step is    *)
(* one iteration of the outer loop; inputs[i].len is what the caller says, *)
(* data[i] what is really there.                                           *)
(***************************************************************************)
EXTENDS Integers, Sequences, FiniteSets, FiniteSetsExt

CONSTANTS
    Inputs,         \* the indices 0 .. n - 1 of the inputs
    Queues,         \* the queues an input can be: sequences of samples
    ShrtMax,        \* SHRT_MAX
    Multiplier,     \* MULTIPLIER: bytes per millisecond
    TxInterval,     \* tx_interval_ms: option -i
    High,           \* fifo_high_watermark_: option -H, in bytes
    FifoSize        \* fifo_size_, the bytes of write_buf_: option -F

ShrtMin == -ShrtMax - 1

(* The parser cuts -H to -F (server_parser.cc:57).                         *)
ASSUME MixerAssumption ==
    /\ IsFiniteSet(Inputs)
    /\ Queues \subseteq Seq(ShrtMin .. ShrtMax)
    /\ ShrtMax \in Nat
    /\ Multiplier \in Nat
    /\ TxInterval \in Nat
    /\ FifoSize \in Nat
    /\ High \in 0 .. FifoSize

(* In bytes; an odd number still takes the whole last sample.              *)
RequestedLength == Multiplier * TxInterval + (4 * TxInterval) \div 10

VARIABLES
    data,       \* the queue of each input
    len,        \* inputs[i].len
    consumed,   \* inputs[i].consumed
    set,        \* the inputs that still take part
    iteration,
    out,        \* the samples written to output_data_buf
    status      \* "running", "done", or how the loop left its inputs

vars == << data, len, consumed, set, iteration, out, status >>

(* Two callers.  The header promises that len is the number of available   *)
(* bytes (structures.hh:20-21); server::mixer passes twice that number     *)
(* (server.cc:512), of the queues that are ACTIVE.                         *)
HonestCaller == \A i \in Inputs : data[i] # << >> /\ len[i] = 2 * Len(data[i])

ServerCaller == \A i \in Inputs :
    /\ High > 0 /\ 2 * Len(data[i]) >= High - 1
    /\ len[i] = 2 * (2 * Len(data[i]))

InitLoop ==
    /\ data \in [Inputs -> Queues]
    /\ len \in [Inputs -> {f * Len(q) : f \in {2, 4}, q \in Queues}]
    /\ consumed = [i \in Inputs |-> 0]
    /\ set = Inputs
    /\ iteration = 0
    /\ out = << >>
    /\ status = "running"

(* Deviation: the sum is written as it is.                                 *)
NoClamp(sum) == sum

(* The sum saturates at the bounds of a sample.                            *)
Clamp(sum) == IF sum < 0 THEN (IF sum < ShrtMin THEN ShrtMin ELSE sum)
                         ELSE (IF sum > ShrtMax THEN ShrtMax ELSE sum)

(* The sum of the samples at a position of the queues of some inputs.      *)
SumAt(queues, inputs, pos) ==
    LET SampleAt(i) == queues[i][pos] IN MapThenSumSet(SampleAt, inputs)

(* std::vector::at throws beyond the end and nothing catches it; with len  *)
(* at most 1 the pointer to the queue was never set.                       *)
ReadsOutside(i) == len[i] <= 1 \/ iteration >= Len(data[i])

(* Deviations: the end of a queue is seen one sample late, or early.       *)
IsLastLate(i)  == 2 * iteration > len[i] - 2
IsLastEarly(i) == 2 * iteration >= len[i] - 4

(* The last sample, or one byte left after it.                             *)
IsLast(i) == 2 * iteration >= len[i] - 2

(* Deviation: an input that ended is still counted.                        *)
TakeCountsAll ==
    /\ out' = Append(out, Clamp(SumAt(data, set, iteration + 1)))
    /\ consumed' = [i \in Inputs |-> consumed[i] + 2]
    /\ set' = {i \in set : ~ IsLast(i)}
    /\ iteration' = iteration + 1
    /\ status' = status

Take ==
    /\ out' = Append(out, Clamp(SumAt(data, set, iteration + 1)))
    /\ consumed' = [i \in Inputs |->
                       IF i \in set THEN consumed[i] + 2 ELSE consumed[i]]
    /\ set' = {i \in set : ~ IsLast(i)}
    /\ iteration' = iteration + 1
    /\ status' = status

Crash ==
    /\ status' = "crashed"
    /\ UNCHANGED << consumed, set, iteration, out >>

(* Deviation: the loop runs once more when the interval is even.           *)
IterateLong ==
    /\ status = "running"
    /\ 2 * iteration <= RequestedLength + 1
    /\ IF \E i \in set : ReadsOutside(i) THEN Crash ELSE Take
    /\ UNCHANGED << data, len >>

Iterate ==
    /\ status = "running"
    /\ 2 * iteration < RequestedLength
    /\ IF \E i \in set : ReadsOutside(i) THEN Crash ELSE Take
    /\ UNCHANGED << data, len >>

Finish ==
    /\ status = "running"
    /\ ~ (2 * iteration < RequestedLength)
    /\ status' = "done"
    /\ UNCHANGED << data, len, consumed, set, iteration, out >>

Next == Iterate \/ Finish

Init       == InitLoop /\ (HonestCaller \/ ServerCaller)
ServerInit == InitLoop /\ ServerCaller

ServerSpec == ServerInit /\ [][Next]_vars
Spec       == Init /\ [][Next]_vars

-----------------------------------------------------------------------------
(* Two queues may differ in length only with an honest caller; with the    *)
(* server as caller they must all cover the whole interval.                *)
IntervalCovered == RequestedLength <= High - 1

TypeOK ==
    /\ data \in [Inputs -> Queues]
    /\ len \in [Inputs -> Nat]
    /\ consumed \in [Inputs -> Nat]
    /\ set \in SUBSET Inputs
    /\ iteration \in Nat
    /\ out \in Seq(ShrtMin .. ShrtMax)
    /\ status \in {"running", "done", "crashed"}

(* The mixer never reads beyond the end of a queue: an input leaves the    *)
(* loop with its last sample (mixer.cc:43-49).                             *)
ReadsInside == status # "crashed"

(* At every iteration, and so at the end, consumed is what was taken: all  *)
(* of a queue that ended, else two bytes per iteration, whatever the other *)
(* inputs did.                                                             *)
ConsumedExact ==
    \A i \in Inputs :
        consumed[i] = IF iteration <= Len(data[i]) THEN 2 * iteration
                                                   ELSE 2 * Len(data[i])

(* Every sample written is the sum of the samples at its position in the   *)
(* queues that reach so far, clamped to 16 bits, and at the end the output *)
(* covers the interval.                                                    *)
OutputIsClampedSum ==
    /\ Len(out) = iteration
    /\ \A k \in 1 .. Len(out) :
           out[k] = Clamp(SumAt(data, {i \in Inputs : k <= Len(data[i])}, k))
    /\ status = "done" => Len(out) = (RequestedLength + 1) \div 2

(* The mixer does not look at the size of the buffer it is given, nor at   *)
(* the number of queues: that it stays inside write_buf_ depends on -H     *)
(* being above the interval and not above -F.                              *)
WritesInside == 2 * Len(out) <= FifoSize
=============================================================================
