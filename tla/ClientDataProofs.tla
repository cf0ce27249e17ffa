--------------------------- MODULE ClientDataProofs ---------------------------
(***************************************************************************)
(* Proofs about ClientData, for every value of -F, -H, -L, -X, every size  *)
(* of a mixer interval and any number of uploads, ticks and reports.       *)
(***************************************************************************)
EXTENDS ClientData, ClientDataOpsProofs

(* Inv adds to the invariants the runs check what makes them inductive:    *)
(* the present size is one of the sizes the statistics are about.          *)
SizeOK == /\ cd.queue_size = Len(cd.queue)
          /\ cd.queue_size <= MaxQueueLength

Inv == /\ TypeOK
       /\ SizeOK
       /\ QueueIsNewest
       /\ StatisticsExact
       /\ cd.queue_size \in seen
       /\ nr >= FirstDgramNr
       /\ DgramsAreLast

QueueAfterUpload(n) ==
    PopFront(cd.queue, UploadShift(cd, NewSamples(n))) \o NewSamples(n)

KeptDgrams(d, m) ==
    LET a == Append(d, [nr |-> m])
    IN  IF Len(a) > BufLen THEN Tail(a) ELSE a

QueueAfterMix == PopFront(cd.queue, (2 * MixSamples) \div 2)

-----------------------------------------------------------------------------
(* Reading and updating the fields of an object keeps their types.         *)
LEMMA FieldTypes ==
    ASSUME NEW c \in CDType
    PROVE  /\ c.queue \in Seq(Nat) /\ c.queue_size \in Nat
           /\ c.min_bytes \in Nat /\ c.max_bytes \in Nat
           /\ c.expected_client_datagram_nr \in Nat
           /\ c.last_dgrams \in Seq([nr : Nat])
BY DEF CDType

LEMMA UploadTypes ==
    ASSUME NEW c \in CDType, NEW q \in Seq(Nat), NEW k \in Nat,
           NEW hi \in Nat, NEW e \in Nat
    PROVE  [c EXCEPT !.queue = q, !.queue_size = k, !.max_bytes = hi,
                     !.expected_client_datagram_nr = e] \in CDType
BY DEF CDType

LEMMA MixTypes ==
    ASSUME NEW c \in CDType, NEW q \in Seq(Nat), NEW k \in Nat, NEW lo \in Nat
    PROVE  [c EXCEPT !.queue = q, !.queue_size = k, !.min_bytes = lo] \in CDType
BY DEF CDType

LEMMA StatisticsTypes ==
    ASSUME NEW c \in CDType, NEW lo \in Nat, NEW hi \in Nat
    PROVE  [c EXCEPT !.min_bytes = lo, !.max_bytes = hi] \in CDType
BY DEF CDType

LEMMA DgramTypes ==
    ASSUME NEW c \in CDType, NEW dgrams \in Seq([nr : Nat])
    PROVE  [c EXCEPT !.last_dgrams = dgrams] \in CDType
BY DEF CDType

(* The bounds of the code: an upload fits the queue, and a queue that is   *)
(* full counts as ACTIVE.                                                  *)
LEMMA Bounds ==
    /\ MaxQueueLength \in Nat
    /\ MaxUpload \in Nat
    /\ MaxUpload <= MaxQueueLength
    /\ High <= 2 * MaxQueueLength + 1
BY WatermarkAssumption, CallerAssumption DEF MaxQueueLength, MaxUpload

(* pop_front_sequence drops exactly the first shift elements.              *)
LEMMA PopFrontProperties ==
    ASSUME NEW S, NEW q \in Seq(S), NEW shift \in 0 .. Len(q)
    PROVE  /\ PopFront(q, shift) \in Seq(S)
           /\ Len(PopFront(q, shift)) = Len(q) - shift
           /\ \A i \in 1 .. Len(q) - shift : PopFront(q, shift)[i] = q[i + shift]
<1>1. Len(q) \in Nat /\ shift \in Nat /\ shift + 1 \in Int
  OBVIOUS
<1>2. \A i \in shift + 1 .. Len(q) : q[i] \in S
  BY <1>1, ElementOfSeq
<1>3. /\ SubSeq(q, shift + 1, Len(q)) \in Seq(S)
      /\ Len(SubSeq(q, shift + 1, Len(q))) =
             IF shift + 1 <= Len(q) THEN Len(q) - (shift + 1) + 1 ELSE 0
      /\ \A i \in 1 .. Len(q) - (shift + 1) + 1 :
             SubSeq(q, shift + 1, Len(q))[i] = q[shift + 1 + i - 1]
  BY <1>1, <1>2, SubSeqProperties
<1> QED
  BY <1>1, <1>3 DEF PopFront

LEMMA NewSamplesProperties ==
    ASSUME accepted \in Nat, NEW n \in Nat
    PROVE  /\ NewSamples(n) \in Seq(Nat)
           /\ Len(NewSamples(n)) = n
           /\ \A i \in 1 .. n : NewSamples(n)[i] = accepted + i
<1>1. NewSamples(n) \in [1 .. n -> Nat]
  BY DEF NewSamples
<1> QED
  BY <1>1 DEF NewSamples

(* A sequence that numbers its elements upwards to a, seen from its end.   *)
Numbered(q, a) == \A i \in 1 .. Len(q) : q[i] = a - Len(q) + i

(* Dropping elements at the front keeps the numbering.                     *)
LEMMA NumberedPopFront ==
    ASSUME NEW q \in Seq(Nat), NEW a \in Nat, NEW shift \in 0 .. Len(q),
           Numbered(q, a)
    PROVE  Numbered(PopFront(q, shift), a)
<1> DEFINE p == PopFront(q, shift)
<1>1. /\ p \in Seq(Nat)
      /\ Len(p) = Len(q) - shift
      /\ \A i \in 1 .. Len(q) - shift : p[i] = q[i + shift]
  BY PopFrontProperties
<1> HIDE DEF p
<1>2. Len(q) \in Nat /\ Len(p) \in Nat /\ shift \in Nat /\ shift <= Len(q)
  BY <1>1
<1>3. ASSUME NEW i \in 1 .. Len(p)
      PROVE  p[i] = a - Len(p) + i
  <2>1. i + shift \in 1 .. Len(q) /\ i \in 1 .. Len(q) - shift
    BY <1>1, <1>2
  <2>2. p[i] = q[i + shift] /\ q[i + shift] = a - Len(q) + (i + shift)
    BY <1>1, <2>1 DEF Numbered
  <2> QED
    BY <1>1, <1>2, <2>2
<1> QED
  BY <1>3 DEF Numbered, p

(* Appending the next samples of the stream keeps it too.                  *)
LEMMA NumberedConcat ==
    ASSUME NEW p \in Seq(Nat), NEW d \in Seq(Nat), NEW a \in Nat,
           Numbered(p, a), \A i \in 1 .. Len(d) : d[i] = a + i
    PROVE  Numbered(p \o d, a + Len(d))
<1> DEFINE q == p \o d
<1>1. /\ q \in Seq(Nat)
      /\ Len(q) = Len(p) + Len(d)
      /\ \A i \in 1 .. Len(p) + Len(d) :
             q[i] = IF i <= Len(p) THEN p[i] ELSE d[i - Len(p)]
  BY ConcatProperties
<1> HIDE DEF q
<1>2. Len(p) \in Nat /\ Len(d) \in Nat
  OBVIOUS
<1>3. ASSUME NEW i \in 1 .. Len(q)
      PROVE  q[i] = a + Len(d) - Len(q) + i
  <2>1. CASE i <= Len(p)
    <3>1. q[i] = p[i] /\ i \in 1 .. Len(p)
      BY <1>1, <1>2, <2>1
    <3>2. p[i] = a - Len(p) + i
      BY <3>1 DEF Numbered
    <3> QED
      BY <1>1, <1>2, <3>1, <3>2
  <2>2. CASE ~ (i <= Len(p))
    <3>1. q[i] = d[i - Len(p)] /\ i - Len(p) \in 1 .. Len(d)
      BY <1>1, <1>2, <2>2
    <3>2. d[i - Len(p)] = a + (i - Len(p))
      BY <3>1
    <3> QED
      BY <1>1, <1>2, <3>1, <3>2
  <2> QED
    BY <2>1, <2>2
<1> QED
  BY <1>3 DEF Numbered, q

(* What an accepted UPLOAD leaves in the queue: the newest samples, as     *)
(* many as fit.                                                            *)
LEMMA UploadQueue ==
    ASSUME Inv, NEW n \in 0 .. MaxUpload
    PROVE  LET q == QueueAfterUpload(n) IN
           /\ UploadShift(cd, NewSamples(n)) \in 0 .. Len(cd.queue)
           /\ q \in Seq(Nat)
           /\ cd.queue_size + n > MaxQueueLength => Len(q) = MaxQueueLength
           /\ cd.queue_size + n <= MaxQueueLength => Len(q) = cd.queue_size + n
           /\ Numbered(q, accepted + n)
<1> DEFINE d == NewSamples(n)
           s == UploadShift(cd, d)
           p == PopFront(cd.queue, s)
           q == QueueAfterUpload(n)
<1>1. /\ n \in Nat /\ n <= MaxQueueLength /\ MaxQueueLength \in Nat
      /\ accepted \in Nat
      /\ cd.queue \in Seq(Nat) /\ Len(cd.queue) \in Nat
      /\ cd.queue_size = Len(cd.queue) /\ cd.queue_size <= MaxQueueLength
  BY Bounds, FieldTypes DEF Inv, TypeOK, SizeOK
<1>0. Numbered(cd.queue, accepted)
  BY DEF Inv, QueueIsNewest, Numbered
<1>2. /\ d \in Seq(Nat)
      /\ Len(d) = n
      /\ \A i \in 1 .. n : d[i] = accepted + i
  BY <1>1, NewSamplesProperties
<1> HIDE DEF d
<1>3. /\ s \in Nat
      /\ Len(cd.queue) + n > MaxQueueLength
             => s = Len(cd.queue) + n - MaxQueueLength
      /\ Len(cd.queue) + n <= MaxQueueLength => s = 0
  BY <1>1, <1>2 DEF UploadShift
<1>4. q = p \o d
  BY DEF QueueAfterUpload, d
<1> HIDE DEF s, q
<1>5. s \in 0 .. Len(cd.queue)
  BY <1>1, <1>3
<1>6. /\ p \in Seq(Nat)
      /\ Len(p) = Len(cd.queue) - s
      /\ Numbered(p, accepted)
  BY <1>1, <1>0, <1>5, PopFrontProperties, NumberedPopFront
<1> HIDE DEF p
<1>7. q \in Seq(Nat) /\ Len(q) = Len(p) + n
  BY <1>2, <1>4, <1>6, ConcatProperties
<1>8. Numbered(q, accepted + n)
  BY <1>1, <1>2, <1>4, <1>6, NumberedConcat
<1>9. /\ cd.queue_size + n > MaxQueueLength => Len(q) = MaxQueueLength
      /\ cd.queue_size + n <= MaxQueueLength => Len(q) = cd.queue_size + n
  BY <1>1, <1>3, <1>6, <1>7
<1> QED
  BY <1>5, <1>7, <1>8, <1>9 DEF q, s, d

(* What a mixer tick leaves of a queue that was ACTIVE.                    *)
LEMMA MixQueue ==
    ASSUME Inv, RateQueueState(cd) = "ACTIVE"
    PROVE  LET q == QueueAfterMix IN
           /\ MixSamples <= cd.queue_size
           /\ q \in Seq(Nat)
           /\ Len(q) = cd.queue_size - MixSamples
           /\ Numbered(q, accepted)
<1> DEFINE q == QueueAfterMix
<1>1. /\ MixSamples \in Nat /\ (2 * MixSamples) \div 2 = MixSamples
      /\ accepted \in Nat
      /\ cd.queue \in Seq(Nat) /\ Len(cd.queue) \in Nat
      /\ cd.queue_size = Len(cd.queue)
  BY CallerAssumption, FieldTypes DEF Inv, TypeOK, SizeOK
<1>0. Numbered(cd.queue, accepted)
  BY DEF Inv, QueueIsNewest, Numbered
<1>2. cd.queue_size * 2 >= High - 1
  BY DEF RateQueueState, ReachesHigh
<1>3. MixSamples \in 0 .. Len(cd.queue)
  BY <1>1, <1>2, WatermarkAssumption, CallerAssumption
<1>4. q = PopFront(cd.queue, MixSamples)
  BY <1>1 DEF QueueAfterMix
<1> HIDE DEF q
<1>5. q \in Seq(Nat) /\ Len(q) = Len(cd.queue) - MixSamples
  BY <1>1, <1>3, <1>4, PopFrontProperties
<1>6. Numbered(q, accepted)
  BY <1>1, <1>0, <1>3, <1>4, NumberedPopFront
<1> QED
  BY <1>1, <1>3, <1>5, <1>6 DEF q

-----------------------------------------------------------------------------
(* The constructor establishes the invariant.                              *)
LEMMA InitInv == Init => Inv
<1> SUFFICES ASSUME Init PROVE Inv
  OBVIOUS
<1>1. /\ cd.queue = << >> /\ cd.queue_size = 0
      /\ cd.min_bytes = 0 /\ cd.max_bytes = 0 /\ cd.last_dgrams = << >>
      /\ nr = FirstDgramNr /\ accepted = 0 /\ seen = {0}
  BY DEF Init, NewClientData
<1>2. TypeOK
  BY CallerAssumption DEF Init, NewClientData, TypeOK, CDType
<1>3. SizeOK
  BY <1>1, Bounds DEF SizeOK
<1>4. QueueIsNewest
  BY <1>1 DEF QueueIsNewest
<1>5. StatisticsExact
  BY <1>1 DEF StatisticsExact
<1>6. DgramsAreLast
  BY <1>1, WatermarkAssumption, CallerAssumption DEF DgramsAreLast, Smaller
<1> QED
  BY <1>1, <1>2, <1>3, <1>4, <1>5, <1>6, CallerAssumption DEF Inv

(* An accepted UPLOAD: the queue slides, the size grows or stays, so only  *)
(* the maximum can change.                                                 *)
LEMMA UploadInv == ASSUME Inv, NEW n \in 0 .. MaxUpload, Upload(n) PROVE Inv'
<1> DEFINE q == QueueAfterUpload(n)
<1>1. /\ q \in Seq(Nat)
      /\ cd.queue_size + n > MaxQueueLength => Len(q) = MaxQueueLength
      /\ cd.queue_size + n <= MaxQueueLength => Len(q) = cd.queue_size + n
      /\ Numbered(q, accepted + n)
  BY UploadQueue
<1>2. /\ n \in Nat /\ MaxQueueLength \in Nat /\ Len(q) \in Nat
      /\ cd.queue_size \in Nat /\ cd.queue_size <= MaxQueueLength
      /\ cd.queue_size \in seen
      /\ cd.min_bytes \in Nat /\ cd.max_bytes \in Nat
      /\ accepted \in Nat /\ nr \in Nat /\ seen \in SUBSET Nat
  BY <1>1, Bounds, FieldTypes DEF Inv, TypeOK, SizeOK
<1>3. cd' = [cd EXCEPT !.queue = q, !.queue_size = Len(q),
                       !.max_bytes = Larger(cd.max_bytes, Len(q) * 2),
                       !.expected_client_datagram_nr =
                           cd.expected_client_datagram_nr + 1]
  BY DEF Upload, AfterUpload, QueueAfterUpload
<1> HIDE DEF q
<1>4. /\ cd'.queue = q /\ cd'.queue_size = Len(q)
      /\ cd'.max_bytes = Larger(cd.max_bytes, Len(q) * 2)
      /\ cd'.min_bytes = cd.min_bytes
      /\ cd'.last_dgrams = cd.last_dgrams
      /\ accepted' = accepted + n /\ nr' = nr
      /\ seen' = seen \cup {Len(q)}
  BY <1>3 DEF Upload, Inv, TypeOK
<1>5. Larger(cd.max_bytes, Len(q) * 2) \in Nat
  BY <1>2 DEF Larger
<1>6. TypeOK'
  <2>1. cd' \in CDType
    <3>1. cd \in CDType
      BY DEF Inv, TypeOK
    <3>2. cd.expected_client_datagram_nr + 1 \in Nat
      BY <3>1, FieldTypes
    <3>3. [cd EXCEPT !.queue = q, !.queue_size = Len(q),
                     !.max_bytes = Larger(cd.max_bytes, Len(q) * 2),
                     !.expected_client_datagram_nr =
                         cd.expected_client_datagram_nr + 1] \in CDType
      BY <1>1, <1>2, <1>5, <3>1, <3>2, UploadTypes
    <3> QED
      BY <1>3, <3>3, Zenon
  <2>2. nr' \in Nat /\ accepted' \in Nat
    BY <1>2, <1>4
  <2>3. seen' \in SUBSET Nat
    BY <1>2, <1>4
  <2> QED
    BY <2>1, <2>2, <2>3, Zenon DEF TypeOK
<1>7. SizeOK'
  BY <1>1, <1>2, <1>4 DEF SizeOK
<1>8. QueueIsNewest'
  BY <1>1, <1>4 DEF QueueIsNewest, Numbered
<1>9. StatisticsExact'
  <2>1. cd.queue_size <= Len(q)
    BY <1>1, <1>2
  <2>2. \E s \in seen' : cd'.min_bytes = 2 * s
    BY <1>4 DEF Inv, StatisticsExact
  <2>3. \E s \in seen' : cd'.max_bytes = 2 * s
    <3>1. CASE cd.max_bytes >= Len(q) * 2
      BY <1>4, <3>1 DEF Inv, StatisticsExact, Larger
    <3>2. CASE ~ (cd.max_bytes >= Len(q) * 2)
      BY <1>2, <1>4, <3>2 DEF Larger
    <3> QED
      BY <3>1, <3>2
  <2>4. ASSUME NEW s \in seen'
        PROVE  cd'.min_bytes <= 2 * s /\ 2 * s <= cd'.max_bytes
    <3>1. CASE s \in seen
      <4>1. s \in Nat /\ cd.min_bytes <= 2 * s /\ 2 * s <= cd.max_bytes
        BY <1>2, <3>1 DEF Inv, StatisticsExact
      <4> QED
        BY <1>2, <1>4, <4>1 DEF Larger
    <3>2. CASE s = Len(q)
      <4>1. cd.min_bytes <= 2 * cd.queue_size
        BY <1>2 DEF Inv, StatisticsExact
      <4> QED
        BY <1>2, <1>4, <2>1, <3>2, <4>1 DEF Larger
    <3> QED
      BY <1>4, <3>1, <3>2
  <2> QED
    BY <2>2, <2>3, <2>4 DEF StatisticsExact
<1> QED
  BY <1>4, <1>6, <1>7, <1>8, <1>9 DEF Inv, DgramsAreLast

(* The object between the mixer's consumption and the next datagram: the   *)
(* queue can only shrink, so only the minimum changes, and in either case  *)
(* the FIFO is left with room for at least one sample.                     *)
LEMMA MixedProperties ==
    ASSUME Inv
    PROVE  /\ Mixed \in CDType
           /\ Mixed.queue_size = Len(Mixed.queue)
           /\ Mixed.queue_size <= cd.queue_size
           /\ Mixed.queue_size < MaxQueueLength
           /\ Numbered(Mixed.queue, accepted)
           /\ Mixed.max_bytes = cd.max_bytes
           /\ Mixed.last_dgrams = cd.last_dgrams
           /\ Mixed.min_bytes <= cd.min_bytes
           /\ Mixed.min_bytes <= 2 * Mixed.queue_size
           /\ \/ Mixed.min_bytes = cd.min_bytes
              \/ Mixed.min_bytes = 2 * Mixed.queue_size
<1>1. /\ cd \in CDType /\ MaxQueueLength \in Nat
      /\ cd.queue_size = Len(cd.queue) /\ cd.queue_size <= MaxQueueLength
      /\ cd.queue_size \in seen /\ accepted \in Nat
  BY Bounds DEF Inv, TypeOK, SizeOK
<1>2. /\ cd.queue \in Seq(Nat) /\ cd.queue_size \in Nat
      /\ cd.min_bytes \in Nat /\ cd.max_bytes \in Nat
  BY <1>1, FieldTypes
<1>3. cd.min_bytes <= 2 * cd.queue_size
  BY <1>1 DEF Inv, StatisticsExact
<1>4. Numbered(cd.queue, accepted)
  BY DEF Inv, QueueIsNewest, Numbered
<1>5. CASE RateQueueState(cd) = "ACTIVE"
  <2> DEFINE q == QueueAfterMix
             lo == Smaller(cd.min_bytes, Len(q) * 2)
  <2>1. /\ MixSamples <= cd.queue_size
        /\ q \in Seq(Nat)
        /\ Len(q) = cd.queue_size - MixSamples
        /\ Numbered(q, accepted)
    BY <1>5, MixQueue
  <2>2. Mixed = [cd EXCEPT !.queue = q, !.queue_size = Len(q),
                           !.min_bytes = lo]
    BY <1>5 DEF Mixed, AfterMixery, QueueAfterMix
  <2> HIDE DEF q
  <2>3. /\ Len(q) \in Nat /\ MixSamples \in Nat /\ MixSamples > 0
    BY <2>1, CallerAssumption
  <2>4. /\ lo \in Nat /\ lo <= cd.min_bytes /\ lo <= 2 * Len(q)
        /\ lo = cd.min_bytes \/ lo = 2 * Len(q)
    BY <1>2, <2>3 DEF Smaller
  <2> HIDE DEF lo
  <2>5. Mixed \in CDType
    <3>1. [cd EXCEPT !.queue = q, !.queue_size = Len(q), !.min_bytes = lo]
              \in CDType
      BY <1>1, <2>1, <2>3, <2>4, MixTypes
    <3> QED
      BY <2>2, <3>1, Zenon
  <2>6. /\ Mixed.queue = q /\ Mixed.queue_size = Len(q)
        /\ Mixed.min_bytes = lo /\ Mixed.max_bytes = cd.max_bytes
        /\ Mixed.last_dgrams = cd.last_dgrams
    BY <1>1, <2>2 DEF CDType
  <2>7. Len(q) <= cd.queue_size /\ Len(q) < MaxQueueLength
    BY <1>1, <1>2, <2>1, <2>3
  <2> QED
    BY <2>1, <2>4, <2>5, <2>6, <2>7
<1>6. CASE RateQueueState(cd) # "ACTIVE"
  <2>1. Mixed = cd
    BY <1>6 DEF Mixed
  <2>2. ~ (cd.queue_size * 2 >= High - 1)
    BY <1>6, WatermarkAssumption, CallerAssumption DEF RateQueueState, ReachesHigh
  <2>3. cd.queue_size < MaxQueueLength
    BY <1>1, <1>2, <2>2, Bounds, WatermarkAssumption
  <2> QED
    BY <1>1, <1>2, <1>3, <1>4, <2>1, <2>3
<1> QED
  BY <1>5, <1>6

(* push_back, then pop_front when the list is too long: the list stays the *)
(* last datagrams, with consecutive numbers.                               *)
LEMMA AddedDgrams ==
    ASSUME NEW d \in Seq([nr : Nat]), NEW m \in Nat, m >= FirstDgramNr,
           Len(d) = Smaller(BufLen, m - FirstDgramNr),
           \A i \in 1 .. Len(d) : d[i].nr = m - Len(d) + i - 1
    PROVE  /\ KeptDgrams(d, m) \in Seq([nr : Nat])
           /\ Len(KeptDgrams(d, m)) = Smaller(BufLen, m + 1 - FirstDgramNr)
           /\ \A i \in 1 .. Len(KeptDgrams(d, m)) :
                  KeptDgrams(d, m)[i].nr = m + 1 - Len(KeptDgrams(d, m)) + i - 1
<1> DEFINE a == Append(d, [nr |-> m])
           r == KeptDgrams(d, m)
<1>0. r = IF Len(a) > BufLen THEN Tail(a) ELSE a
  BY DEF KeptDgrams
<1> HIDE DEF r
<1>1. /\ a \in Seq([nr : Nat]) /\ a # << >> /\ Len(a) = Len(d) + 1
      /\ \A i \in 1 .. Len(d) : a[i] = d[i]
      /\ a[Len(d) + 1] = [nr |-> m]
  <2>1. [nr |-> m] \in [nr : Nat]
    OBVIOUS
  <2> QED
    BY <2>1, AppendProperties
<1> HIDE DEF a
<1>2. BufLen \in Nat /\ FirstDgramNr \in Nat /\ Len(d) \in Nat
  BY WatermarkAssumption, CallerAssumption
<1>3. \A i \in 1 .. Len(a) : a[i].nr = m - Len(d) + i - 1
  <2> TAKE i \in 1 .. Len(a)
  <2>1. CASE i \in 1 .. Len(d)
    BY <1>1, <2>1
  <2>2. CASE i = Len(d) + 1
    BY <1>1, <1>2, <2>2
  <2> QED
    BY <1>1, <1>2, <2>1, <2>2
<1>4. CASE Len(a) > BufLen
  <2>1. /\ r \in Seq([nr : Nat]) /\ Len(r) = Len(a) - 1
        /\ \A i \in 1 .. Len(r) : r[i] = a[i + 1]
    BY <1>0, <1>1, <1>4, HeadTailProperties
  <2>2. Len(d) = BufLen /\ Len(r) = BufLen /\ m - FirstDgramNr >= BufLen
    BY <1>1, <1>2, <1>4, <2>1 DEF Smaller
  <2>3. Len(r) = Smaller(BufLen, m + 1 - FirstDgramNr)
    BY <1>2, <2>2 DEF Smaller
  <2>4. ASSUME NEW i \in 1 .. Len(r)
        PROVE  r[i].nr = m + 1 - Len(r) + i - 1
    <3>1. i \in Nat /\ i + 1 \in 1 .. Len(a)
      BY <1>1, <1>2, <2>1, <2>2
    <3>0. r[i] = a[i + 1]
      BY <2>1
    <3>2. a[i + 1].nr = m - Len(d) + (i + 1) - 1
      BY <1>3, <3>1
    <3> QED
      BY <1>2, <2>2, <3>1, <3>0, <3>2
  <2> QED
    BY <2>1, <2>3, <2>4 DEF r
<1>5. CASE ~ (Len(a) > BufLen)
  <2>1. r = a
    BY <1>0, <1>5
  <2>2. Len(d) = m - FirstDgramNr /\ Len(d) + 1 <= BufLen
    BY <1>1, <1>2, <1>5 DEF Smaller
  <2>3. Len(r) = Smaller(BufLen, m + 1 - FirstDgramNr)
    BY <1>1, <1>2, <2>1, <2>2 DEF Smaller
  <2>4. \A i \in 1 .. Len(r) : r[i].nr = m + 1 - Len(r) + i - 1
    BY <1>1, <1>2, <1>3, <2>1
  <2> QED
    BY <1>1, <2>1, <2>3, <2>4 DEF r
<1> QED
  BY <1>4, <1>5 DEF a

(* A tick of the mixer.                                                    *)
LEMMA MixInv == ASSUME Inv, Mix PROVE Inv'
<1> DEFINE d == KeptDgrams(cd.last_dgrams, nr)
<1>1. /\ Mixed \in CDType
      /\ Mixed.queue_size = Len(Mixed.queue)
      /\ Mixed.queue_size <= cd.queue_size
      /\ Mixed.queue_size < MaxQueueLength
      /\ Numbered(Mixed.queue, accepted)
      /\ Mixed.max_bytes = cd.max_bytes
      /\ Mixed.last_dgrams = cd.last_dgrams
      /\ Mixed.min_bytes <= cd.min_bytes
      /\ Mixed.min_bytes <= 2 * Mixed.queue_size
      /\ \/ Mixed.min_bytes = cd.min_bytes
         \/ Mixed.min_bytes = 2 * Mixed.queue_size
  BY MixedProperties
<1>2. /\ cd \in CDType /\ accepted \in Nat /\ nr \in Nat /\ seen \in SUBSET Nat
      /\ cd.queue_size \in seen /\ MaxQueueLength \in Nat
      /\ nr >= FirstDgramNr /\ FirstDgramNr \in Nat
  BY Bounds, CallerAssumption DEF Inv, TypeOK
<1>3. /\ d \in Seq([nr : Nat])
      /\ Len(d) = Smaller(BufLen, nr + 1 - FirstDgramNr)
      /\ \A i \in 1 .. Len(d) : d[i].nr = nr + 1 - Len(d) + i - 1
  <2>1. cd.last_dgrams \in Seq([nr : Nat])
    BY <1>2, FieldTypes
  <2>2. /\ Len(cd.last_dgrams) = Smaller(BufLen, nr - FirstDgramNr)
        /\ \A i \in 1 .. Len(cd.last_dgrams) :
               cd.last_dgrams[i].nr = nr - Len(cd.last_dgrams) + i - 1
    BY DEF Inv, DgramsAreLast
  <2> QED
    BY <1>2, <2>1, <2>2, AddedDgrams
<1>4. cd' = [Mixed EXCEPT !.last_dgrams = d]
  BY <1>1 DEF Mix, AddDgram, KeptDgrams
<1> HIDE DEF d
<1>5. /\ Mixed.queue_size \in Nat /\ Mixed.min_bytes \in Nat
      /\ cd.queue_size \in Nat /\ cd.min_bytes \in Nat /\ cd.max_bytes \in Nat
  BY <1>1, <1>2, FieldTypes
<1>6. /\ cd' \in CDType
      /\ cd'.queue = Mixed.queue /\ cd'.queue_size = Mixed.queue_size
      /\ cd'.min_bytes = Mixed.min_bytes /\ cd'.max_bytes = cd.max_bytes
      /\ cd'.last_dgrams = d
  <2>1. cd' \in CDType
    BY <1>1, <1>3, <1>4, DgramTypes
  <2> QED
    BY <1>1, <1>4, <2>1 DEF CDType
<1>7. /\ nr' = nr + 1 /\ accepted' = accepted
      /\ seen' = seen \cup {Mixed.queue_size}
  BY <1>6 DEF Mix
<1>8. TypeOK'
  <2>1. nr' \in Nat /\ accepted' \in Nat
    BY <1>2, <1>7
  <2>2. seen' \in SUBSET Nat
    BY <1>2, <1>5, <1>7
  <2> QED
    BY <1>6, <2>1, <2>2, Zenon DEF TypeOK
<1>9. SizeOK'
  BY <1>1, <1>2, <1>5, <1>6 DEF SizeOK
<1>10. QueueIsNewest'
  BY <1>1, <1>6, <1>7 DEF QueueIsNewest, Numbered
<1>11. StatisticsExact'
  <2>1. \E s \in seen' : cd'.min_bytes = 2 * s
    BY <1>1, <1>6, <1>7 DEF Inv, StatisticsExact
  <2>2. \E s \in seen' : cd'.max_bytes = 2 * s
    BY <1>6, <1>7 DEF Inv, StatisticsExact
  <2>3. ASSUME NEW s \in seen'
        PROVE  cd'.min_bytes <= 2 * s /\ 2 * s <= cd'.max_bytes
    <3>1. CASE s \in seen
      <4>1. s \in Nat /\ cd.min_bytes <= 2 * s /\ 2 * s <= cd.max_bytes
        BY <1>2, <3>1 DEF Inv, StatisticsExact
      <4> QED
        BY <1>1, <1>5, <1>6, <4>1
    <3>2. CASE s = Mixed.queue_size
      <4>1. 2 * cd.queue_size <= cd.max_bytes
        BY <1>2 DEF Inv, StatisticsExact
      <4> QED
        BY <1>1, <1>5, <1>6, <3>2, <4>1
    <3> QED
      BY <1>7, <3>1, <3>2
  <2> QED
    BY <2>1, <2>2, <2>3 DEF StatisticsExact
<1>12. DgramsAreLast'
  <2>1. cd'.last_dgrams = d /\ nr' = nr + 1
    BY <1>6, <1>7
  <2>2. /\ Len(cd'.last_dgrams) = Smaller(BufLen, nr' - FirstDgramNr)
        /\ \A i \in 1 .. Len(cd'.last_dgrams) :
               cd'.last_dgrams[i].nr = nr' - Len(cd'.last_dgrams) + i - 1
    BY <1>2, <1>3, <2>1
  <2> QED
    BY <2>2, Zenon DEF DgramsAreLast
<1>13. cd'.queue_size \in seen' /\ nr' >= FirstDgramNr
  BY <1>2, <1>6, <1>7
<1> QED
  BY <1>8, <1>9, <1>10, <1>11, <1>12, <1>13 DEF Inv

(* A report resets the statistics to the present size.                     *)
LEMMA ReportInv == ASSUME Inv, Report PROVE Inv'
<1> DEFINE two == cd.queue_size * 2
<1>1. /\ cd \in CDType /\ cd.queue_size \in Nat /\ two \in Nat
      /\ cd' = [cd EXCEPT !.min_bytes = two, !.max_bytes = two]
      /\ seen' = {cd.queue_size} /\ nr' = nr /\ accepted' = accepted
      /\ nr \in Nat /\ accepted \in Nat
  BY FieldTypes DEF Report, ResetStatistics, Inv, TypeOK
<1>2. /\ cd'.queue = cd.queue /\ cd'.queue_size = cd.queue_size
      /\ cd'.min_bytes = two /\ cd'.max_bytes = two
      /\ cd'.last_dgrams = cd.last_dgrams
  BY <1>1 DEF CDType
<1>3. TypeOK'
  <2>1. cd' \in CDType
    BY <1>1, StatisticsTypes
  <2> QED
    BY <1>1, <2>1 DEF TypeOK
<1>4. StatisticsExact'
  BY <1>1, <1>2 DEF StatisticsExact
<1>5. SizeOK' /\ QueueIsNewest' /\ DgramsAreLast'
  BY <1>1, <1>2 DEF Inv, SizeOK, QueueIsNewest, DgramsAreLast
<1> QED
  BY <1>1, <1>2, <1>3, <1>4, <1>5 DEF Inv

(* Inv holds in every reachable state.                                     *)
THEOREM Invariance == Spec => []Inv
<1>1. Init => Inv
  BY InitInv
<1>2. Inv /\ [Next]_vars => Inv'
  <2> SUFFICES ASSUME Inv, [Next]_vars PROVE Inv'
    OBVIOUS
  <2>1. ASSUME NEW n \in 0 .. MaxUpload, Upload(n) PROVE Inv'
    BY <2>1, UploadInv
  <2>2. CASE Mix
    BY <2>2, MixInv
  <2>3. CASE Report
    BY <2>3, ReportInv
  <2>4. CASE UNCHANGED vars
    BY <2>4 DEF vars, Inv, TypeOK, SizeOK, QueueIsNewest, StatisticsExact,
                DgramsAreLast
  <2> QED
    BY <2>1, <2>2, <2>3, <2>4 DEF Next
<1> QED
  BY <1>1, <1>2, PTL DEF Spec

-----------------------------------------------------------------------------
(* The types hold for every -F, -H, -L, -X and interval.                   *)
THEOREM TypeCorrect == Spec => []TypeOK
<1>1. Inv => TypeOK
  BY DEF Inv
<1> QED
  BY <1>1, Invariance, PTL

(* queue_size_ is the size of the queue, never above fifo_size_ / 2, and   *)
(* no upload the receive buffer can hold makes pop_front_sequence pop more *)
(* samples than there are.                                                 *)
THEOREM QueueNeverOverflows == Spec => []QueueBounded
<1>1. Inv => QueueBounded
  <2> SUFFICES ASSUME Inv PROVE QueueBounded
    OBVIOUS
  <2>1. ASSUME NEW n \in 0 .. MaxUpload
        PROVE  UploadShift(cd, NewSamples(n)) <= cd.queue_size
    <3>1. UploadShift(cd, NewSamples(n)) \in 0 .. Len(cd.queue)
      BY UploadQueue
    <3> QED
      BY <3>1 DEF Inv, SizeOK
  <2> QED
    BY <2>1 DEF Inv, SizeOK, QueueBounded
<1> QED
  BY <1>1, Invariance, PTL

(* The queue is the newest part of the client's stream, in order.          *)
THEOREM QueueKeepsOrder == Spec => []QueueIsNewest
<1>1. Inv => QueueIsNewest
  BY DEF Inv
<1> QED
  BY <1>1, Invariance, PTL

(* The reported minimum and maximum are the true ones.                     *)
THEOREM StatisticsCorrect == Spec => []StatisticsExact
<1>1. Inv => StatisticsExact
  BY DEF Inv
<1> QED
  BY <1>1, Invariance, PTL

(* The retransmission list is the tail of the datagrams sent.              *)
THEOREM RetransmitListCorrect == Spec => []DgramsAreLast
<1>1. Inv => DgramsAreLast
  BY DEF Inv
<1> QED
  BY <1>1, Invariance, PTL

(* What get_last_dgrams returns, exactly: all that is kept from the number *)
(* asked for on, that number included (client_data.cc:168).                *)
LEMMA AnswerExact ==
    ASSUME Inv, NEW inf_nr \in 0 .. nr
    PROVE  LET n == Smaller(nr - inf_nr, Len(cd.last_dgrams))
           IN  GetLastDgrams(cd, inf_nr) =
                   [i \in 1 .. n |-> [nr |-> nr - n + i - 1]]
<1>1. PICK s : s = cd.last_dgrams
  OBVIOUS
<1>2. s \in Seq([nr : Nat]) /\ nr \in Nat
  BY <1>1 DEF Inv, TypeOK, CDType
<1>3. \A i \in 1 .. Len(s) : s[i].nr = nr - Len(s) + i - 1
  BY <1>1 DEF Inv, DgramsAreLast
<1>4. DgramsFrom(s, inf_nr) =
          [i \in 1 .. Smaller(nr - inf_nr, Len(s)) |->
              [nr |-> nr - Smaller(nr - inf_nr, Len(s)) + i - 1]]
  BY <1>2, <1>3, DgramsFromLast
<1> QED
  BY <1>1, <1>4 DEF GetLastDgrams

(* Asked for the datagrams above any number, client_data returns those of  *)
(* them it still has, each once, in order and without a gap, and none      *)
(* below that number (client_data.cc:164-173).                             *)
THEOREM AnswerHasNoGap == Spec => []RetransmitGapless
<1>1. Inv => RetransmitGapless
  <2> SUFFICES ASSUME Inv, NEW inf_nr \in 0 .. nr
               PROVE  LET answer == GetLastDgrams(cd, inf_nr)
                          n      == Len(answer)
                      IN  /\ \A i \in 1 .. n : answer[i].nr = nr - n + i - 1
                          /\ nr - n >= inf_nr
                          /\ n >= Smaller(nr - inf_nr - 1, Len(cd.last_dgrams))
    BY DEF RetransmitGapless
  <2>1. PICK k : k = Len(cd.last_dgrams)
    OBVIOUS
  <2>2. PICK m : m = Smaller(nr - inf_nr, k)
    OBVIOUS
  <2>3. PICK answer : answer = GetLastDgrams(cd, inf_nr)
    OBVIOUS
  <2>4. answer = [i \in 1 .. m |-> [nr |-> nr - m + i - 1]]
    BY <2>1, <2>2, <2>3, AnswerExact
  <2>5. k \in Nat /\ nr \in Nat /\ inf_nr \in Nat /\ inf_nr <= nr
    BY <2>1 DEF Inv, TypeOK, CDType
  <2>6. /\ m \in Nat /\ nr - m >= inf_nr
        /\ m >= Smaller(nr - inf_nr - 1, k)
    BY <2>2, <2>5 DEF Smaller
  <2>7. /\ Len(answer) = m
        /\ \A i \in 1 .. m : answer[i].nr = nr - m + i - 1
    BY <2>4, <2>6
  <2> QED
    BY <2>1, <2>3, <2>6, <2>7
<1> QED
  BY <1>1, Invariance, PTL

(* Every DATA datagram advertises room for at least one sample.            *)
THEOREM WindowAlwaysOpens == Spec => DataOpensWindow
<1>1. Inv /\ [Next]_vars => [nr' # nr => GetAvailableSize(cd') > 0]_vars
  <2> SUFFICES ASSUME Inv, Next, nr' # nr PROVE GetAvailableSize(cd') > 0
    BY DEF vars
  <2>1. Mix
    BY DEF Next, Upload, Report
  <2>2. /\ Mixed \in CDType /\ Mixed.queue_size < MaxQueueLength
    BY MixedProperties
  <2>3. cd'.queue_size = Mixed.queue_size
    BY <2>1, <2>2 DEF Mix, AddDgram, CDType
  <2>4. Mixed.queue_size \in Nat /\ MaxQueueLength \in Nat
    BY <2>2, FieldTypes, Bounds
  <2> QED
    BY <2>2, <2>3, <2>4 DEF GetAvailableSize
<1> QED
  BY <1>1, Invariance, PTL DEF Spec, DataOpensWindow

-----------------------------------------------------------------------------
(* The window read off the contents of the queue is the one the sizes      *)
(* give: the newest Len(queue) samples of the stream.                      *)
LEMMA WindowOfQueue ==
    ASSUME Inv
    PROVE  /\ Head1 = accepted - cd.queue_size
           /\ Tail1 = accepted
<1>1. /\ cd.queue \in Seq(Nat) /\ Len(cd.queue) \in Nat /\ accepted \in Nat
      /\ cd.queue_size = Len(cd.queue)
  BY FieldTypes DEF Inv, TypeOK, SizeOK
<1>2. CASE cd.queue = << >>
  BY <1>1, <1>2 DEF Head1, Tail1
<1>3. CASE cd.queue # << >>
  <2>1. 1 \in 1 .. Len(cd.queue) /\ Len(cd.queue) \in 1 .. Len(cd.queue)
    BY <1>1, <1>3
  <2>2. /\ cd.queue[1] = accepted - Len(cd.queue) + 1
        /\ cd.queue[Len(cd.queue)] = accepted - Len(cd.queue) + Len(cd.queue)
    BY <2>1 DEF Inv, QueueIsNewest
  <2> QED
    BY <1>1, <1>3, <2>2 DEF Head1, Tail1
<1> QED
  BY <1>2, <1>3

(* The client's FIFO implements the sliding window: samples enter in order *)
(* at the tail and leave only at the head, a fixed number per interval or  *)
(* exactly as many as an upload needs.                                     *)
THEOREM Refinement == Spec => ImplementsWindow
<1> USE DEF ImplementsWindow, Window!WindowSpec
<1>1. Init => Window!WindowInit
  BY DEF Init, NewClientData, Head1, Tail1, Window!WindowInit
<1>2. Inv /\ Inv' /\ [Next]_vars => [Window!WindowNext]_Window!window
  <2> SUFFICES ASSUME Inv, Inv', [Next]_vars
               PROVE  Window!WindowNext \/ UNCHANGED Window!window
    OBVIOUS
  <2>1. /\ Head1 = accepted - cd.queue_size /\ Tail1 = accepted
        /\ Head1' = accepted' - cd'.queue_size /\ Tail1' = accepted'
    <3>1. Head1 = accepted - cd.queue_size /\ Tail1 = accepted
      BY WindowOfQueue
    <3>2. (Head1 = accepted - cd.queue_size /\ Tail1 = accepted)'
      BY WindowOfQueue, PTL
    <3> QED
      BY <3>1, <3>2
  <2>2. /\ accepted \in Nat /\ cd.queue_size \in Nat
        /\ cd.queue_size <= MaxQueueLength /\ MaxQueueLength \in Nat
        /\ cd \in CDType
    BY FieldTypes, Bounds DEF Inv, TypeOK, SizeOK
  <2>3. ASSUME NEW n \in 0 .. MaxUpload, Upload(n)
        PROVE  Window!Put(n) /\ n \in 0 .. MaxQueueLength
    <3> DEFINE q == QueueAfterUpload(n)
    <3>1. /\ cd.queue_size + n > MaxQueueLength => Len(q) = MaxQueueLength
          /\ cd.queue_size + n <= MaxQueueLength => Len(q) = cd.queue_size + n
          /\ Len(q) \in Nat
      BY UploadQueue
    <3>2. cd'.queue_size = Len(q) /\ accepted' = accepted + n
      BY <2>2, <2>3 DEF Upload, AfterUpload, QueueAfterUpload, CDType
    <3> HIDE DEF q
    <3>3. n \in Nat /\ n <= MaxQueueLength
      BY Bounds
    <3>4. Tail1' = Tail1 + n /\ Head1' = accepted + n - Len(q)
      BY <2>1, <2>2, <3>1, <3>2, <3>3
    <3>5. Tail1 + n - Head1 = cd.queue_size + n
      BY <2>1, <2>2, <3>3
    <3>6. CASE cd.queue_size + n > MaxQueueLength
      <4>1. Head1' = Tail1 + n - MaxQueueLength
        BY <2>1, <3>1, <3>4, <3>6
      <4> QED
        BY <3>3, <3>4, <3>5, <3>6, <4>1 DEF Window!Put
    <3>7. CASE ~ (cd.queue_size + n > MaxQueueLength)
      <4>1. Head1' = Head1
        BY <2>1, <2>2, <3>1, <3>3, <3>4, <3>7
      <4> QED
        BY <2>2, <3>3, <3>4, <3>5, <3>7, <4>1 DEF Window!Put
    <3> QED
      BY <3>6, <3>7
  <2>4. CASE Mix
    <3>1. cd'.queue_size = Mixed.queue_size /\ accepted' = accepted
      BY <2>4, MixedProperties DEF Mix, AddDgram, CDType
    <3>2. CASE RateQueueState(cd) = "ACTIVE"
      <4>1. /\ MixSamples <= cd.queue_size
            /\ Len(QueueAfterMix) = cd.queue_size - MixSamples
        BY <3>2, MixQueue
      <4>2. Mixed.queue_size = Len(QueueAfterMix)
        BY <2>2, <3>2 DEF Mixed, AfterMixery, QueueAfterMix, CDType
      <4>3. MixSamples \in Nat
        BY CallerAssumption
      <4>4. Window!TakeOne
        BY <2>1, <2>2, <3>1, <4>1, <4>2, <4>3 DEF Window!TakeOne
      <4> QED
        BY <4>4 DEF Window!WindowNext
    <3>3. CASE RateQueueState(cd) # "ACTIVE"
      <4>1. Mixed.queue_size = cd.queue_size
        BY <3>3 DEF Mixed
      <4> QED
        BY <2>1, <3>1, <4>1 DEF Window!window
    <3> QED
      BY <3>2, <3>3
  <2>5. CASE Report
    <3>1. cd'.queue_size = cd.queue_size /\ accepted' = accepted
      BY <2>2, <2>5 DEF Report, ResetStatistics, CDType
    <3> QED
      BY <2>1, <3>1 DEF Window!window
  <2>6. CASE UNCHANGED vars
    BY <2>1, <2>6 DEF vars, Window!window
  <2> QED
    BY <2>3, <2>4, <2>5, <2>6 DEF Next, Window!WindowNext
<1> QED
  BY <1>1, <1>2, Invariance, PTL DEF Spec
=============================================================================
