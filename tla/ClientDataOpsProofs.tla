------------------------- MODULE ClientDataOpsProofs -------------------------
(***************************************************************************)
(* What the methods of client_data do to the types of an object, for any   *)
(* endpoints and samples and every -F, -H, -L and -X, and what its loop    *)
(* over the kept datagrams returns: the lemmas that the proofs about the   *)
(* modules with a client_data in them share.                               *)
(***************************************************************************)
EXTENDS ClientDataOps, Integers, Sequences, SequenceTheorems,
        WellFoundedInduction, TLAPS

CDTypeOf(E, S) ==
    [ udp_endpoint : E, queue : Seq(S), queue_size : Nat,
      min_bytes : Nat, max_bytes : Nat,
      expected_client_datagram_nr : Nat, last_dgrams : Seq([nr : Nat]) ]

(* queue_size_ is the size of queue_, and never above fifo_size_ / 2.      *)
ObjectsOf(E, S) == {c \in CDTypeOf(E, S) : c.queue_size = Len(c.queue)
                                           /\ c.queue_size <= MaxQueueLength}

-----------------------------------------------------------------------------
(* Sequences *)

LEMMA QueueLengthNat == MaxQueueLength \in Nat /\ 2 * MaxQueueLength <= FifoSize
BY WatermarkAssumption DEF MaxQueueLength

LEMMA FunctionIsSeq ==
    ASSUME NEW S, NEW n \in Nat, NEW f \in [1 .. n -> S]
    PROVE  f \in Seq(S) /\ Len(f) = n
OBVIOUS

LEMMA AppendTyped ==
    ASSUME NEW S, NEW s \in Seq(S), NEW e \in S
    PROVE  /\ Append(s, e) \in Seq(S)
           /\ Len(Append(s, e)) = Len(s) + 1
           /\ Append(s, e) # << >>
           /\ \A i \in 1 .. Len(s) + 1 :
                  Append(s, e)[i] = IF i <= Len(s) THEN s[i] ELSE e
BY AppendProperties

LEMMA TailTyped ==
    ASSUME NEW S, NEW s \in Seq(S), s # << >>
    PROVE  /\ Head(s) \in S /\ Head(s) = s[1]
           /\ Tail(s) \in Seq(S)
           /\ Len(s) \in Nat /\ Len(s) > 0
           /\ Len(Tail(s)) = Len(s) - 1
           /\ \A i \in 1 .. Len(s) - 1 : Tail(s)[i] = s[i + 1]
BY HeadTailProperties, EmptySeq

(* The end of a sequence, possibly empty.                                  *)
LEMMA Suffix ==
    ASSUME NEW S, NEW s \in Seq(S), NEW k \in Nat
    PROVE  /\ SubSeq(s, k + 1, Len(s)) \in Seq(S)
           /\ Len(SubSeq(s, k + 1, Len(s))) =
                  IF k <= Len(s) THEN Len(s) - k ELSE 0
<1>1. Len(s) \in Nat /\ k + 1 \in Int
  OBVIOUS
<1>2. \A i \in k + 1 .. Len(s) : s[i] \in S
  BY <1>1, ElementOfSeq
<1>3. /\ SubSeq(s, k + 1, Len(s)) \in Seq(S)
      /\ Len(SubSeq(s, k + 1, Len(s))) =
             IF k + 1 <= Len(s) THEN Len(s) - (k + 1) + 1 ELSE 0
  BY <1>1, <1>2, SubSeqProperties
<1> QED
  BY <1>1, <1>3

-----------------------------------------------------------------------------
(* The methods *)

LEMMA NewObjectOf ==
    ASSUME NEW E, NEW S, NEW p \in E
    PROVE  /\ NewClientData(p) \in ObjectsOf(E, S)
           /\ NewClientData(p).udp_endpoint = p
<1>1. << >> \in Seq(S) /\ << >> \in Seq([nr : Nat]) /\ Len(<< >>) = 0
  OBVIOUS
<1> QED
  BY <1>1, QueueLengthNat DEF NewClientData, ObjectsOf, CDTypeOf

LEMMA Fields ==
    ASSUME NEW E, NEW S, NEW c \in ObjectsOf(E, S)
    PROVE  /\ c.udp_endpoint \in E
           /\ c.queue \in Seq(S) /\ c.queue_size \in Nat
           /\ c.queue_size = Len(c.queue) /\ c.queue_size <= MaxQueueLength
           /\ c.min_bytes \in Nat /\ c.max_bytes \in Nat
           /\ c.expected_client_datagram_nr \in Nat
           /\ c.last_dgrams \in Seq([nr : Nat])
BY DEF ObjectsOf, CDTypeOf

(* An upload that fits the queue leaves a queue that fits.                 *)
LEMMA UploadObject ==
    ASSUME NEW E, NEW S, NEW c \in ObjectsOf(E, S),
           NEW s \in Seq(S), Len(s) <= MaxQueueLength
    PROVE  /\ AfterUpload(c, s) \in ObjectsOf(E, S)
           /\ AfterUpload(c, s).udp_endpoint = c.udp_endpoint
           /\ AfterUpload(c, s).expected_client_datagram_nr =
                  c.expected_client_datagram_nr + 1
<1> DEFINE k == UploadShift(c, s)
           f == PopFront(c.queue, k)
           q == f \o s
<1>1. /\ Len(s) \in Nat /\ Len(c.queue) \in Nat
      /\ c.queue_size = Len(c.queue) /\ c.queue_size <= MaxQueueLength
      /\ c.queue \in Seq(S)
  BY Fields
<1>2. /\ k \in Nat /\ k <= Len(c.queue)
      /\ Len(c.queue) - k + Len(s) <= MaxQueueLength
  BY <1>1, QueueLengthNat DEF UploadShift
<1> HIDE DEF k
<1>3. f \in Seq(S) /\ Len(f) = Len(c.queue) - k
  BY <1>1, <1>2, Suffix DEF PopFront
<1> HIDE DEF f
<1>4. q \in Seq(S) /\ Len(q) = Len(f) + Len(s)
  BY <1>3, ConcatProperties
<1> HIDE DEF q
<1>5. Len(q) \in Nat /\ Len(q) <= MaxQueueLength
  BY <1>1, <1>2, <1>3, <1>4
<1> DEFINE hi == Larger(c.max_bytes, Len(q) * 2)
           e  == c.expected_client_datagram_nr + 1
           d  == [c EXCEPT !.queue = q, !.queue_size = Len(q), !.max_bytes = hi,
                           !.expected_client_datagram_nr = e]
<1>6. hi \in Nat /\ e \in Nat
  BY <1>5, Fields DEF Larger
<1>7. AfterUpload(c, s) = d
  BY DEF AfterUpload, q, f, k, ObjectsOf, CDTypeOf
<1>8. c \in CDTypeOf(E, S)
  BY DEF ObjectsOf
<1> HIDE DEF hi, e
<1>9. d \in CDTypeOf(E, S)
  BY <1>4, <1>5, <1>6, <1>8 DEF CDTypeOf
<1>10. /\ d.queue = q /\ d.queue_size = Len(q)
       /\ d.udp_endpoint = c.udp_endpoint
       /\ d.expected_client_datagram_nr = e
  BY <1>8 DEF CDTypeOf
<1> QED
  BY <1>5, <1>7, <1>9, <1>10 DEF ObjectsOf, e

LEMMA MixeryObject ==
    ASSUME NEW E, NEW S, NEW c \in ObjectsOf(E, S), NEW n \in Nat
    PROVE  /\ AfterMixery(c, 2 * n) \in ObjectsOf(E, S)
           /\ AfterMixery(c, 2 * n).udp_endpoint = c.udp_endpoint
           /\ AfterMixery(c, 2 * n).expected_client_datagram_nr =
                  c.expected_client_datagram_nr
<1> DEFINE q == PopFront(c.queue, (2 * n) \div 2)
<1>1. (2 * n) \div 2 = n
  OBVIOUS
<1>2. /\ c.queue \in Seq(S) /\ Len(c.queue) \in Nat
      /\ Len(c.queue) <= MaxQueueLength
  BY Fields
<1>3. /\ q \in Seq(S)
      /\ Len(q) = IF n <= Len(c.queue)
                  THEN Len(c.queue) - n ELSE 0
  BY <1>1, <1>2, Suffix DEF PopFront
<1> HIDE DEF q
<1>4. Len(q) \in Nat /\ Len(q) <= MaxQueueLength
  BY <1>1, <1>2, <1>3, QueueLengthNat
<1>5. Smaller(c.min_bytes, Len(q) * 2) \in Nat
  BY <1>4, Fields DEF Smaller
<1>6. AfterMixery(c, 2 * n) =
          [c EXCEPT !.queue = q, !.queue_size = Len(q),
                    !.min_bytes = Smaller(@, Len(q) * 2)]
  BY DEF AfterMixery, q
<1> QED
  BY <1>3, <1>4, <1>5, <1>6 DEF ObjectsOf, CDTypeOf

LEMMA DgramObject ==
    ASSUME NEW E, NEW S, NEW c \in ObjectsOf(E, S), NEW n \in Nat
    PROVE  /\ AddDgram(c, [nr |-> n]) \in ObjectsOf(E, S)
           /\ AddDgram(c, [nr |-> n]).udp_endpoint = c.udp_endpoint
<1> DEFINE D == [nr : Nat]
           e == [nr |-> n]
           a == Append(c.last_dgrams, e)
           d == IF Len(a) > BufLen THEN Tail(a) ELSE a
<1>1. c.last_dgrams \in Seq(D) /\ e \in D
  BY Fields
<1>2. AddDgram(c, e) = [c EXCEPT !.last_dgrams = d]
  BY DEF AddDgram
<1> HIDE DEF D, e
<1>3. a \in Seq(D) /\ a # << >>
  BY <1>1, AppendTyped
<1> HIDE DEF a
<1>4. d \in Seq(D)
  BY <1>3, TailTyped
<1> HIDE DEF d
<1> USE DEF D, e
<1> QED
  BY <1>2, <1>4 DEF ObjectsOf, CDTypeOf

LEMMA StatisticsObject ==
    ASSUME NEW E, NEW S, NEW c \in ObjectsOf(E, S)
    PROVE  /\ ResetStatistics(c) \in ObjectsOf(E, S)
           /\ ResetStatistics(c).udp_endpoint = c.udp_endpoint
<1>1. c.queue_size * 2 \in Nat
  BY Fields
<1> QED
  BY <1>1 DEF ResetStatistics, ObjectsOf, CDTypeOf

-----------------------------------------------------------------------------
(* The loop over the kept datagrams *)

(* Induction over the natural numbers, from the library's theorem that     *)
(* they have no infinite descent.                                          *)
LEMMA Induction ==
    ASSUME NEW B, 0 \in B, \A n \in Nat : n \in B => n + 1 \in B
    PROVE  Nat \subseteq B
<1> DEFINE T == {n \in Nat : n \notin B}
<1>1. SUFFICES ASSUME T # {} PROVE FALSE
  OBVIOUS
<1>2. PICK x \in T : \A y \in T : ~ (<< y, x >> \in OpToRel(<, Nat))
  BY <1>1, WFMin, NatLessThanWellFounded
<1>3. x - 1 \in Nat /\ x - 1 < x
  OBVIOUS
<1>4. x - 1 \notin T
  BY <1>2, <1>3 DEF OpToRel
<1> QED
  BY <1>3, <1>4

(* ret_list after each number of datagrams.                                *)
LEMMA Loop ==
    ASSUME NEW S, NEW s \in Seq(S), NEW least
    PROVE  \E f : /\ f[0] = << >>
                  /\ \A i \in 1 .. Len(s) :
                         f[i] = IF s[i].nr >= least THEN Append(f[i - 1], s[i])
                                ELSE f[i - 1]
                  /\ DgramsFrom(s, least) = f[Len(s)]
<1> DEFINE Step(i, f) == IF i = 0 THEN << >>
                         ELSE IF s[i].nr >= least THEN Append(f[i - 1], s[i])
                         ELSE f[i - 1]
           B == {n \in Nat : \E f : f = [i \in 0 .. n |-> Step(i, f)]}
           ret_list == CHOOSE f : f = [i \in 0 .. Len(s) |-> Step(i, f)]
<1>1. 0 \in B
  <2> DEFINE f == [i \in 0 .. 0 |-> << >>]
  <2>1. f = [i \in 0 .. 0 |-> Step(i, f)]
    OBVIOUS
  <2> QED
    BY <2>1
<1>2. ASSUME NEW n \in Nat, n \in B PROVE n + 1 \in B
  <2>1. PICK f : f = [i \in 0 .. n |-> Step(i, f)]
    BY <1>2
  <2> DEFINE g == [i \in 0 .. n + 1 |-> Step(i, f)]
  <2>2. \A i \in 0 .. n : f[i] = Step(i, f)
    BY <2>1
  <2>3. \A i \in 0 .. n : g[i] = f[i]
    BY <2>2
  <2>4. \A i \in 0 .. n + 1 : i = 0 \/ i - 1 \in 0 .. n
    OBVIOUS
  <2>5. \A i \in 0 .. n + 1 : Step(i, f) = Step(i, g)
    <3> HIDE DEF g
    <3> QED
      BY <2>3, <2>4
  <2>6. g = [i \in 0 .. n + 1 |-> Step(i, g)]
    BY <2>5
  <2> HIDE DEF g, Step
  <2> QED
    BY <2>6
<1> HIDE DEF B
<1>3. Nat \subseteq B
  BY <1>1, <1>2, Induction
<1>4. Len(s) \in Nat
  OBVIOUS
<1>5. ret_list = [i \in 0 .. Len(s) |-> Step(i, ret_list)]
  <2>1. \E f : f = [i \in 0 .. Len(s) |-> Step(i, f)]
    BY <1>3, <1>4 DEF B
  <2> HIDE DEF Step
  <2> QED
    BY <2>1
<1>6. DgramsFrom(s, least) = ret_list[Len(s)]
  BY DEF DgramsFrom
<1> HIDE DEF ret_list
<1>7. \A i \in 0 .. Len(s) : ret_list[i] = Step(i, ret_list)
  BY <1>5
<1>8. ret_list[0] = << >>
  BY <1>4, <1>7
<1>9. \A i \in 1 .. Len(s) : i \in 0 .. Len(s) /\ i # 0
  BY <1>4
<1>10. \A i \in 1 .. Len(s) : ret_list[i] =
           IF s[i].nr >= least THEN Append(ret_list[i - 1], s[i])
           ELSE ret_list[i - 1]
  BY <1>7, <1>9
<1> QED
  BY <1>6, <1>8, <1>10

LEMMA DgramsFromType ==
    ASSUME NEW S, NEW s \in Seq(S), NEW least
    PROVE  DgramsFrom(s, least) \in Seq(S)
<1>1. PICK f : /\ f[0] = << >>
               /\ \A i \in 1 .. Len(s) :
                      f[i] = IF s[i].nr >= least THEN Append(f[i - 1], s[i])
                             ELSE f[i - 1]
               /\ DgramsFrom(s, least) = f[Len(s)]
  BY Loop
<1> DEFINE B == {n \in Nat : n <= Len(s) => f[n] \in Seq(S)}
<1>2. 0 \in B
  BY <1>1, EmptySeq
<1>3. ASSUME NEW n \in Nat, n \in B PROVE n + 1 \in B
  <2>1. SUFFICES ASSUME n + 1 <= Len(s) PROVE f[n + 1] \in Seq(S)
    OBVIOUS
  <2>2. n + 1 \in 1 .. Len(s) /\ (n + 1) - 1 = n /\ n <= Len(s)
    BY <2>1
  <2>3. s[n + 1] \in S /\ f[n] \in Seq(S)
    BY <1>3, <2>2, ElementOfSeq
  <2>4. Append(f[n], s[n + 1]) \in Seq(S)
    BY <2>3, AppendTyped
  <2> QED
    BY <1>1, <2>2, <2>3, <2>4
<1> HIDE DEF B
<1>4. Nat \subseteq B
  BY <1>2, <1>3, Induction
<1>5. Len(s) \in Nat
  OBVIOUS
<1> QED
  BY <1>1, <1>4, <1>5 DEF B

(* Of datagrams with consecutive numbers below m it returns the last ones. *)
LEMMA DgramsFromLast ==
    ASSUME NEW s \in Seq([nr : Nat]), NEW m \in Nat, NEW least \in 0 .. m,
           \A i \in 1 .. Len(s) : s[i].nr = m - Len(s) + i - 1
    PROVE  DgramsFrom(s, least) =
               [i \in 1 .. Smaller(m - least, Len(s)) |->
                   [nr |-> m - Smaller(m - least, Len(s)) + i - 1]]
<1> DEFINE L == Len(s)
           n == Smaller(m - least, L)
           Last(i) == [j \in 1 .. i - (L - n) |-> [nr |-> m - n + j - 1]]
<1>1. PICK f : /\ f[0] = << >>
               /\ \A i \in 1 .. L :
                      f[i] = IF s[i].nr >= least THEN Append(f[i - 1], s[i])
                             ELSE f[i - 1]
               /\ DgramsFrom(s, least) = f[L]
  BY Loop
<1>2. L \in Nat /\ n \in Nat /\ n <= L /\ n <= m - least
      /\ (n = L \/ n = m - least)
  BY DEF Smaller
<1>3. \A i \in 1 .. L : s[i] = [nr |-> m - L + i - 1]
  <2>1. TAKE i \in 1 .. L
  <2>2. s[i] \in [nr : Nat]
    BY ElementOfSeq
  <2> QED
    BY <2>2
<1>4. \A i \in 1 .. L : s[i].nr = m - L + i - 1
  OBVIOUS
<1> HIDE DEF L, n
<1>5. \A i \in 1 .. L : s[i].nr >= least <=> i > L - n
  <2>1. TAKE i \in 1 .. L
  <2>2. s[i].nr = m - L + i - 1
    BY <1>4
  <2>3. m - L + i - 1 >= least <=> i > L - n
    BY <1>2, <2>1
  <2> QED
    BY <2>2, <2>3
<1>6. \A i \in Nat : i <= L - n => Last(i) = << >>
  BY <1>2
<1>7. ASSUME NEW i \in Nat, i + 1 <= L, i + 1 > L - n
      PROVE  Append(Last(i), s[i + 1]) = Last(i + 1)
  <2> DEFINE k == i - (L - n)
  <2>1. k \in Nat /\ (i + 1) - (L - n) = k + 1
    BY <1>2, <1>7
  <2>2. m - L + (i + 1) - 1 = m - n + (k + 1) - 1 /\ i + 1 \in 1 .. L
    BY <1>2, <1>7
  <2>3. s[i + 1] = [nr |-> m - n + (k + 1) - 1]
    BY <1>3, <2>2
  <2>4. Last(i) = [j \in 1 .. k |-> [nr |-> m - n + j - 1]]
    OBVIOUS
  <2>5. Last(i + 1) = [j \in 1 .. k + 1 |-> [nr |-> m - n + j - 1]]
    BY <2>1
  <2> HIDE DEF k, Last
  <2>6. Last(i) \in Seq([nr : Int]) /\ Len(Last(i)) = k
    <3>1. \A j \in 1 .. k : [nr |-> m - n + j - 1] \in [nr : Int]
      BY <1>2, <2>1
    <3>2. Last(i) \in [1 .. k -> [nr : Int]]
      BY <2>4, <3>1
    <3> QED
      BY <2>1, <3>2, FunctionIsSeq
  <2>7. Last(i + 1) \in Seq([nr : Int]) /\ Len(Last(i + 1)) = k + 1
    <3>1. \A j \in 1 .. k + 1 : [nr |-> m - n + j - 1] \in [nr : Int]
      BY <1>2, <2>1
    <3>2. k + 1 \in Nat
      BY <2>1
    <3>3. Last(i + 1) \in [1 .. k + 1 -> [nr : Int]]
      BY <2>5, <3>1
    <3> QED
      BY <3>2, <3>3, FunctionIsSeq
  <2>8. s[i + 1] \in [nr : Int]
    BY <1>2, <2>1, <2>3
  <2>9. /\ Append(Last(i), s[i + 1]) \in Seq([nr : Int])
        /\ Len(Append(Last(i), s[i + 1])) = k + 1
        /\ \A j \in 1 .. k + 1 : Append(Last(i), s[i + 1])[j] =
               IF j <= k THEN Last(i)[j] ELSE s[i + 1]
    BY <2>6, <2>8, AppendTyped
  <2>10. \A j \in 1 .. k + 1 : Append(Last(i), s[i + 1])[j] = Last(i + 1)[j]
    <3>1. TAKE j \in 1 .. k + 1
    <3>2. CASE j <= k
      <4>1. j \in 1 .. k
        BY <2>1, <3>2
      <4> QED
        BY <2>4, <2>5, <2>9, <3>2, <4>1
    <3>3. CASE ~ (j <= k)
      <4>1. j = k + 1
        BY <2>1, <3>3
      <4> QED
        BY <2>3, <2>5, <2>9, <3>3, <4>1
    <3> QED
      BY <3>2, <3>3
  <2> QED
    BY <2>7, <2>9, <2>10, SeqEqual
<1> DEFINE B == {i \in Nat : i <= L => f[i] = Last(i)}
<1>8. 0 \in B
  BY <1>1, <1>2, <1>6
<1>9. ASSUME NEW i \in Nat, i \in B PROVE i + 1 \in B
  <2> HIDE DEF Last
  <2>1. SUFFICES ASSUME i + 1 <= L PROVE f[i + 1] = Last(i + 1)
    OBVIOUS
  <2>2. i + 1 \in 1 .. L /\ (i + 1) - 1 = i /\ i <= L
    BY <1>2, <2>1
  <2>3. f[i] = Last(i)
    BY <1>9, <2>2
  <2>4. CASE i + 1 > L - n
    BY <1>1, <1>5, <1>7, <2>1, <2>2, <2>3, <2>4
  <2>5. CASE ~ (i + 1 > L - n)
    <3>1. i <= L - n /\ i + 1 <= L - n
      BY <1>2, <2>5
    <3>2. Last(i) = << >> /\ Last(i + 1) = << >>
      BY <1>6, <3>1
    <3> QED
      BY <1>1, <1>5, <2>2, <2>3, <2>5, <3>2
  <2> QED
    BY <2>4, <2>5
<1> HIDE DEF B
<1>10. Nat \subseteq B
  BY <1>8, <1>9, Induction
<1>11. f[L] = Last(L)
  <2>1. L \in B /\ L <= L
    BY <1>2, <1>10
  <2> QED
    BY <2>1 DEF B
<1>12. L - (L - n) = n
  BY <1>2
<1> QED
  BY <1>1, <1>11, <1>12 DEF n, L

=============================================================================
