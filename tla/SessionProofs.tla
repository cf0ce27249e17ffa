---------------------------- MODULE SessionProofs ----------------------------
(***************************************************************************)
(* Proofs about Session, for any window, FIFO, chunk sizes and path: the   *)
(* types of its state, that the numbers of the uploads implement the       *)
(* abstract Uplink, that a session that came to a standstill over a lost   *)
(* ACK never moves again, that the FIFO gets the samples of stdin in       *)
(* order, and that a client that waits for each ACK never overflows it and *)
(* can always send again what is missing.                                  *)
(***************************************************************************)
EXTENDS Session, ClientDataOpsProofs

Widest == Larger(ClientBufferLen, FifoSize)

Ups   == {ClientDgram} \cup [type : {"UPLOAD"}, nr : Nat, body : Seq(Nat)]
Downs == [type : {"ACK"}, ack : Nat, win : 0 .. Widest]
             \cup [type : {"DATA"}, age : 0 .. MaxAge, ack : Nat,
                   win : 0 .. Widest]

Expected == cd.expected_client_datagram_nr

-----------------------------------------------------------------------------
(* The inductive invariant *)

ClientTypes ==
    /\ pc \in {"start", "receive", "stdout", "stdin", "stopped"}
    /\ first \in BOOLEAN
    /\ lag \in 0 .. MaxAge + 2
    /\ actual \in Nat /\ read \in Nat /\ acked \in Nat
    /\ win \in 0 .. Widest
    /\ last_header \in {"none", "CLIENT", "DATA", "ACK"}
    /\ last_datagram \in Seq(Ups) /\ Len(last_datagram) <= 1

PathTypes ==
    /\ network \in Networks
    /\ toServer \in Seq(Ups)
    /\ toClient \in Seq(Downs)

ServerTypes ==
    /\ registered \in BOOLEAN
    /\ cd \in ObjectsOf({"client"}, Nat)

Types == ClientTypes /\ PathTypes /\ ServerTypes

(* Before its first DATA or ACK the client has read nothing.               *)
Fresh ==
    first => /\ actual = 0 /\ acked = 0 /\ Expected = 0
             /\ last_header = "none"
             /\ pc \notin {"stdout", "stdin"}
             /\ \A i \in 1 .. Len(toClient) :
                    toClient[i].type = "DATA" /\ toClient[i].ack = 0

(* Only what was sent is under way, is acknowledged, is expected.          *)
Sent ==
    /\ Expected <= actual /\ acked <= Expected
    /\ \A i \in 1 .. Len(toServer) :
           toServer[i].type = "UPLOAD" => toServer[i].nr < actual
    /\ \A i \in 1 .. Len(last_datagram) :
           last_datagram[i].type = "UPLOAD" => last_datagram[i].nr < actual
    /\ \A i \in 1 .. Len(toClient) : toClient[i].ack <= Expected

(* On a path that keeps order every ACK is news.                           *)
AcksRise ==
    /\ \A i \in 1 .. Len(toClient) :
           toClient[i].type = "ACK" => acked < toClient[i].ack
    /\ \A i, j \in 1 .. Len(toClient) :
           i < j /\ toClient[i].type = "ACK" /\ toClient[j].type = "ACK"
               => toClient[i].ack < toClient[j].ack

(* How far the client is ahead of the last ACK it handled depends on the   *)
(* datagram it handled last and on whether it may read before the next.    *)
Reading == pc \in {"stdout", "stdin"}

Distance ==
    /\ last_header = "none"   => first
    /\ last_header = "CLIENT" => actual <= acked + (IF Reading THEN 0 ELSE 1)
    /\ last_header = "DATA"   => actual <= acked + (IF Reading THEN 1 ELSE 2)
    /\ last_header = "ACK"    => actual <= acked + 1 /\ ~ Reading

Inv == Types /\ Fresh /\ Sent /\ (Ordered => AcksRise /\ Distance)

-----------------------------------------------------------------------------
(* Channels *)

LEMMA WithoutTyped ==
    ASSUME NEW S, NEW s \in Seq(S), NEW i \in 1 .. Len(s)
    PROVE  /\ Without(s, i) \in Seq(S)
           /\ Len(s) \in Nat
           /\ Len(Without(s, i)) = Len(s) - 1
           /\ \A j \in 1 .. Len(s) - 1 :
                  Without(s, i)[j] = IF j < i THEN s[j] ELSE s[j + 1]
<1> DEFINE a == SubSeq(s, 1, i - 1)
           b == SubSeq(s, i + 1, Len(s))
<1>1. Len(s) \in Nat /\ i \in Nat /\ 1 <= i /\ i <= Len(s)
  OBVIOUS
<1>2. \A k \in 1 .. Len(s) : s[k] \in S
  BY ElementOfSeq
<1>3. /\ a \in Seq(S) /\ Len(a) = i - 1
      /\ \A j \in 1 .. i - 1 : a[j] = s[j]
  BY <1>1, <1>2, SubSeqProperties
<1>4. /\ b \in Seq(S) /\ Len(b) = Len(s) - i
      /\ \A j \in 1 .. Len(s) - i : b[j] = s[i + j]
  BY <1>1, <1>2, SubSeqProperties
<1> HIDE DEF a, b
<1>5. /\ a \o b \in Seq(S) /\ Len(a \o b) = Len(a) + Len(b)
      /\ \A j \in 1 .. Len(a) + Len(b) :
             (a \o b)[j] = IF j <= Len(a) THEN a[j] ELSE b[j - Len(a)]
  BY <1>3, <1>4, ConcatProperties
<1>6. Without(s, i) = a \o b
  BY DEF Without, a, b
<1>7. ASSUME NEW j \in 1 .. Len(s) - 1
      PROVE  (a \o b)[j] = IF j < i THEN s[j] ELSE s[j + 1]
  <2>1. CASE j < i
    BY <1>1, <1>3, <1>4, <1>5, <2>1
  <2>2. CASE ~ (j < i)
    <3>1. /\ j - (i - 1) \in 1 .. Len(s) - i
          /\ (a \o b)[j] = b[j - (i - 1)]
      BY <1>1, <1>3, <1>4, <1>5, <2>2
    <3>2. i + (j - (i - 1)) = j + 1
      BY <1>1
    <3> QED
      BY <1>4, <2>2, <3>1, <3>2
  <2> QED
    BY <2>1, <2>2
<1>8. Len(a \o b) = Len(s) - 1
  BY <1>1, <1>3, <1>4, <1>5
<1> QED
  BY <1>1, <1>5, <1>6, <1>7, <1>8

(* What is left of a channel are datagrams that were in it.                *)
LEMMA WithoutSome ==
    ASSUME NEW S, NEW s \in Seq(S), NEW i \in 1 .. Len(s)
    PROVE  /\ Without(s, i) \in Seq(S)
           /\ \A j \in 1 .. Len(Without(s, i)) :
                  \E k \in 1 .. Len(s) : Without(s, i)[j] = s[k]
<1>1. ASSUME NEW j \in 1 .. Len(s) - 1
      PROVE  \E k \in 1 .. Len(s) : Without(s, i)[j] = s[k]
  <2>1. Len(s) \in Nat /\ j \in 1 .. Len(s) /\ j + 1 \in 1 .. Len(s)
    BY WithoutTyped
  <2> QED
    BY <2>1, WithoutTyped
<1> QED
  BY <1>1, WithoutTyped

LEMMA AfterSome ==
    ASSUME NEW S, NEW s \in Seq(S), NEW i \in 1 .. Len(s), NEW t \in After(s, i)
    PROVE  /\ t \in Seq(S)
           /\ \A j \in 1 .. Len(t) : \E k \in 1 .. Len(s) : t[j] = s[k]
<1>1. CASE t = Without(s, i)
  BY <1>1, WithoutSome
<1>2. CASE t = s
  BY <1>2
<1> QED
  BY <1>1, <1>2 DEF After

LEMMA Arrivals ==
    ASSUME NEW S, NEW s \in Seq(S), NEW i \in Arriving(s)
    PROVE  /\ i \in 1 .. Len(s) /\ s[i] \in S
           /\ Ordered => i = 1 /\ After(s, i) = {Without(s, 1)}
<1>1. i \in 1 .. Len(s) /\ (Ordered => i = 1)
  BY DEF Arriving
<1> QED
  BY <1>1, ElementOfSeq DEF After

-----------------------------------------------------------------------------
LEMMA SizesNat == /\ FifoSize \in Nat /\ ClientBufferLen \in Nat
                  /\ Widest \in Nat /\ FifoSize <= Widest
                  /\ ClientBufferLen <= Widest
BY WatermarkAssumption, ClientAssumption DEF Widest, Larger

(* The window announced is room in the FIFO.                               *)
LEMMA WindowFits ==
    ASSUME NEW c \in ObjectsOf({"client"}, Nat)
    PROVE  GetAvailableSize(c) \in 0 .. Widest
<1>1. c.queue_size \in Nat /\ c.queue_size <= MaxQueueLength
  BY Fields
<1> QED
  BY <1>1, QueueLengthNat, SizesNat DEF GetAvailableSize

LEMMA FittingFits ==
    ASSUME NEW body \in Seq(Nat)
    PROVE  /\ Fitting(body) \in Seq(Nat)
           /\ Len(Fitting(body)) \in Nat
           /\ Len(Fitting(body)) <= Len(body)
           /\ Len(Fitting(body)) <= MaxQueueLength
           /\ \A j \in 1 .. Len(Fitting(body)) : Fitting(body)[j] = body[j]
<1> DEFINE room == (Smaller(FifoSize, ClientBufferLen) - UploadHeader) \div 2
           n    == Smaller(Len(body), room)
<1>1. Len(body) \in Nat /\ \A j \in 1 .. Len(body) : body[j] \in Nat
  BY ElementOfSeq
<1>2. room \in Nat /\ room <= MaxQueueLength
  <2>1. /\ Smaller(FifoSize, ClientBufferLen) \in Nat
        /\ Smaller(FifoSize, ClientBufferLen) <= FifoSize
        /\ UploadHeader <= Smaller(FifoSize, ClientBufferLen)
        /\ UploadHeader \in Nat
    BY SizesNat, SessionAssumption DEF Smaller
  <2>2. \A a, b, c \in Nat : b <= a /\ a <= c
            => (a - b) \div 2 \in Nat /\ (a - b) \div 2 <= c \div 2
    OBVIOUS
  <2> QED
    BY <2>1, <2>2, SizesNat DEF MaxQueueLength
<1> HIDE DEF room
<1>3. n \in Nat /\ n <= Len(body) /\ n <= MaxQueueLength
  BY <1>1, <1>2, QueueLengthNat DEF Smaller
<1> HIDE DEF n
<1>4. \A j \in 1 .. n : body[j] \in Nat
  BY <1>1, <1>3
<1>5. /\ SubSeq(body, 1, n) \in Seq(Nat)
      /\ Len(SubSeq(body, 1, n)) = IF 1 <= n THEN n - 1 + 1 ELSE 0
      /\ \A j \in 1 .. n - 1 + 1 : SubSeq(body, 1, n)[j] = body[1 + j - 1]
  BY <1>3, <1>4, SubSeqProperties
<1>6. Len(SubSeq(body, 1, n)) = n
  BY <1>3, <1>5
<1>7. \A j \in 1 .. n : SubSeq(body, 1, n)[j] = body[j]
  BY <1>3, <1>5
<1>8. Fitting(body) = SubSeq(body, 1, n)
  BY DEF Fitting, n, room
<1> QED
  BY <1>3, <1>5, <1>6, <1>7, <1>8

LEMMA DgramTypes ==
    /\ ClientDgram \in Ups
    /\ \A k \in Nat, s \in Seq(Nat) :
           UploadDgram(k, s) \in Ups /\ UploadDgram(k, s).type = "UPLOAD"
           /\ UploadDgram(k, s).nr = k /\ UploadDgram(k, s).body = s
    /\ \A a \in Nat, w \in 0 .. Widest :
           /\ AckDgram(a, w) \in Downs /\ DataDgram(a, w) \in Downs
           /\ AckDgram(a, w).type = "ACK" /\ AckDgram(a, w).ack = a
           /\ DataDgram(a, w).type = "DATA" /\ DataDgram(a, w).ack = a
BY ClientAssumption
   DEF Ups, Downs, ClientDgram, UploadDgram, AckDgram, DataDgram

LEMMA ConcatSome ==
    ASSUME NEW S, NEW s \in Seq(S), NEW t \in Seq(S)
    PROVE  /\ s \o t \in Seq(S)
           /\ \A j \in 1 .. Len(s \o t) :
                  \/ \E k \in 1 .. Len(s) : (s \o t)[j] = s[k]
                  \/ \E k \in 1 .. Len(t) : (s \o t)[j] = t[k]
<1>1. /\ Len(s) \in Nat /\ Len(t) \in Nat
      /\ s \o t \in Seq(S) /\ Len(s \o t) = Len(s) + Len(t)
      /\ \A j \in 1 .. Len(s) + Len(t) :
             (s \o t)[j] = IF j <= Len(s) THEN s[j] ELSE t[j - Len(s)]
  BY ConcatProperties
<1>2. ASSUME NEW j \in 1 .. Len(s) + Len(t)
      PROVE  \/ \E k \in 1 .. Len(s) : (s \o t)[j] = s[k]
             \/ \E k \in 1 .. Len(t) : (s \o t)[j] = t[k]
  <2>1. CASE j <= Len(s)
    BY <1>1, <2>1
  <2>2. CASE ~ (j <= Len(s))
    <3>1. j - Len(s) \in 1 .. Len(t) /\ (s \o t)[j] = t[j - Len(s)]
      BY <1>1, <2>2
    <3> QED
      BY <3>1
  <2> QED
    BY <2>1, <2>2
<1> QED
  BY <1>1, <1>2

LEMMA AppendSome ==
    ASSUME NEW S, NEW s \in Seq(S), NEW e \in S
    PROVE  /\ Append(s, e) \in Seq(S)
           /\ \A j \in 1 .. Len(Append(s, e)) :
                  \/ Append(s, e)[j] = e
                  \/ \E k \in 1 .. Len(s) : Append(s, e)[j] = s[k]
<1>1. Len(s) \in Nat
  OBVIOUS
<1> QED
  BY <1>1, AppendTyped

(* A datagram less leaves the others in their order.                       *)
LEMMA KeepsOrder ==
    ASSUME NEW S, NEW s \in Seq(S), NEW i \in 1 .. Len(s),
           NEW j \in 1 .. Len(Without(s, i)), NEW k \in 1 .. Len(Without(s, i)),
           j < k
    PROVE  \E a, b \in 1 .. Len(s) :
               a < b /\ Without(s, i)[j] = s[a] /\ Without(s, i)[k] = s[b]
<1> DEFINE a == IF j < i THEN j ELSE j + 1
           b == IF k < i THEN k ELSE k + 1
<1>1. Len(s) \in Nat /\ j \in 1 .. Len(s) - 1 /\ k \in 1 .. Len(s) - 1
  BY WithoutTyped
<1>2. a \in 1 .. Len(s) /\ b \in 1 .. Len(s) /\ a < b
  BY <1>1
<1>3. Without(s, i)[j] = s[a] /\ Without(s, i)[k] = s[b]
  BY <1>1, WithoutTyped
<1> QED
  BY <1>2, <1>3

-----------------------------------------------------------------------------
LEMMA EmptyTyped == \A S : << >> \in Seq(S) /\ Len(<< >>) = 0
OBVIOUS

LEMMA InitInv == Init => Inv
<1> SUFFICES ASSUME Init PROVE Inv
  OBVIOUS
<1>1. ClientInit /\ network \in Networks /\ registered = FALSE
      /\ cd = NewClientData("client")
  BY DEF Init
<1>2. ClientTypes
  BY <1>1, EmptyTyped, SizesNat, ClientAssumption DEF ClientInit, ClientTypes
<1>3. PathTypes
  BY <1>1, EmptyTyped DEF ClientInit, PathTypes
<1>4. ServerTypes
  BY <1>1, NewObjectOf DEF ServerTypes
<1>5. Expected = 0
  BY <1>1 DEF Expected, NewClientData
<1>6. Fresh /\ Sent /\ AcksRise /\ Distance
  BY <1>1, <1>5, EmptyTyped
     DEF ClientInit, Fresh, Sent, AcksRise, Distance, Reading
<1> QED
  BY <1>2, <1>3, <1>4, <1>6 DEF Inv, Types

(* The datagrams a step leaves alone.                                      *)
LEMMA NothingMoves ==
    ASSUME Inv,
           UNCHANGED << network, first, actual, acked, last, toServer, toClient,
                        cd >>,
           ClientTypes', ServerTypes',
           first => pc' \notin {"stdout", "stdin"},
           Reading' => Reading
    PROVE  Inv'
<1>1. UNCHANGED << last_header, last_datagram, Expected >>
  BY DEF last, Expected
<1>2. Types'
  BY <1>1 DEF Inv, Types, PathTypes
<1>3. Fresh' /\ Sent'
  BY <1>1 DEF Inv, Fresh, Sent
<1>4. Ordered' => AcksRise' /\ Distance'
  <2>1. ASSUME Ordered' PROVE AcksRise' /\ Distance'
    <3>1. AcksRise /\ Distance
      BY <2>1 DEF Inv, Ordered
    <3>2. AcksRise'
      BY <3>1 DEF AcksRise
    <3>3. actual \in Nat /\ acked \in Nat
      BY DEF Inv, Types, ClientTypes
    <3>4. Distance'
      BY <1>1, <3>1, <3>3 DEF Distance
    <3> QED
      BY <3>2, <3>4
  <2> QED
    BY <2>1
<1> QED
  BY <1>2, <1>3, <1>4 DEF Inv

LEMMA ClientEndsInv == Inv /\ ClientEnds => Inv'
<1> SUFFICES ASSUME Inv, ClientEnds PROVE Inv'
  OBVIOUS
<1>1. /\ UNCHANGED << network, first, lag, actual, win, last_header,
             last_datagram, toServer, toClient, read, acked, registered, cd >>
      /\ pc' = "stopped"
  BY DEF ClientEnds, StreamEnds, counters, last, history, serverSide
<1>2. ClientTypes' /\ ServerTypes'
  BY <1>1 DEF Inv, Types, ClientTypes, ServerTypes
<1> QED
  BY <1>1, <1>2, NothingMoves DEF last, Reading

LEMMA ClientStepInv == Inv /\ ClientStep => Inv'
<1> SUFFICES ASSUME Inv, ClientStep PROVE Inv'
  OBVIOUS
<1>1. CASE WriteStdout
  <2>1. /\ UNCHANGED << network, first, lag, actual, win, last_header,
               last_datagram, toServer, toClient, read, acked, registered, cd >>
        /\ pc = "stdout" /\ pc' \in {"stdin", "receive"}
    BY <1>1 DEF ClientStep, WriteStdout, counters, last, history, serverSide
  <2>2. ClientTypes' /\ ServerTypes'
    BY <2>1 DEF Inv, Types, ClientTypes, ServerTypes
  <2>3. first => pc \notin {"stdout", "stdin"}
    BY DEF Inv, Fresh
  <2> QED
    BY <2>1, <2>2, <2>3, NothingMoves DEF last, Reading
<1>2. CASE Register
  <2>1. /\ UNCHANGED << network, first, lag, actual, win, last_header,
               last_datagram, toClient, read, acked, registered, cd >>
        /\ pc = "start" /\ pc' = "receive"
        /\ toServer' = Append(toServer, ClientDgram)
    BY <1>2 DEF ClientStep, Register, counters, last, history, serverSide
  <2>2. /\ toServer' \in Seq(Ups)
        /\ \A j \in 1 .. Len(toServer') :
               \/ toServer'[j] = ClientDgram
               \/ \E k \in 1 .. Len(toServer) : toServer'[j] = toServer[k]
    BY <2>1, AppendSome, DgramTypes DEF Inv, Types, PathTypes
  <2>3. Types'
    BY <2>1, <2>2 DEF Inv, Types, ClientTypes, PathTypes, ServerTypes
  <2>4. Fresh' /\ Sent'
    BY <2>1, <2>2 DEF Inv, Fresh, Sent, Expected, ClientDgram
  <2>5. Ordered' => AcksRise' /\ Distance'
    BY <2>1 DEF Inv, Ordered, AcksRise, Distance, Reading, Types, ClientTypes
  <2> QED
    BY <2>3, <2>4, <2>5 DEF Inv
<1> QED
  BY <1>1, <1>2 DEF ClientStep

-----------------------------------------------------------------------------
(* DATA.  The second in a row repeats the last datagram, the first of the  *)
(* session numbers the uploads from 0, a later one lets the client read.   *)
LEMMA DataInv ==
    ASSUME Inv, NEW i \in Arriving(toClient), toClient' \in After(toClient, i),
           pc = "receive", HandleData(toClient[i]),
           UNCHANGED << network, serverSide >>
    PROVE  Inv'
<1> DEFINE m == toClient[i]
<1>1. /\ i \in 1 .. Len(toClient) /\ m \in Downs /\ m.type = "DATA"
      /\ Ordered => toClient' = Without(toClient, 1)
      /\ toClient \in Seq(Downs)
  BY Arrivals DEF HandleData, Inv, Types, PathTypes
<1>2. m.age \in 0 .. MaxAge /\ m.ack \in Nat /\ m.win \in 0 .. Widest
  BY <1>1 DEF Downs
<1>3. /\ UNCHANGED << network, registered, cd, Expected >>
      /\ win' = m.win
  BY DEF HandleData, serverSide, Expected
<1>4. /\ toClient' \in Seq(Downs)
      /\ \A j \in 1 .. Len(toClient') :
             \E k \in 1 .. Len(toClient) : toClient'[j] = toClient[k]
  BY <1>1, AfterSome
<1>5. /\ actual \in Nat /\ acked \in Nat /\ read \in Nat
      /\ lag \in 0 .. MaxAge + 2 /\ MaxAge \in Nat
      /\ last_datagram \in Seq(Ups) /\ Len(last_datagram) <= 1
      /\ toServer \in Seq(Ups)
  BY ClientAssumption DEF Inv, Types, ClientTypes, PathTypes
<1>6. ASSUME Ordered', acked' = acked PROVE AcksRise'
  <2>1. Ordered /\ AcksRise
    BY <1>3, <1>6 DEF Inv, Ordered
  <2>2. toClient' = Without(toClient, 1) /\ 1 \in 1 .. Len(toClient)
    BY <1>1, <2>1, Arrivals
  <2>3. \A j \in 1 .. Len(toClient') :
            toClient'[j].type = "ACK" => acked' < toClient'[j].ack
    BY <1>4, <1>6, <2>1 DEF AcksRise
  <2>4. ASSUME NEW j \in 1 .. Len(toClient'), NEW k \in 1 .. Len(toClient'),
               j < k, toClient'[j].type = "ACK", toClient'[k].type = "ACK"
        PROVE  toClient'[j].ack < toClient'[k].ack
    <3>1. PICK a \in 1 .. Len(toClient), b \in 1 .. Len(toClient) :
              a < b /\ toClient'[j] = toClient[a] /\ toClient'[k] = toClient[b]
      BY <1>1, <2>2, <2>4, KeepsOrder
    <3> QED
      BY <2>1, <2>4, <3>1 DEF AcksRise
  <2> QED
    BY <2>3, <2>4 DEF AcksRise
<1>7. CASE last_header = "DATA"
  <2>1. /\ toServer' = toServer \o last_datagram
        /\ pc' \in {"stopped", "receive"} /\ ~ first
        /\ UNCHANGED << first, lag, actual, last_header, last_datagram, read,
               acked >>
    BY <1>7 DEF HandleData, ResendLast, last, Inv, Fresh
  <2>2. /\ toServer' \in Seq(Ups)
        /\ \A j \in 1 .. Len(toServer') :
               \/ \E k \in 1 .. Len(toServer) : toServer'[j] = toServer[k]
               \/ \E k \in 1 .. Len(last_datagram) :
                      toServer'[j] = last_datagram[k]
    BY <1>5, <2>1, ConcatSome
  <2>3. Types'
    BY <1>2, <1>3, <1>4, <2>1, <2>2
       DEF Inv, Types, ClientTypes, PathTypes, ServerTypes
  <2>4. Fresh'
    BY <2>1 DEF Fresh
  <2>5. Sent'
    <3>1. /\ Expected' = Expected /\ actual' = actual /\ acked' = acked
          /\ last_datagram' = last_datagram
      BY <1>3, <2>1
    <3>2. ASSUME NEW j \in 1 .. Len(toServer'), toServer'[j].type = "UPLOAD"
          PROVE  toServer'[j].nr < actual
      BY <2>2, <3>2 DEF Inv, Sent
    <3>3. ASSUME NEW j \in 1 .. Len(toClient')
          PROVE  toClient'[j].ack <= Expected
      BY <1>4 DEF Inv, Sent
    <3> QED
      BY <3>1, <3>2, <3>3 DEF Inv, Sent
  <2>6. Ordered' => Distance'
    BY <1>3, <1>5, <2>1 DEF Inv, Ordered, Distance, Reading
  <2> QED
    BY <1>6, <2>1, <2>3, <2>4, <2>5, <2>6 DEF Inv
<1>8. CASE last_header # "DATA" /\ first
  <2>1. /\ lag' = m.age /\ actual' = m.ack /\ acked' = m.ack
        /\ last_header' = "CLIENT" /\ last_datagram' = << ClientDgram >>
        /\ first' = FALSE /\ pc' = "stdout"
        /\ UNCHANGED << toServer, read >>
    BY <1>8 DEF HandleData, FirstData
  <2>2. actual' = actual /\ acked' = acked /\ acked = 0 /\ actual = 0
    BY <1>1, <1>8, <2>1 DEF Inv, Fresh
  <2>3. last_datagram' \in Seq(Ups) /\ Len(last_datagram') = 1
        /\ last_datagram'[1].type = "CLIENT"
    BY <2>1, DgramTypes DEF ClientDgram
  <2>4. lag' \in 0 .. MaxAge + 2
    BY <1>2, <1>5, <2>1
  <2>5. Types'
    <3>1. /\ pc' = "stdout" /\ first' = FALSE /\ last_header' = "CLIENT"
          /\ read' = read /\ toServer' = toServer
      BY <2>1
    <3>2. win' \in 0 .. Widest /\ Len(last_datagram') <= 1
          /\ actual' \in Nat /\ acked' \in Nat /\ read' \in Nat
      BY <1>2, <1>3, <1>5, <2>2, <2>3, <3>1
    <3>3. ClientTypes'
      BY <2>3, <2>4, <3>1, <3>2 DEF ClientTypes
    <3>4. PathTypes' /\ ServerTypes'
      BY <1>3, <1>4, <3>1 DEF Inv, Types, PathTypes, ServerTypes
    <3> QED
      BY <3>3, <3>4 DEF Types
  <2>6. Fresh'
    BY <2>1 DEF Fresh
  <2>7. Sent'
    BY <1>3, <1>4, <2>1, <2>2, <2>3 DEF Inv, Sent
  <2>8. Distance'
    BY <2>1, <2>2 DEF Distance, Reading
  <2> QED
    BY <1>6, <2>2, <2>5, <2>6, <2>7, <2>8 DEF Inv
<1>9. CASE last_header # "DATA" /\ ~ first
  <2>1. /\ last_header' = "DATA" /\ pc' \in {"receive", "stdout"}
        /\ lag' \in {lag, m.age}
        /\ UNCHANGED << first, actual, last_datagram, toServer, read, acked >>
    BY <1>9 DEF HandleData, NextData
  <2>2. lag' \in 0 .. MaxAge + 2
    BY <1>2, <1>5, <2>1
  <2>3. Types'
    BY <1>2, <1>3, <1>4, <2>1, <2>2
       DEF Inv, Types, ClientTypes, PathTypes, ServerTypes
  <2>4. Fresh' /\ Sent'
    BY <1>3, <1>4, <1>9, <2>1 DEF Inv, Fresh, Sent
  <2>5. Ordered' => Distance'
    <3>1. ASSUME Ordered PROVE actual <= acked + 1
      BY <1>5, <1>9, <3>1 DEF Inv, Types, ClientTypes, Distance
    <3> QED
      BY <1>3, <1>5, <2>1, <3>1 DEF Ordered, Distance, Reading
  <2> QED
    BY <1>6, <2>1, <2>3, <2>4, <2>5 DEF Inv
<1> QED
  BY <1>7, <1>8, <1>9

(* ACK: on a path that keeps order it is above the last one, and the ones  *)
(* still under way are above it.                                           *)
LEMMA AckInv ==
    ASSUME Inv, NEW i \in Arriving(toClient), toClient' \in After(toClient, i),
           pc = "receive", HandleAck(toClient[i]),
           UNCHANGED << network, serverSide >>
    PROVE  Inv'
<1> DEFINE m == toClient[i]
<1>1. /\ i \in 1 .. Len(toClient) /\ m \in Downs /\ m.type = "ACK"
      /\ Ordered => i = 1 /\ toClient' = Without(toClient, 1)
      /\ toClient \in Seq(Downs)
  BY Arrivals DEF HandleAck, Inv, Types, PathTypes
<1>2. m.ack \in Nat /\ m.win \in 0 .. Widest /\ m.ack <= Expected
  BY <1>1 DEF Downs, Inv, Sent
<1>3. ~ first
  BY <1>1 DEF Inv, Fresh
<1>4. /\ UNCHANGED << network, registered, cd, Expected, toServer, lag, actual,
             last_datagram, read >>
      /\ win' = m.win /\ last_header' = "ACK" /\ first' = FALSE
      /\ pc' = "receive" /\ acked' = m.ack
  BY <1>3 DEF HandleAck, serverSide, Expected
<1>5. /\ toClient' \in Seq(Downs)
      /\ \A j \in 1 .. Len(toClient') :
             \E k \in 1 .. Len(toClient) : toClient'[j] = toClient[k]
  BY <1>1, AfterSome
<1>6. Types'
  BY <1>2, <1>4, <1>5 DEF Inv, Types, ClientTypes, PathTypes, ServerTypes
<1>7. Fresh' /\ Sent'
  BY <1>2, <1>4, <1>5 DEF Inv, Fresh, Sent
<1>8. ASSUME Ordered' PROVE AcksRise' /\ Distance'
  <2>1. Ordered /\ AcksRise /\ Distance
    BY <1>4, <1>8 DEF Inv, Ordered
  <2>2. toClient' = Without(toClient, 1) /\ i = 1 /\ 1 \in 1 .. Len(toClient)
    BY <1>1, <2>1
  <2>3. ASSUME NEW j \in 1 .. Len(toClient'), toClient'[j].type = "ACK"
        PROVE  m.ack < toClient'[j].ack
    <3>1. /\ Len(toClient) \in Nat /\ j \in 1 .. Len(toClient) - 1
          /\ toClient'[j] = toClient[j + 1]
      BY <1>1, <2>2, WithoutTyped
    <3>2. j + 1 \in 1 .. Len(toClient) /\ 1 < j + 1
      BY <3>1
    <3> QED
      BY <1>1, <2>1, <2>2, <2>3, <3>1, <3>2 DEF AcksRise
  <2>4. ASSUME NEW j \in 1 .. Len(toClient'), NEW k \in 1 .. Len(toClient'),
               j < k, toClient'[j].type = "ACK", toClient'[k].type = "ACK"
        PROVE  toClient'[j].ack < toClient'[k].ack
    <3>1. PICK a \in 1 .. Len(toClient), b \in 1 .. Len(toClient) :
              a < b /\ toClient'[j] = toClient[a] /\ toClient'[k] = toClient[b]
      BY <1>1, <2>2, <2>4, KeepsOrder
    <3> QED
      BY <2>1, <2>4, <3>1 DEF AcksRise
  <2>5. AcksRise'
    BY <1>4, <2>3, <2>4 DEF AcksRise
  <2>6. acked < m.ack /\ actual <= acked + 2
    <3>1. acked \in Nat /\ actual \in Nat
      BY DEF Inv, Types, ClientTypes
    <3>2. actual <= acked + 2
      BY <1>3, <2>1, <3>1 DEF Distance, Inv, Types, ClientTypes
    <3> QED
      BY <1>1, <2>1, <3>2 DEF AcksRise
  <2>7. actual <= m.ack + 1
    BY <1>2, <2>6 DEF Inv, Types, ClientTypes
  <2> QED
    BY <1>4, <2>5, <2>7 DEF Distance, Reading
<1> QED
  BY <1>6, <1>7, <1>8 DEF Inv

LEMMA ClientReceiveInv == Inv /\ ClientReceive => Inv'
BY DataInv, AckInv DEF ClientReceive

LEMMA ClientReadInv == Inv /\ ClientRead => Inv'
<1> SUFFICES ASSUME Inv, ClientRead PROVE Inv'
  OBVIOUS
<1>1. PICK n \in ChunkSizes : ReadStdin(n)
  BY DEF ClientRead
<1> DEFINE body   == [i \in 1 .. n |-> read + i]
           upload == UploadDgram(actual, body)
<1>2. /\ UNCHANGED << network, registered, cd, Expected, first, lag, win,
             last_header, toClient, acked >>
      /\ pc = "stdin" /\ pc' = "receive"
      /\ actual' = actual + 1 /\ read' = read + n
      /\ last_datagram' = << upload >>
      /\ toServer' = Append(toServer, upload)
  BY <1>1 DEF ClientRead, ReadStdin, serverSide, Expected
<1>3. /\ n \in Nat /\ actual \in Nat /\ read \in Nat /\ acked \in Nat
      /\ Expected \in Nat
  BY ClientAssumption, Fields
     DEF Inv, Types, ClientTypes, ServerTypes, Expected
<1>4. body \in Seq(Nat)
  BY <1>3
<1> HIDE DEF body
<1>5. upload \in Ups /\ upload.type = "UPLOAD" /\ upload.nr = actual
  BY <1>3, <1>4, DgramTypes
<1> HIDE DEF upload
<1>6. /\ toServer' \in Seq(Ups)
      /\ \A j \in 1 .. Len(toServer') :
             \/ toServer'[j] = upload
             \/ \E k \in 1 .. Len(toServer) : toServer'[j] = toServer[k]
  BY <1>2, <1>5, AppendSome DEF Inv, Types, PathTypes
<1>7. /\ last_datagram' \in Seq(Ups) /\ Len(last_datagram') = 1
      /\ last_datagram'[1] = upload
  BY <1>2, <1>5
<1>8. Types'
  BY <1>2, <1>3, <1>6, <1>7 DEF Inv, Types, ClientTypes, PathTypes, ServerTypes
<1>9. ~ first
  BY <1>2 DEF Inv, Fresh
<1>10. Fresh'
  BY <1>2, <1>9 DEF Fresh
<1>11. Sent'
  <2>1. /\ Expected' <= actual' /\ acked' <= Expected'
        /\ \A j \in 1 .. Len(toClient') : toClient'[j].ack <= Expected'
    BY <1>2, <1>3 DEF Inv, Sent
  <2>2. ASSUME NEW j \in 1 .. Len(toServer'), toServer'[j].type = "UPLOAD"
        PROVE  toServer'[j].nr < actual'
    <3>1. CASE toServer'[j] = upload
      BY <1>2, <1>3, <1>5, <3>1
    <3>2. CASE \E k \in 1 .. Len(toServer) : toServer'[j] = toServer[k]
      <4>1. PICK k \in 1 .. Len(toServer) : toServer'[j] = toServer[k]
        BY <3>2
      <4>2. toServer[k].nr < actual /\ toServer[k] \in Ups
        BY <2>2, <4>1, ElementOfSeq DEF Inv, Sent, Types, PathTypes
      <4>3. toServer[k].nr \in Nat
        BY <2>2, <4>1, <4>2 DEF Ups, ClientDgram
      <4> QED
        BY <1>2, <1>3, <4>1, <4>2, <4>3
    <3> QED
      BY <1>6, <3>1, <3>2
  <2>3. \A j \in 1 .. Len(last_datagram') : last_datagram'[j].nr < actual'
    BY <1>2, <1>3, <1>5, <1>7
  <2> QED
    BY <2>1, <2>2, <2>3 DEF Sent
<1>12. ASSUME Ordered' PROVE AcksRise' /\ Distance'
  <2>1. AcksRise /\ Distance
    BY <1>2, <1>12 DEF Inv, Ordered
  <2>2. AcksRise'
    BY <1>2, <2>1 DEF AcksRise
  <2>3. Distance'
    BY <1>2, <1>3, <2>1 DEF Distance, Reading
  <2> QED
    BY <2>2, <2>3
<1> QED
  BY <1>8, <1>10, <1>11, <1>12 DEF Inv

-----------------------------------------------------------------------------
(* What the client knows of does not change, its channel may lose.         *)
LEMMA ClientKept ==
    ASSUME Inv,
           UNCHANGED << network, pc, first, actual, win, last, read, acked >>,
           lag' \in 0 .. MaxAge + 2
    PROVE  ClientTypes' /\ (Ordered' => Distance')
<1>1. UNCHANGED << last_header, last_datagram >>
  BY DEF last
<1>2. ClientTypes'
  BY <1>1 DEF Inv, Types, ClientTypes
<1>3. Ordered' => Distance'
  BY <1>1 DEF Inv, Ordered, Distance, Reading
<1> QED
  BY <1>2, <1>3

LEMMA ServerReceiveInv == Inv /\ ServerReceive => Inv'
<1> SUFFICES ASSUME Inv, ServerReceive PROVE Inv'
  OBVIOUS
<1>1. PICK i \in Arriving(toServer) :
          /\ toServer' \in After(toServer, i)
          /\ \/ toServer[i].type = "CLIENT" /\ RegisterClient
             \/ /\ toServer[i].type = "UPLOAD"
                /\ AcceptUpload(toServer[i]) \/ DropUpload(toServer[i])
  BY DEF ServerReceive
<1> DEFINE m == toServer[i]
<1>2. /\ UNCHANGED << network, pc, first, lag, actual, win, last,
             last_datagram, read, acked >>
  BY DEF ServerReceive, counters, last, history
<1>3. m \in Ups /\ i \in 1 .. Len(toServer) /\ toServer \in Seq(Ups)
  BY <1>1, Arrivals DEF Inv, Types, PathTypes
<1>4. /\ toServer' \in Seq(Ups)
      /\ \A j \in 1 .. Len(toServer') :
             \E k \in 1 .. Len(toServer) : toServer'[j] = toServer[k]
  BY <1>1, <1>3, AfterSome
<1>5. ClientTypes' /\ (Ordered' => Distance')
  BY <1>2, ClientKept DEF Inv, Types, ClientTypes
<1>6. /\ \A j \in 1 .. Len(toServer') :
             toServer'[j].type = "UPLOAD" => toServer'[j].nr < actual'
      /\ \A j \in 1 .. Len(last_datagram') :
             last_datagram'[j].type = "UPLOAD" => last_datagram'[j].nr < actual'
  BY <1>2, <1>4 DEF Inv, Sent
<1>7. CASE UNCHANGED << toClient, cd >> /\ registered' \in BOOLEAN
  <2>1. Expected' = Expected
    BY <1>7 DEF Expected
  <2>2. PathTypes' /\ ServerTypes'
    BY <1>2, <1>4, <1>7 DEF Inv, Types, PathTypes, ServerTypes
  <2>3. Fresh' /\ Sent'
    BY <1>2, <1>6, <1>7, <2>1 DEF Inv, Fresh, Sent, last
  <2>4. Ordered' => AcksRise'
    BY <1>2, <1>7 DEF Inv, Ordered, AcksRise
  <2> QED
    BY <1>5, <2>2, <2>3, <2>4 DEF Inv, Types
<1>8. CASE m.type = "UPLOAD" /\ AcceptUpload(m)
  <2> DEFINE body == Fitting(m.body)
             a    == AckDgram(m.nr + 1, GetAvailableSize(cd'))
  <2>1. /\ m.nr = Expected /\ cd' = AfterUpload(cd, body)
        /\ toClient' = Append(toClient, a) /\ registered' = registered
    BY <1>8 DEF AcceptUpload, Expected
  <2>2. m.nr \in Nat /\ m.body \in Seq(Nat) /\ m.nr < actual
    BY <1>3, <1>8 DEF Ups, ClientDgram, Inv, Sent
  <2>3. body \in Seq(Nat) /\ Len(body) <= MaxQueueLength
    BY <2>2, FittingFits
  <2> HIDE DEF body
  <2>4. cd' \in ObjectsOf({"client"}, Nat) /\ Expected' = Expected + 1
    BY <2>1, <2>3, UploadObject DEF Expected, Inv, Types, ServerTypes
  <2>5. a \in Downs /\ a.type = "ACK" /\ a.ack = Expected + 1
    <3>1. GetAvailableSize(cd') \in 0 .. Widest
      BY <2>4, WindowFits
    <3> QED
      BY <2>1, <2>2, <3>1, DgramTypes
  <2> HIDE DEF a
  <2>6. toClient \in Seq(Downs) /\ Expected \in Nat /\ actual \in Nat
        /\ acked \in Nat
    BY <2>1, <2>2 DEF Inv, Types, ClientTypes, PathTypes
  <2>7. /\ toClient' \in Seq(Downs) /\ Len(toClient) \in Nat
        /\ Len(toClient') = Len(toClient) + 1
        /\ \A j \in 1 .. Len(toClient) + 1 :
               toClient'[j] = IF j <= Len(toClient) THEN toClient[j] ELSE a
    BY <2>1, <2>5, <2>6, AppendTyped
  <2>8. PathTypes' /\ ServerTypes'
    BY <1>2, <1>4, <2>1, <2>4, <2>7 DEF Inv, Types, PathTypes, ServerTypes
  <2>9. ~ first
    BY <2>2, <2>6 DEF Inv, Fresh
  <2>10. Fresh'
    BY <1>2, <2>9 DEF Fresh
  <2>11. \A j \in 1 .. Len(toClient') : toClient'[j].ack <= Expected'
    <3>1. ASSUME NEW j \in 1 .. Len(toClient) + 1
          PROVE  toClient'[j].ack <= Expected + 1
      <4>1. CASE j <= Len(toClient)
        <5>1. toClient'[j] = toClient[j] /\ j \in 1 .. Len(toClient)
          BY <2>7, <4>1
        <5>2. toClient[j] \in Downs /\ toClient[j].ack <= Expected
          BY <2>6, <5>1, ElementOfSeq DEF Inv, Sent
        <5>3. toClient[j].ack \in Nat
          BY <5>2 DEF Downs
        <5> QED
          BY <2>6, <5>1, <5>2, <5>3
      <4>2. CASE ~ (j <= Len(toClient))
        BY <2>5, <2>6, <2>7, <4>2
      <4> QED
        BY <4>1, <4>2
    <3> QED
      BY <2>4, <2>7, <3>1
  <2>12. Expected' <= actual' /\ acked' <= Expected'
    BY <1>2, <2>1, <2>2, <2>4, <2>6 DEF Inv, Sent
  <2>13. Sent'
    BY <1>6, <2>11, <2>12 DEF Sent
  <2>14. ASSUME Ordered' PROVE AcksRise'
    <3>1. AcksRise
      BY <1>2, <2>14 DEF Inv, Ordered
    <3>2. \A j \in 1 .. Len(toClient') :
              toClient'[j].type = "ACK" => acked' < toClient'[j].ack
      <4>1. acked' = acked /\ acked < Expected + 1
        BY <1>2, <2>6 DEF Inv, Sent
      <4>2. \A j \in 1 .. Len(toClient) + 1 :
                j \in 1 .. Len(toClient) \/ toClient'[j] = a
        BY <2>7
      <4> QED
        BY <2>5, <2>7, <3>1, <4>1, <4>2 DEF AcksRise
    <3>3. ASSUME NEW j \in 1 .. Len(toClient'), NEW k \in 1 .. Len(toClient'),
                 j < k, toClient'[j].type = "ACK", toClient'[k].type = "ACK"
          PROVE  toClient'[j].ack < toClient'[k].ack
      <4>1. j \in 1 .. Len(toClient) /\ toClient'[j] = toClient[j]
        BY <2>7, <3>3
      <4>2. CASE k \in 1 .. Len(toClient)
        BY <2>7, <3>1, <3>3, <4>1, <4>2 DEF AcksRise
      <4>3. CASE k \notin 1 .. Len(toClient)
        <5>1. toClient'[k].ack = Expected + 1
          BY <2>5, <2>7, <3>3, <4>3
        <5>2. toClient[j] \in Downs /\ toClient[j].ack <= Expected
          BY <2>6, <4>1, ElementOfSeq DEF Inv, Sent
        <5>3. toClient[j].ack \in Nat
          BY <5>2 DEF Downs
        <5> QED
          BY <2>6, <4>1, <5>1, <5>2, <5>3
      <4> QED
        BY <4>2, <4>3
    <3> QED
      BY <3>2, <3>3 DEF AcksRise
  <2> QED
    BY <1>5, <2>8, <2>10, <2>13, <2>14 DEF Inv, Types
<1> QED
  BY <1>1, <1>7, <1>8 DEF RegisterClient, DropUpload, serverSide, Inv, Types,
     ServerTypes

LEMMA AgedTyped ==
    ASSUME NEW s \in Seq(Downs),
           \A i \in 1 .. Len(s) : s[i].type = "DATA" => s[i].age < MaxAge
    PROVE  /\ Aged(s) \in Seq(Downs)
           /\ Len(Aged(s)) = Len(s)
           /\ \A i \in 1 .. Len(s) : /\ Aged(s)[i].type = s[i].type
                                     /\ Aged(s)[i].ack = s[i].ack
                                     /\ Aged(s)[i].win = s[i].win
<1>1. Len(s) \in Nat /\ DOMAIN s = 1 .. Len(s)
  OBVIOUS
<1>2. ASSUME NEW i \in 1 .. Len(s)
      PROVE  /\ Aged(s)[i] \in Downs
             /\ Aged(s)[i].type = s[i].type /\ Aged(s)[i].ack = s[i].ack
             /\ Aged(s)[i].win = s[i].win
  <2>1. s[i] \in Downs
    BY ElementOfSeq
  <2>2. Aged(s)[i] = IF s[i].type = "DATA" THEN [s[i] EXCEPT !.age = @ + 1]
                                           ELSE s[i]
    BY <1>1 DEF Aged
  <2>3. CASE s[i].type = "DATA"
    <3>1. s[i] \in [type : {"DATA"}, age : 0 .. MaxAge, ack : Nat,
                    win : 0 .. Widest]
      BY <2>1, <2>3 DEF Downs
    <3>2. s[i].age + 1 \in 0 .. MaxAge
      BY <2>3, <3>1, ClientAssumption
    <3> QED
      BY <2>2, <2>3, <3>1, <3>2 DEF Downs
  <2>4. CASE s[i].type # "DATA"
    BY <2>1, <2>2, <2>4
  <2> QED
    BY <2>3, <2>4
<1>3. Aged(s) \in [1 .. Len(s) -> Downs]
  BY <1>1, <1>2 DEF Aged
<1>4. Aged(s) \in Seq(Downs) /\ Len(Aged(s)) = Len(s)
  BY <1>1, <1>3, SeqDef, LenProperties
<1> QED
  BY <1>2, <1>4

(* A tick of the mixer leaves an object with the same expected number.     *)
LEMMA TickObject ==
    ASSUME cd \in ObjectsOf({"client"}, Nat),
           cd' = IF RateQueueState(cd) = "ACTIVE"
                 THEN AfterMixery(cd, 2 * MixSamples) ELSE cd
    PROVE  cd' \in ObjectsOf({"client"}, Nat) /\ Expected' = Expected
<1>1. MixSamples \in Nat
  BY SessionAssumption
<1>2. /\ AfterMixery(cd, 2 * MixSamples) \in ObjectsOf({"client"}, Nat)
      /\ AfterMixery(cd, 2 * MixSamples).expected_client_datagram_nr = Expected
  BY <1>1, MixeryObject DEF Expected
<1>3. CASE RateQueueState(cd) = "ACTIVE"
  <2>1. cd' = AfterMixery(cd, 2 * MixSamples)
    BY <1>3
  <2> QED
    BY <1>2, <2>1 DEF Expected
<1>4. CASE RateQueueState(cd) # "ACTIVE"
  <2>1. cd' = cd
    BY <1>4
  <2> QED
    BY <2>1 DEF Expected
<1> QED
  BY <1>3, <1>4

(* A tick adds at most one DATA, with the number expected now.             *)
LEMMA MixerInv == Inv /\ Mixer => Inv'
<1> SUFFICES ASSUME Inv, Mixer PROVE Inv'
  OBVIOUS
<1> DEFINE aged == Aged(toClient)
           d    == DataDgram(Expected, GetAvailableSize(cd'))
<1>1. /\ UNCHANGED << network, pc, first, actual, win, last, last_header,
             last_datagram, toServer, read, acked, registered >>
      /\ cd' = IF RateQueueState(cd) = "ACTIVE"
               THEN AfterMixery(cd, 2 * MixSamples) ELSE cd
      /\ toClient' = aged \/ toClient' = Append(aged, d)
      /\ lag' = Smaller(lag + 1, MaxAge + 2)
      /\ \A i \in DataInFlight : toClient[i].age < MaxAge
  BY DEF Mixer, history, last, Expected
<1>2. /\ cd \in ObjectsOf({"client"}, Nat) /\ toClient \in Seq(Downs)
      /\ lag \in 0 .. MaxAge + 2 /\ MixSamples \in Nat /\ MaxAge \in Nat
  BY SessionAssumption, ClientAssumption
     DEF Inv, Types, ClientTypes, PathTypes, ServerTypes
<1>3. cd' \in ObjectsOf({"client"}, Nat) /\ Expected' = Expected
  BY <1>1, <1>2, TickObject
<1>4. Expected \in Nat
  BY <1>2, Fields DEF Expected
<1>5. \A i \in 1 .. Len(toClient) :
          toClient[i].type = "DATA" => toClient[i].age < MaxAge
  BY <1>1, <1>2 DEF DataInFlight
<1>6. /\ aged \in Seq(Downs) /\ Len(aged) = Len(toClient)
      /\ \A i \in 1 .. Len(toClient) :
             aged[i].type = toClient[i].type /\ aged[i].ack = toClient[i].ack
  BY <1>2, <1>5, AgedTyped
<1> HIDE DEF aged
<1>7. d \in Downs /\ d.type = "DATA" /\ d.ack = Expected
  BY <1>3, <1>4, WindowFits, DgramTypes
<1> HIDE DEF d
<1>8. /\ toClient' \in Seq(Downs) /\ Len(toClient) \in Nat
      /\ Len(toClient') \in {Len(toClient), Len(toClient) + 1}
      /\ \A i \in 1 .. Len(toClient') :
             \/ i \in 1 .. Len(toClient) /\ toClient'[i].type = toClient[i].type
                /\ toClient'[i].ack = toClient[i].ack
             \/ toClient'[i] = d
  <2>1. CASE toClient' = aged
    BY <1>2, <1>6, <2>1
  <2>2. CASE toClient' = Append(aged, d)
    <3>1. /\ toClient' \in Seq(Downs) /\ Len(toClient') = Len(toClient) + 1
          /\ \A i \in 1 .. Len(toClient) + 1 :
                 toClient'[i] = IF i <= Len(toClient) THEN aged[i] ELSE d
      BY <1>6, <1>7, <2>2, AppendTyped
    <3>2. Len(toClient) \in Nat
      BY <1>2
    <3> QED
      BY <1>6, <3>1, <3>2
  <2> QED
    BY <1>1, <2>1, <2>2
<1>9. lag' \in 0 .. MaxAge + 2
  BY <1>1, <1>2 DEF Smaller
<1>10. Types' /\ (Ordered' => Distance')
  BY <1>1, <1>3, <1>8, <1>9, ClientKept
     DEF Inv, Types, PathTypes, ServerTypes
<1>11. Fresh'
  <2>1. first => /\ Expected = 0
                 /\ \A i \in 1 .. Len(toClient) :
                        toClient[i].type = "DATA" /\ toClient[i].ack = 0
    BY DEF Inv, Fresh
  <2>2. first => \A i \in 1 .. Len(toClient') :
                     toClient'[i].type = "DATA" /\ toClient'[i].ack = 0
    BY <1>7, <1>8, <2>1
  <2> QED
    BY <1>1, <1>3, <2>2 DEF Inv, Fresh
<1>12. Sent'
  <2>1. \A i \in 1 .. Len(toClient') : toClient'[i].ack <= Expected
    BY <1>4, <1>7, <1>8 DEF Inv, Sent
  <2> QED
    BY <1>1, <1>3, <2>1 DEF Inv, Sent
<1>13. ASSUME Ordered' PROVE AcksRise'
  <2>1. AcksRise
    BY <1>1, <1>13 DEF Inv, Ordered
  <2>2. \A i \in 1 .. Len(toClient') : toClient'[i].type = "ACK" =>
            /\ i \in 1 .. Len(toClient) /\ toClient[i].type = "ACK"
            /\ toClient'[i].ack = toClient[i].ack
    BY <1>7, <1>8
  <2> QED
    BY <1>1, <2>1, <2>2 DEF AcksRise
<1> QED
  BY <1>10, <1>11, <1>12, <1>13 DEF Inv

LEMMA LoseInv == Inv /\ Lose => Inv'
<1> SUFFICES ASSUME Inv, Lose PROVE Inv'
  OBVIOUS
<1>1. /\ UNCHANGED << network, pc, first, lag, actual, win, last, last_header,
             last_datagram, read, acked, registered, cd, Expected >>
      /\ toServer \in Seq(Ups) /\ toClient \in Seq(Downs)
      /\ DOMAIN toServer = 1 .. Len(toServer)
      /\ DOMAIN toClient = 1 .. Len(toClient)
  BY DEF Lose, counters, history, last, serverSide, Expected, Inv, Types,
     PathTypes
<1>2. ServerTypes' /\ ClientTypes' /\ (Ordered' => Distance')
  BY <1>1, ClientKept DEF Inv, Types, ClientTypes, ServerTypes
<1>3. CASE UNCHANGED toClient /\ \E i \in DOMAIN toServer :
                                     toServer' = Without(toServer, i)
  <2>1. /\ toServer' \in Seq(Ups)
        /\ \A j \in 1 .. Len(toServer') :
               \E k \in 1 .. Len(toServer) : toServer'[j] = toServer[k]
    BY <1>1, <1>3, WithoutSome
  <2>2. PathTypes' /\ Fresh' /\ Sent'
    BY <1>1, <1>3, <2>1 DEF Inv, Types, PathTypes, Fresh, Sent
  <2>3. Ordered' => AcksRise'
    BY <1>1, <1>3 DEF Inv, Ordered, AcksRise
  <2> QED
    BY <1>2, <2>2, <2>3 DEF Inv, Types
<1>4. CASE UNCHANGED toServer /\ \E i \in DOMAIN toClient :
                                     toClient' = Without(toClient, i)
  <2>1. PICK i \in 1 .. Len(toClient) : toClient' = Without(toClient, i)
    BY <1>1, <1>4
  <2>2. /\ toClient' \in Seq(Downs)
        /\ \A j \in 1 .. Len(toClient') :
               \E k \in 1 .. Len(toClient) : toClient'[j] = toClient[k]
    BY <1>1, <2>1, WithoutSome
  <2>3. PathTypes' /\ Fresh' /\ Sent'
    BY <1>1, <1>4, <2>2 DEF Inv, Types, PathTypes, Fresh, Sent
  <2>4. ASSUME Ordered' PROVE AcksRise'
    <3>1. AcksRise
      BY <1>1, <2>4 DEF Inv, Ordered
    <3>2. \A j \in 1 .. Len(toClient') :
              toClient'[j].type = "ACK" => acked' < toClient'[j].ack
      BY <1>1, <2>2, <3>1 DEF AcksRise
    <3>3. ASSUME NEW j \in 1 .. Len(toClient'), NEW k \in 1 .. Len(toClient'),
                 j < k, toClient'[j].type = "ACK", toClient'[k].type = "ACK"
          PROVE  toClient'[j].ack < toClient'[k].ack
      <4>1. PICK a \in 1 .. Len(toClient), b \in 1 .. Len(toClient) :
                a < b /\ toClient'[j] = toClient[a] /\ toClient'[k] = toClient[b]
        BY <1>1, <2>1, <3>3, KeepsOrder
      <4> QED
        BY <3>1, <3>3, <4>1 DEF AcksRise
    <3> QED
      BY <3>2, <3>3 DEF AcksRise
  <2> QED
    BY <1>2, <2>3, <2>4 DEF Inv, Types
<1> QED
  BY <1>3, <1>4 DEF Lose

(* Inv holds in every reachable state.                                     *)
THEOREM Invariance == Spec => []Inv
<1>1. Init => Inv
  BY InitInv
<1>2. Inv /\ [Next]_vars => Inv'
  <2> SUFFICES ASSUME Inv, [Next]_vars PROVE Inv'
    OBVIOUS
  <2>1. CASE Next
    BY <2>1, ClientStepInv, ClientReceiveInv, ClientReadInv, ClientEndsInv,
       ServerReceiveInv, MixerInv, LoseInv DEF Next
  <2>2. CASE UNCHANGED vars
    <3>1. /\ UNCHANGED << network, pc, first, lag, actual, win, last_header,
                 last_datagram, toServer, toClient, read, acked, registered,
                 cd >>
      BY <2>2 DEF vars, clientVars, counters, last, history, serverSide
    <3>2. ClientTypes' /\ ServerTypes'
      BY <3>1 DEF Inv, Types, ClientTypes, ServerTypes
    <3>3. first => pc' \notin {"stdout", "stdin"}
      BY <3>1 DEF Inv, Fresh
    <3> QED
      BY <3>1, <3>2, <3>3, NothingMoves DEF last, Reading
  <2> QED
    BY <2>1, <2>2
<1> QED
  BY <1>1, <1>2, PTL DEF Spec

-----------------------------------------------------------------------------
(* The types of a session's state, for any window, FIFO and path.          *)
THEOREM TypeCorrect == Spec => []TypeOK
<1>1. Inv => TypeOK
  <2> SUFFICES ASSUME Inv PROVE TypeOK
    OBVIOUS
  <2>1. Types
    BY DEF Inv
  <2>2. \A i \in DOMAIN toServer : toServer[i].type \in {"CLIENT", "UPLOAD"}
    BY <2>1, ElementOfSeq DEF Types, PathTypes, Ups, ClientDgram
  <2>3. \A i \in DOMAIN toClient : toClient[i].type \in {"DATA", "ACK"}
    BY <2>1, ElementOfSeq DEF Types, PathTypes, Downs
  <2>4. cd.queue_size = Len(cd.queue) /\ cd.queue_size <= MaxQueueLength
    BY <2>1, Fields DEF Types, ServerTypes
  <2> QED
    BY <2>1, <2>2, <2>3, <2>4
       DEF TypeOK, Types, ClientTypes, ServerTypes, Widest
<1> QED
  BY <1>1, Invariance, PTL

(* Where the next UPLOAD is at, and on a path that keeps order how far the *)
(* client is ahead of the last ACK (client.cc:457, 494).                   *)
THEOREM TwoAheadAtMost == Spec => []AtMostTwoAhead
<1>1. Inv => AtMostTwoAhead
  <2> SUFFICES ASSUME Inv PROVE AtMostTwoAhead
    OBVIOUS
  <2>1. actual \in Nat /\ acked \in Nat
        /\ last_header \in {"none", "CLIENT", "DATA", "ACK"}
    BY DEF Inv, Types, ClientTypes
  <2>2. Expected <= actual
    BY DEF Inv, Sent
  <2>3. ASSUME Ordered PROVE actual <= acked + 2
    <3>1. CASE first
      BY <2>1, <3>1 DEF Inv, Fresh
    <3>2. CASE ~ first
      BY <2>1, <2>3, <3>2 DEF Inv, Distance
    <3> QED
      BY <3>1, <3>2
  <2> QED
    BY <2>2, <2>3 DEF AtMostTwoAhead, Expected
<1> QED
  BY <1>1, Invariance, PTL

(* Every step of a session on a path that keeps order is a step of Uplink  *)
(* or changes none of its numbers: reading stdin sends, a datagram with    *)
(* the expected number is accepted, handling an ACK learns.                *)
THEOREM UplinkImplemented == Spec => ImplementsUplink
<1>1. Init => Link!UplinkInit
  BY DEF Init, ClientInit, NewClientData, Link!UplinkInit
<1>2. Inv /\ Inv' /\ [Next]_vars => [Ordered => Link!UplinkNext]_(Link!uplink)
  <2> SUFFICES ASSUME Inv, Inv', Next, Ordered
               PROVE  Link!UplinkNext \/ UNCHANGED << actual, Expected, acked >>
    <3>1. UNCHANGED vars => UNCHANGED << actual, Expected, acked >>
      BY DEF vars, clientVars, counters, history, serverSide, Expected
    <3>2. UNCHANGED << actual, Expected, acked >> => UNCHANGED (Link!uplink)
      BY DEF Link!uplink, Expected
    <3> QED
      BY <3>1, <3>2
  <2>1. actual \in Nat /\ acked \in Nat /\ Expected \in Nat
    BY Fields DEF Inv, Types, ClientTypes, ServerTypes, Expected
  <2>2. CASE ClientStep \/ ClientEnds
    BY <2>2 DEF ClientStep, ClientEnds, Register, WriteStdout, StreamEnds,
       counters, history, serverSide, Expected
  <2>3. CASE ClientReceive
    <3>1. PICK i \in Arriving(toClient) :
              HandleData(toClient[i]) \/ HandleAck(toClient[i])
      BY <2>3 DEF ClientReceive
    <3>2. Expected' = Expected /\ cd' = cd
      BY <2>3 DEF ClientReceive, serverSide, Expected
    <3>3. i \in 1 .. Len(toClient) /\ toClient[i] \in Downs
      BY <3>1, Arrivals DEF Inv, Types, PathTypes
    <3>4. CASE HandleData(toClient[i])
      <4>1. first => toClient[i].ack = 0 /\ actual = 0 /\ acked = 0
        BY <3>3 DEF Inv, Fresh
      <4>2. UNCHANGED << actual, acked >>
        BY <3>4, <4>1 DEF HandleData, ResendLast, FirstData, NextData
      <4> QED
        BY <3>2, <4>2
    <3>5. CASE HandleAck(toClient[i])
      <4>1. /\ toClient[i].type = "ACK" /\ acked' = toClient[i].ack
            /\ actual' = actual
        BY <3>5 DEF HandleAck
      <4>2. /\ acked < toClient[i].ack /\ toClient[i].ack <= Expected
            /\ toClient[i].ack \in Nat
        BY <3>3, <4>1 DEF Inv, AcksRise, Sent, Downs
      <4>3. acked' \in acked + 1 .. Expected
        BY <2>1, <4>1, <4>2
      <4> QED
        BY <3>2, <4>1, <4>3 DEF Link!UplinkNext, Link!Learn, Expected
    <3> QED
      BY <3>1, <3>4, <3>5
  <2>4. CASE ClientRead
    <3>1. /\ pc = "stdin" /\ actual' = actual + 1
          /\ UNCHANGED << acked, Expected, cd >>
      BY <2>4 DEF ClientRead, ReadStdin, serverSide, Expected
    <3>2. ~ first /\ Reading
      BY <3>1 DEF Inv, Fresh, Reading
    <3>3. actual <= acked + 1
      BY <2>1, <3>2 DEF Inv, Distance, Types, ClientTypes
    <3>4. actual < acked + 2
      BY <2>1, <3>3
    <3> QED
      BY <3>1, <3>4 DEF Link!UplinkNext, Link!Send
  <2>5. CASE ServerReceive
    <3>1. UNCHANGED << actual, acked >>
      BY <2>5 DEF ServerReceive, counters, history
    <3>2. PICK i \in Arriving(toServer) :
              \/ RegisterClient
              \/ /\ toServer[i].type = "UPLOAD"
                 /\ AcceptUpload(toServer[i]) \/ DropUpload(toServer[i])
      BY <2>5 DEF ServerReceive
    <3> DEFINE m == toServer[i]
    <3>3. CASE RegisterClient \/ DropUpload(m)
      BY <3>1, <3>3 DEF RegisterClient, DropUpload, serverSide, Expected
    <3>4. CASE m.type = "UPLOAD" /\ AcceptUpload(m)
      <4>1. m \in Ups /\ i \in 1 .. Len(toServer)
        BY <3>2, Arrivals DEF Inv, Types, PathTypes
      <4>2. m.nr = Expected /\ m.nr < actual /\ m.body \in Seq(Nat)
        BY <3>4, <4>1 DEF AcceptUpload, Expected, Inv, Sent, Ups, ClientDgram
      <4>3. cd' = AfterUpload(cd, Fitting(m.body))
        BY <3>4 DEF AcceptUpload
      <4>4. Expected' = Expected + 1
        BY <4>2, <4>3, FittingFits, UploadObject
           DEF Expected, Inv, Types, ServerTypes
      <4> QED
        BY <3>1, <4>2, <4>4 DEF Link!UplinkNext, Link!Accept, Expected
    <3> QED
      BY <3>2, <3>3, <3>4
  <2>6. CASE Mixer
    <3>1. /\ UNCHANGED << actual, acked >>
          /\ cd' = IF RateQueueState(cd) = "ACTIVE"
                   THEN AfterMixery(cd, 2 * MixSamples) ELSE cd
      BY <2>6 DEF Mixer, history
    <3>2. Expected' = Expected
      BY <3>1, TickObject
         DEF Expected, Inv, Types, ServerTypes
    <3> QED
      BY <3>1, <3>2
  <2>7. CASE Lose
    BY <2>7 DEF Lose, counters, history, serverSide, Expected
  <2> QED
    BY <2>2, <2>3, <2>4, <2>5, <2>6, <2>7 DEF Next
<1> QED
  BY <1>1, <1>2, Invariance, PTL DEF Spec, ImplementsUplink

(* A session whose last upload was accepted and whose ACK was lost never   *)
(* reads stdin again, whatever arrives (client.cc:440, server.cc:284).     *)
THEOREM WedgedStays == Spec => WedgedForGood
<1>1. Inv /\ [Next]_vars => [Wedged => Wedged' /\ read' = read]_vars
  <2> SUFFICES ASSUME Inv, Next, Wedged PROVE Wedged' /\ read' = read
    OBVIOUS
  <2>1. /\ toServer \in Seq(Ups) /\ toClient \in Seq(Downs)
        /\ last_datagram \in Seq(Ups)
        /\ cd \in ObjectsOf({"client"}, Nat)
    BY DEF Inv, Types, ClientTypes, PathTypes, ServerTypes
  <2>2. /\ pc \in {"receive", "stopped"} /\ last_header = "DATA"
        /\ \A i \in 1 .. Len(toClient) : toClient[i].type = "DATA"
        /\ \A i \in 1 .. Len(toServer) :
               toServer[i].type = "UPLOAD" => toServer[i].nr # Expected
        /\ \A i \in 1 .. Len(last_datagram) :
               last_datagram[i].type = "UPLOAD"
                   => last_datagram[i].nr # Expected
    BY <2>1 DEF Wedged, Uploads, Expected
  <2>3. ASSUME toServer' \in Seq(Ups), toClient' \in Seq(Downs),
               UNCHANGED << last_header, last_datagram, Expected >>,
               pc' \in {"receive", "stopped"},
               \A i \in 1 .. Len(toClient') : toClient'[i].type = "DATA",
               \A i \in 1 .. Len(toServer') :
                   \/ toServer'[i].type = "CLIENT"
                   \/ \E k \in 1 .. Len(toServer) : toServer'[i] = toServer[k]
                   \/ \E k \in 1 .. Len(last_datagram) :
                          toServer'[i] = last_datagram[k]
        PROVE  Wedged'
    <3>1. \A i \in 1 .. Len(toServer') :
              toServer'[i].type = "UPLOAD" => toServer'[i].nr # Expected
      BY <2>2, <2>3
    <3>2. DOMAIN toServer' = 1 .. Len(toServer')
          /\ DOMAIN toClient' = 1 .. Len(toClient')
          /\ DOMAIN last_datagram = 1 .. Len(last_datagram)
      BY <2>1, <2>3
    <3> QED
      BY <2>2, <2>3, <3>1, <3>2 DEF Wedged, Uploads, Expected
  <2>4. CASE ClientStep \/ ClientEnds \/ ClientRead
    <3>1. CASE ClientStep /\ Register
      BY <2>2, <3>1 DEF Register
    <3>2. CASE ClientStep /\ WriteStdout
      BY <2>2, <3>2 DEF WriteStdout
    <3>3. CASE ClientEnds
      BY <2>2, <3>3 DEF ClientEnds, StreamEnds
    <3>4. CASE ClientRead
      BY <2>2, <3>4 DEF ClientRead, ReadStdin
    <3> QED
      BY <2>4, <3>1, <3>2, <3>3, <3>4 DEF ClientStep
  <2>5. CASE ClientReceive
    <3>1. PICK i \in Arriving(toClient) :
              /\ toClient' \in After(toClient, i)
              /\ HandleData(toClient[i]) \/ HandleAck(toClient[i])
      BY <2>5 DEF ClientReceive
    <3>2. i \in 1 .. Len(toClient) /\ toClient[i].type = "DATA"
      BY <2>1, <2>2, <3>1, Arrivals
    <3>3. ResendLast /\ cd' = cd
      BY <2>2, <2>5, <3>1, <3>2
         DEF HandleData, HandleAck, ClientReceive, serverSide
    <3>4. /\ toServer' = toServer \o last_datagram
          /\ pc' \in {"receive", "stopped"} /\ read' = read
          /\ UNCHANGED << last_header, last_datagram, Expected >>
      BY <3>3 DEF ResendLast, last, Expected
    <3>5. /\ toServer' \in Seq(Ups)
          /\ \A j \in 1 .. Len(toServer') :
                 \/ \E k \in 1 .. Len(toServer) : toServer'[j] = toServer[k]
                 \/ \E k \in 1 .. Len(last_datagram) :
                        toServer'[j] = last_datagram[k]
      <4>1. toServer \in Seq(Ups) /\ last_datagram \in Seq(Ups)
        BY <2>1
      <4>2. toServer' = toServer \o last_datagram
        BY <3>4
      <4> QED
        BY <4>1, <4>2, ConcatSome
    <3>6. /\ toClient' \in Seq(Downs)
          /\ \A j \in 1 .. Len(toClient') :
                 \E k \in 1 .. Len(toClient) : toClient'[j] = toClient[k]
      BY <2>1, <3>1, <3>2, AfterSome
    <3>7. \A j \in 1 .. Len(toClient') : toClient'[j].type = "DATA"
      BY <2>2, <3>6
    <3> QED
      BY <2>3, <3>4, <3>5, <3>6, <3>7
  <2>6. CASE ServerReceive
    <3>1. PICK i \in Arriving(toServer) :
              /\ toServer' \in After(toServer, i)
              /\ \/ RegisterClient
                 \/ /\ toServer[i].type = "UPLOAD"
                    /\ AcceptUpload(toServer[i]) \/ DropUpload(toServer[i])
      BY <2>6 DEF ServerReceive
    <3>2. i \in 1 .. Len(toServer)
      BY <2>1, <3>1, Arrivals
    <3>3. ~ (toServer[i].type = "UPLOAD" /\ AcceptUpload(toServer[i]))
      BY <2>2, <3>2 DEF AcceptUpload, Expected
    <3>4. /\ UNCHANGED << pc, read, last_header, last_datagram, Expected,
                 toClient >>
      BY <2>6, <3>1, <3>3 DEF ServerReceive, RegisterClient, DropUpload,
         history, last, serverSide, Expected
    <3>5. /\ toServer' \in Seq(Ups)
          /\ \A j \in 1 .. Len(toServer') :
                 \E k \in 1 .. Len(toServer) : toServer'[j] = toServer[k]
      <4>1. toServer \in Seq(Ups)
        BY <2>1
      <4>2. toServer' \in After(toServer, i)
        BY <3>1
      <4> QED
        BY <3>2, <4>1, <4>2, AfterSome
    <3> QED
      BY <2>1, <2>2, <2>3, <3>4, <3>5
  <2>7. CASE Mixer
    <3>1. /\ UNCHANGED << pc, read, last_header, last_datagram, toServer >>
          /\ cd' = IF RateQueueState(cd) = "ACTIVE"
                   THEN AfterMixery(cd, 2 * MixSamples) ELSE cd
          /\ \/ toClient' = Aged(toClient)
             \/ toClient' = Append(Aged(toClient),
                                   DataDgram(Expected, GetAvailableSize(cd')))
      BY <2>7 DEF Mixer, history, last, Expected
    <3>2. cd' \in ObjectsOf({"client"}, Nat) /\ Expected' = Expected
          /\ Expected \in Nat
      BY <2>1, <3>1, TickObject, Fields DEF Expected
    <3>3. \A i \in 1 .. Len(toClient) :
              toClient[i].type = "DATA" => toClient[i].age < MaxAge
      BY <2>1, <2>7 DEF Mixer, DataInFlight
    <3>4. /\ Aged(toClient) \in Seq(Downs)
          /\ Len(Aged(toClient)) = Len(toClient)
          /\ \A i \in 1 .. Len(toClient) : Aged(toClient)[i].type = "DATA"
      BY <2>1, <2>2, <3>3, AgedTyped
    <3> DEFINE d == DataDgram(Expected, GetAvailableSize(cd'))
    <3>5. d \in Downs /\ d.type = "DATA"
      BY <3>2, WindowFits, DgramTypes
    <3> HIDE DEF d
    <3>6. /\ Append(Aged(toClient), d) \in Seq(Downs)
          /\ \A j \in 1 .. Len(Append(Aged(toClient), d)) :
                 Append(Aged(toClient), d)[j].type = "DATA"
      BY <3>4, <3>5, AppendSome
    <3>7. /\ toClient' \in Seq(Downs)
          /\ \A i \in 1 .. Len(toClient') : toClient'[i].type = "DATA"
      BY <3>1, <3>4, <3>6 DEF d
    <3> QED
      BY <2>1, <2>2, <2>3, <3>1, <3>2, <3>7
  <2>8. CASE Lose
    <3>1. /\ UNCHANGED << pc, read, last_header, last_datagram, Expected >>
          /\ \/ /\ \E i \in DOMAIN toServer : toServer' = Without(toServer, i)
                /\ UNCHANGED toClient
             \/ /\ \E i \in DOMAIN toClient : toClient' = Without(toClient, i)
                /\ UNCHANGED toServer
      BY <2>8 DEF Lose, history, last, serverSide, Expected
    <3>2. /\ toServer' \in Seq(Ups)
          /\ \A j \in 1 .. Len(toServer') :
                 \E k \in 1 .. Len(toServer) : toServer'[j] = toServer[k]
      BY <2>1, <3>1, WithoutSome
    <3>3. /\ toClient' \in Seq(Downs)
          /\ \A j \in 1 .. Len(toClient') :
                 \E k \in 1 .. Len(toClient) : toClient'[j] = toClient[k]
      BY <2>1, <3>1, WithoutSome
    <3> QED
      BY <2>2, <2>3, <3>1, <3>2, <3>3
  <2> QED
    BY <2>4, <2>5, <2>6, <2>7, <2>8 DEF Next
<1> QED
  BY <1>1, Invariance, PTL DEF Spec, WedgedForGood

-----------------------------------------------------------------------------
(* What enters the FIFO.  b[k] is how far stdin was read when UPLOAD k was *)
(* made, so that UPLOAD k carries samples b[k] + 1 to b[k + 1].            *)
Cut(b, m) == m.body = [i \in 1 .. b[m.nr + 1] - b[m.nr] |-> b[m.nr] + i]

Chunks(b) ==
    /\ b[0] = 0 /\ b[actual] = read
    /\ \A k \in 0 .. actual - 1 : b[k] <= b[k + 1]
    /\ \A i \in 1 .. Len(toServer) :
           toServer[i].type = "UPLOAD" => Cut(b, toServer[i])
    /\ \A i \in 1 .. Len(last_datagram) :
           last_datagram[i].type = "UPLOAD" => Cut(b, last_datagram[i])
    /\ \A i \in 1 .. Len(stream) : stream[i] <= b[Expected]
    /\ ~ truncated => Len(stream) = b[Expected]

StreamInv ==
    /\ stream \in Seq(Nat) /\ truncated \in BOOLEAN
    /\ \E b \in [0 .. actual -> Nat] : Chunks(b)
    /\ StreamIntact

(* Where the datagrams for the server come from.                           *)
LEMMA UpsFrom ==
    ASSUME Inv, Next, ~ ClientRead
    PROVE  /\ \A j \in 1 .. Len(toServer') :
                  \/ toServer'[j].type = "CLIENT"
                  \/ \E k \in 1 .. Len(toServer) : toServer'[j] = toServer[k]
                  \/ \E k \in 1 .. Len(last_datagram) :
                         toServer'[j] = last_datagram[k]
           /\ \/ last_datagram' = last_datagram
              \/ first /\ last_datagram' = << ClientDgram >>
           /\ UNCHANGED << actual, read >>
<1>1. toServer \in Seq(Ups)
  BY DEF Inv, Types, PathTypes
<1>2. last_datagram \in Seq(Ups)
  BY DEF Inv, Types, ClientTypes
<1>3. ClientDgram \in Ups /\ ClientDgram.type = "CLIENT"
  BY DgramTypes DEF ClientDgram
<1>4. CASE UNCHANGED << toServer, actual, read, last_datagram >>
  BY <1>4
<1>5. CASE ClientStep
  <2>1. CASE Register
    <3>1. toServer' = Append(toServer, ClientDgram)
          /\ UNCHANGED << actual, read, last_datagram >>
      BY <2>1 DEF Register, counters, history, last
    <3>2. \A j \in 1 .. Len(toServer') :
              \/ toServer'[j] = ClientDgram
              \/ \E k \in 1 .. Len(toServer) : toServer'[j] = toServer[k]
      BY <1>1, <1>3, <3>1, AppendSome
    <3> QED
      BY <1>3, <3>1, <3>2
  <2>2. CASE WriteStdout
    BY <1>4, <2>2 DEF WriteStdout, counters, history, last
  <2> QED
    BY <1>5, <2>1, <2>2 DEF ClientStep
<1>6. CASE ClientReceive
  <2>1. PICK i \in Arriving(toClient) :
            HandleData(toClient[i]) \/ HandleAck(toClient[i])
    BY <1>6 DEF ClientReceive
  <2>2. i \in 1 .. Len(toClient) /\ toClient[i] \in Downs
    BY <2>1, Arrivals DEF Inv, Types, PathTypes
  <2>3. CASE HandleAck(toClient[i])
    <3>1. ~ first
      BY <2>2, <2>3 DEF HandleAck, Inv, Fresh
    <3> QED
      BY <1>4, <2>3, <3>1 DEF HandleAck
  <2>4. CASE HandleData(toClient[i]) /\ ResendLast
    <3>1. toServer' = toServer \o last_datagram
          /\ UNCHANGED << actual, read, last_datagram >>
      BY <2>4 DEF ResendLast, last
    <3>2. \A j \in 1 .. Len(toServer') :
              \/ \E k \in 1 .. Len(toServer) : toServer'[j] = toServer[k]
              \/ \E k \in 1 .. Len(last_datagram) :
                     toServer'[j] = last_datagram[k]
      <4>1. toServer' = toServer \o last_datagram
        BY <3>1
      <4> QED
        BY <1>1, <1>2, <4>1, ConcatSome
    <3> QED
      BY <3>1, <3>2
  <2>5. CASE HandleData(toClient[i]) /\ first /\ FirstData(toClient[i])
    <3>1. actual' = actual
      BY <2>2, <2>5 DEF FirstData, Inv, Fresh
    <3> QED
      BY <2>5, <3>1 DEF FirstData
  <2>6. CASE HandleData(toClient[i]) /\ NextData(toClient[i])
    BY <1>4, <2>6 DEF NextData
  <2> QED
    BY <2>1, <2>3, <2>4, <2>5, <2>6 DEF HandleData
<1>7. CASE ClientEnds \/ Mixer
  BY <1>4, <1>7 DEF ClientEnds, StreamEnds, Mixer, counters, history, last
<1>8. CASE ServerReceive
  <2>1. PICK i \in Arriving(toServer) : toServer' \in After(toServer, i)
    BY <1>8 DEF ServerReceive
  <2>2. i \in 1 .. Len(toServer)
    BY <1>1, <2>1, Arrivals
  <2>3. \A j \in 1 .. Len(toServer') :
            \E k \in 1 .. Len(toServer) : toServer'[j] = toServer[k]
    BY <1>1, <2>1, <2>2, AfterSome
  <2> QED
    BY <1>8, <2>3 DEF ServerReceive, counters, history, last
<1>9. CASE Lose
  <2>1. UNCHANGED << actual, read, last_datagram >>
    BY <1>9 DEF Lose, counters, history, last
  <2>2. CASE UNCHANGED toServer
    BY <1>4, <2>1, <2>2
  <2>3. CASE \E i \in DOMAIN toServer : toServer' = Without(toServer, i)
    <3>1. PICK i \in 1 .. Len(toServer) : toServer' = Without(toServer, i)
      BY <1>1, <2>3
    <3>2. \A j \in 1 .. Len(toServer') :
              \E k \in 1 .. Len(toServer) : toServer'[j] = toServer[k]
      BY <1>1, <3>1, WithoutSome
    <3> QED
      BY <2>1, <3>2
  <2> QED
    BY <1>9, <2>2, <2>3 DEF Lose
<1> QED
  BY <1>5, <1>6, <1>7, <1>8, <1>9 DEF Next

LEMMA StreamInit == Init => StreamInv
<1> SUFFICES ASSUME Init PROVE StreamInv
  OBVIOUS
<1>1. /\ stream = << >> /\ truncated = FALSE /\ actual = 0 /\ read = 0
      /\ toServer = << >> /\ last_datagram = << >> /\ Expected = 0
  BY DEF Init, ClientInit, NewClientData, Expected
<1> DEFINE b == [k \in 0 .. 0 |-> 0]
<1>2. b \in [0 .. actual -> Nat] /\ b[0] = 0
  BY <1>1
<1> HIDE DEF b
<1>3. Chunks(b)
  BY <1>1, <1>2, EmptyTyped DEF Chunks
<1>4. StreamIntact
  <2>1. stream = [i \in 1 .. Len(stream) |-> i]
    BY <1>1, EmptyTyped
  <2> QED
    BY <1>1, <2>1, EmptyTyped DEF StreamIntact
<1> QED
  BY <1>1, <1>2, <1>3, <1>4, EmptyTyped DEF StreamInv

(* The datagrams move, the FIFO takes nothing.                             *)
LEMMA StreamKept ==
    ASSUME Inv, StreamInv, Next, ~ ClientRead,
           UNCHANGED << Expected, stream, truncated >>
    PROVE  StreamInv'
<1>1. PICK b \in [0 .. actual -> Nat] : Chunks(b)
  BY DEF StreamInv
<1>2. Chunks(b)'
  <2>1. /\ b[0] = 0 /\ b[actual'] = read' /\ actual' = actual
        /\ \A k \in 0 .. actual' - 1 : b[k] <= b[k + 1]
    BY <1>1, UpsFrom DEF Chunks
  <2>2. \A i \in 1 .. Len(toServer') :
            toServer'[i].type = "UPLOAD" => Cut(b, toServer'[i])
    BY <1>1, UpsFrom DEF Chunks
  <2>3. \A i \in 1 .. Len(last_datagram') :
            last_datagram'[i].type = "UPLOAD" => Cut(b, last_datagram'[i])
    BY <1>1, UpsFrom DEF Chunks, ClientDgram
  <2>4. /\ \A i \in 1 .. Len(stream') : stream'[i] <= b[Expected']
        /\ ~ truncated' => Len(stream') = b[Expected']
    BY <1>1 DEF Chunks
  <2> QED
    BY <2>1, <2>2, <2>3, <2>4 DEF Chunks, Cut
<1>3. StreamIntact'
  BY DEF StreamInv, StreamIntact
<1> QED
  BY <1>1, <1>2, <1>3, UpsFrom DEF StreamInv

(* The next cut is where this read of stdin ends.                          *)
LEMMA StreamRead == Inv /\ StreamInv /\ ClientRead => StreamInv'
<1> SUFFICES ASSUME Inv, StreamInv, ClientRead PROVE StreamInv'
  OBVIOUS
<1>1. PICK n \in ChunkSizes : ReadStdin(n)
  BY DEF ClientRead
<1>2. PICK b \in [0 .. actual -> Nat] : Chunks(b)
  BY DEF StreamInv
<1> DEFINE body   == [i \in 1 .. n |-> read + i]
           upload == UploadDgram(actual, body)
<1>3. /\ UNCHANGED << Expected, stream, truncated >>
      /\ actual' = actual + 1 /\ read' = read + n
      /\ last_datagram' = << upload >>
      /\ toServer' = Append(toServer, upload)
  BY <1>1 DEF ClientRead, ReadStdin, serverSide, Expected
<1>4. /\ n \in Nat /\ actual \in Nat /\ read \in Nat /\ Expected \in Nat
      /\ Expected <= actual
  BY ClientAssumption, Fields
     DEF Inv, Types, ClientTypes, ServerTypes, Expected, Sent
<1>5. \E c \in [0 .. actual + 1 -> Nat] :
          c[actual + 1] = read + n /\ \A k \in 0 .. actual : c[k] = b[k]
  <2> DEFINE f == [k \in 0 .. actual + 1 |-> IF k <= actual THEN b[k]
                                                            ELSE read + n]
  <2>1. f \in [0 .. actual + 1 -> Nat]
    BY <1>2, <1>4
  <2>2. f[actual + 1] = read + n /\ \A k \in 0 .. actual : f[k] = b[k]
    BY <1>4
  <2> QED
    BY <2>1, <2>2
<1>6. PICK c \in [0 .. actual + 1 -> Nat] :
          c[actual + 1] = read + n /\ \A k \in 0 .. actual : c[k] = b[k]
  BY <1>5
<1>7. /\ c[0] = 0 /\ c[actual] = read
      /\ \A k \in 0 .. actual : c[k] <= c[k + 1]
  <2>1. 0 \in 0 .. actual /\ actual \in 0 .. actual
    BY <1>4
  <2>2. c[0] = 0 /\ c[actual] = read
    BY <1>2, <1>6, <2>1 DEF Chunks
  <2>3. ASSUME NEW k \in 0 .. actual PROVE c[k] <= c[k + 1]
    <3>1. CASE k = actual
      BY <1>4, <1>6, <2>2, <3>1
    <3>2. CASE k # actual
      <4>1. k \in 0 .. actual - 1 /\ k + 1 \in 0 .. actual
        BY <1>4, <3>2
      <4> QED
        BY <1>2, <1>6, <4>1 DEF Chunks
    <3> QED
      BY <3>1, <3>2
  <2> QED
    BY <2>2, <2>3
<1>8. /\ upload \in Ups /\ upload.type = "UPLOAD" /\ upload.nr = actual
      /\ upload.body = body
  <2>1. body \in Seq(Nat)
    BY <1>4
  <2> HIDE DEF body
  <2> QED
    BY <1>4, <2>1, DgramTypes
<1>9. Cut(c, upload)
  <2>1. c[actual + 1] - c[actual] = n
    BY <1>4, <1>6, <1>7
  <2> QED
    BY <1>7, <1>8, <2>1 DEF Cut
<1> HIDE DEF upload, body
<1>10. ASSUME NEW m \in Ups, m.type = "UPLOAD", m.nr < actual, Cut(b, m)
       PROVE  Cut(c, m)
  <2>1. m.nr \in Nat
    BY <1>10 DEF Ups, ClientDgram
  <2>2. m.nr \in 0 .. actual /\ m.nr + 1 \in 0 .. actual
    <3>1. m.nr < actual
      BY <1>10
    <3>2. \A k, l \in Nat : k < l => k \in 0 .. l /\ k + 1 \in 0 .. l
      OBVIOUS
    <3>3. actual \in Nat
      BY <1>4
    <3> QED
      BY <2>1, <3>1, <3>2, <3>3
  <2>3. c[m.nr] = b[m.nr]
    BY <1>6, <2>2
  <2>4. c[m.nr + 1] = b[m.nr + 1]
    BY <1>6, <2>2
  <2>5. m.body = [j \in 1 .. b[m.nr + 1] - b[m.nr] |-> b[m.nr] + j]
    BY <1>10 DEF Cut
  <2>6. m.body = [j \in 1 .. c[m.nr + 1] - c[m.nr] |-> c[m.nr] + j]
    BY <2>3, <2>4, <2>5
  <2> QED
    BY <2>6 DEF Cut
<1>11. \A i \in 1 .. Len(toServer') :
           toServer'[i].type = "UPLOAD" => Cut(c, toServer'[i])
  <2>1. toServer \in Seq(Ups)
    BY DEF Inv, Types, PathTypes
  <2>2. \A i \in 1 .. Len(toServer') :
            \/ toServer'[i] = upload
            \/ \E k \in 1 .. Len(toServer) : toServer'[i] = toServer[k]
    BY <1>3, <1>8, <2>1, AppendSome
  <2>3. ASSUME NEW k \in 1 .. Len(toServer), toServer[k].type = "UPLOAD"
        PROVE  Cut(c, toServer[k])
    <3>1. toServer[k] \in Ups
      BY <2>1, ElementOfSeq
    <3>2. toServer[k].nr < actual /\ Cut(b, toServer[k])
      BY <1>2, <2>3 DEF Inv, Sent, Chunks
    <3> QED
      BY <1>10, <2>3, <3>1, <3>2
  <2> QED
    BY <1>9, <2>2, <2>3
<1>12. \A i \in 1 .. Len(last_datagram') : Cut(c, last_datagram'[i])
  BY <1>3, <1>9
<1>13. /\ \A i \in 1 .. Len(stream') : stream'[i] <= c[Expected']
       /\ ~ truncated' => Len(stream') = c[Expected']
  <2>1. c[Expected] = b[Expected]
    BY <1>4, <1>6
  <2> QED
    BY <1>2, <1>3, <2>1 DEF Chunks
<1>14. Chunks(c)'
  <2>1. /\ c[0] = 0 /\ c[actual'] = read'
        /\ \A k \in 0 .. actual' - 1 : c[k] <= c[k + 1]
    BY <1>3, <1>4, <1>6, <1>7
  <2> QED
    BY <1>11, <1>12, <1>13, <2>1 DEF Chunks, Cut
<1>15. StreamIntact'
  BY <1>3 DEF StreamInv, StreamIntact
<1>16. stream' \in Seq(Nat) /\ truncated' \in BOOLEAN
  BY <1>3 DEF StreamInv
<1> QED
  BY <1>3, <1>6, <1>14, <1>15, <1>16 DEF StreamInv

(* The expected UPLOAD carries the samples after those of the FIFO, or the *)
(* first of them if it does not fit the receive buffer.                    *)
LEMMA StreamAccept ==
    ASSUME Inv, StreamInv, Next, ServerReceive,
           NEW i \in Arriving(toServer), toServer[i].type = "UPLOAD",
           AcceptUpload(toServer[i])
    PROVE  StreamInv'
<1> DEFINE m    == toServer[i]
           body == Fitting(m.body)
<1>1. PICK b \in [0 .. actual -> Nat] : Chunks(b)
  BY DEF StreamInv
<1>2. /\ m \in Ups /\ i \in 1 .. Len(toServer)
  BY Arrivals DEF Inv, Types, PathTypes
<1>3. /\ m.nr = Expected /\ m.nr < actual /\ m.nr \in Nat
      /\ m.body \in Seq(Nat) /\ actual \in Nat
  <2>1. m.nr = Expected
    BY DEF AcceptUpload, Expected
  <2>2. m.nr < actual
    BY <1>2 DEF Inv, Sent
  <2>3. m.nr \in Nat /\ m.body \in Seq(Nat)
    BY <1>2 DEF Ups, ClientDgram
  <2>4. actual \in Nat
    BY DEF Inv, Types, ClientTypes
  <2> QED
    BY <2>1, <2>2, <2>3, <2>4
<1>4. /\ cd' = AfterUpload(cd, body)
      /\ stream' = stream \o body
      /\ truncated' = (truncated \/ body # m.body)
  BY DEF AcceptUpload
<1>5. /\ body \in Seq(Nat) /\ Len(body) \in Nat /\ Len(body) <= Len(m.body)
      /\ Len(body) <= MaxQueueLength
      /\ \A j \in 1 .. Len(body) : body[j] = m.body[j]
  BY <1>3, FittingFits
<1> HIDE DEF body
<1>6. Expected' = Expected + 1
  BY <1>4, <1>5, UploadObject DEF Expected, Inv, Types, ServerTypes
<1> DEFINE lo == b[Expected]
           hi == b[Expected + 1]
<1>7. lo \in Nat /\ hi \in Nat /\ lo <= hi
  <2>1. Expected \in 0 .. actual - 1 /\ Expected + 1 \in 0 .. actual
        /\ Expected \in 0 .. actual
    BY <1>3
  <2> QED
    BY <1>1, <2>1 DEF Chunks
<1>8. /\ m.body = [j \in 1 .. hi - lo |-> lo + j]
  BY <1>1, <1>2, <1>3 DEF Chunks, Cut
<1> HIDE DEF lo, hi
<1>9. Len(m.body) = hi - lo /\ \A j \in 1 .. hi - lo : m.body[j] = lo + j
  BY <1>7, <1>8
<1>10. /\ stream \in Seq(Nat) /\ Len(stream) \in Nat
       /\ truncated \in BOOLEAN
       /\ \A k \in 1 .. Len(stream) : stream[k] \in Nat /\ stream[k] <= lo
       /\ ~ truncated => Len(stream) = lo
       /\ \A k \in 2 .. Len(stream) : stream[k - 1] < stream[k]
       /\ ~ truncated => stream = [k \in 1 .. Len(stream) |-> k]
  BY <1>1, ElementOfSeq DEF StreamInv, Chunks, StreamIntact, lo
<1>11. /\ stream' \in Seq(Nat) /\ Len(stream') = Len(stream) + Len(body)
       /\ \A k \in 1 .. Len(stream) + Len(body) :
              stream'[k] = IF k <= Len(stream) THEN stream[k]
                                               ELSE body[k - Len(stream)]
  BY <1>4, <1>5, <1>10, ConcatProperties
<1>12. ASSUME NEW k \in Len(stream) + 1 .. Len(stream) + Len(body)
       PROVE  /\ stream'[k] = lo + (k - Len(stream))
              /\ k - Len(stream) \in 1 .. Len(body)
              /\ stream'[k] \in Nat /\ lo < stream'[k] /\ stream'[k] <= hi
  <2>1. /\ k - Len(stream) \in 1 .. Len(body)
        /\ stream'[k] = body[k - Len(stream)]
    <3>1. Len(stream) \in Nat /\ Len(body) \in Nat
      BY <1>5, <1>10
    <3>2. /\ k - Len(stream) \in 1 .. Len(body)
          /\ k \in 1 .. Len(stream) + Len(body) /\ ~ (k <= Len(stream))
      BY <3>1
    <3> QED
      BY <1>11, <3>2
  <2>2. /\ k - Len(stream) \in 1 .. hi - lo
        /\ body[k - Len(stream)] = m.body[k - Len(stream)]
    BY <1>5, <1>7, <1>9, <2>1
  <2>3. stream'[k] = lo + (k - Len(stream))
    BY <1>9, <2>1, <2>2
  <2> DEFINE j == k - Len(stream)
  <2>4. j \in 1 .. hi - lo
    BY <2>2
  <2> HIDE DEF j
  <2>5. lo + j \in Nat /\ lo < lo + j /\ lo + j <= hi
    BY <1>7, <2>4
  <2> QED
    BY <2>1, <2>3, <2>5 DEF j
<1>13. ASSUME NEW k \in 1 .. Len(stream)
       PROVE  stream'[k] = stream[k] /\ stream[k] \in Nat /\ stream[k] <= lo
  BY <1>5, <1>10, <1>11
<1>14. \A k \in 1 .. Len(stream') : stream'[k] <= hi
  <2> SUFFICES ASSUME NEW k \in 1 .. Len(stream) + Len(body)
               PROVE  stream'[k] <= hi
    BY <1>11
  <2>1. CASE k <= Len(stream)
    <3>1. k \in 1 .. Len(stream)
      BY <1>10, <2>1
    <3>2. stream'[k] \in Nat /\ stream'[k] <= lo
      BY <1>13, <3>1
    <3> QED
      BY <1>7, <3>2
  <2>2. CASE ~ (k <= Len(stream))
    <3>1. k \in Len(stream) + 1 .. Len(stream) + Len(body)
      BY <1>5, <1>10, <2>2
    <3> QED
      BY <1>12, <3>1
  <2> QED
    BY <2>1, <2>2
<1>15. ASSUME NEW k \in 2 .. Len(stream')
       PROVE  stream'[k - 1] < stream'[k]
  <2>1. k \in Nat /\ 2 <= k /\ k <= Len(stream) + Len(body)
    BY <1>5, <1>10, <1>11
  <2>2. CASE k <= Len(stream)
    <3>1. /\ k \in 1 .. Len(stream) /\ k - 1 \in 1 .. Len(stream)
          /\ k \in 2 .. Len(stream)
      BY <1>10, <2>1, <2>2
    <3> QED
      BY <1>10, <1>13, <3>1
  <2>3. CASE k = Len(stream) + 1
    <3>1. /\ k - 1 \in 1 .. Len(stream)
          /\ k \in Len(stream) + 1 .. Len(stream) + Len(body)
      BY <1>5, <1>10, <2>1, <2>3
    <3>2. /\ stream'[k - 1] \in Nat /\ stream'[k - 1] <= lo
          /\ stream'[k] \in Nat /\ lo < stream'[k]
      BY <1>12, <1>13, <3>1
    <3> QED
      BY <1>7, <3>2
  <2>4. CASE k > Len(stream) + 1
    <3>1. /\ k \in Len(stream) + 1 .. Len(stream) + Len(body)
          /\ k - 1 \in Len(stream) + 1 .. Len(stream) + Len(body)
      BY <1>5, <1>10, <2>1, <2>4
    <3>2. /\ stream'[k] = lo + (k - Len(stream))
          /\ stream'[k - 1] = lo + ((k - 1) - Len(stream))
      BY <1>12, <3>1
    <3> QED
      BY <1>7, <1>10, <2>1, <3>2
  <2> QED
    BY <1>10, <2>1, <2>2, <2>3, <2>4
<1>16. ASSUME ~ truncated'
       PROVE  Len(stream') = hi /\ stream' = [k \in 1 .. Len(stream') |-> k]
  <2>1. ~ truncated /\ Len(body) = hi - lo /\ Len(stream) = lo
    BY <1>4, <1>9, <1>10, <1>16
  <2>2. Len(stream') = hi
    BY <1>7, <1>11, <2>1
  <2>3. ASSUME NEW k \in 1 .. hi PROVE stream'[k] = k
    <3>1. CASE k <= lo
      <4>1. k \in 1 .. Len(stream) /\ stream = [l \in 1 .. Len(stream) |-> l]
        BY <1>7, <1>10, <2>1, <2>3, <3>1
      <4>2. stream[k] = k
        BY <4>1
      <4> QED
        BY <1>13, <4>1, <4>2
    <3>2. CASE ~ (k <= lo)
      <4>1. k \in Len(stream) + 1 .. Len(stream) + Len(body)
        BY <1>7, <2>1, <2>3, <3>2
      <4>2. stream'[k] = lo + (k - Len(stream))
        BY <1>12, <4>1
      <4> QED
        BY <1>7, <2>1, <2>3, <4>2
    <3> QED
      BY <3>1, <3>2
  <2>4. stream' \in [1 .. hi -> Nat]
    BY <1>11, <2>2, LenProperties
  <2>5. stream' = [k \in 1 .. hi |-> k]
    BY <2>3, <2>4
  <2> QED
    BY <2>2, <2>5
<1>17. StreamIntact'
  BY <1>15, <1>16 DEF StreamIntact
<1>18. ~ ClientRead
  <2>1. actual' = actual
    BY DEF ServerReceive, counters
  <2>2. ClientRead => actual' = actual + 1
    BY DEF ClientRead, ReadStdin
  <2> QED
    BY <1>3, <2>1, <2>2
<1>19. Chunks(b)'
  <2>1. /\ b[0] = 0 /\ b[actual'] = read' /\ actual' = actual
        /\ \A k \in 0 .. actual' - 1 : b[k] <= b[k + 1]
    BY <1>1, <1>18, UpsFrom DEF Chunks
  <2>2. \A j \in 1 .. Len(toServer') :
            toServer'[j].type = "UPLOAD" => Cut(b, toServer'[j])
    BY <1>1, <1>18, UpsFrom DEF Chunks
  <2>3. \A j \in 1 .. Len(last_datagram') :
            last_datagram'[j].type = "UPLOAD" => Cut(b, last_datagram'[j])
    BY <1>1, <1>18, UpsFrom DEF Chunks, ClientDgram
  <2>4. b[Expected'] = hi
    BY <1>6 DEF hi
  <2> QED
    BY <1>14, <1>16, <2>1, <2>2, <2>3, <2>4 DEF Chunks, Cut
<1>20. truncated' \in BOOLEAN /\ actual' = actual
  BY <1>4, <1>10, <1>18, UpsFrom
<1> QED
  BY <1>1, <1>11, <1>17, <1>19, <1>20 DEF StreamInv

(* Whatever the path loses, repeats and reorders, and for every window,    *)
(* chunk size and FIFO: what enters the FIFO is stdin, in order, nothing   *)
(* twice, and nothing skipped while every UPLOAD fits (server.cc:284).     *)
THEOREM StreamStaysIntact == Spec => []StreamIntact
<1>1. Init => StreamInv
  BY StreamInit
<1>2. Inv /\ StreamInv /\ [Next]_vars => StreamInv'
  <2> SUFFICES ASSUME Inv, StreamInv, [Next]_vars PROVE StreamInv'
    OBVIOUS
  <2>1. CASE UNCHANGED vars
    <3>1. UNCHANGED << actual, read, toServer, last_datagram, Expected, stream,
                       truncated >>
      BY <2>1
         DEF vars, clientVars, counters, last, history, serverSide, Expected
    <3>2. StreamIntact'
      BY <3>1 DEF StreamInv, StreamIntact
    <3>3. PICK b \in [0 .. actual -> Nat] : Chunks(b)
      BY DEF StreamInv
    <3>4. Chunks(b)'
      BY <3>1, <3>3 DEF Chunks, Cut
    <3>5. StreamInv'
      BY <3>1, <3>2, <3>3, <3>4 DEF StreamInv
    <3> QED
      BY <3>5
  <2>2. CASE ClientRead
    BY <2>2, StreamRead
  <2>3. CASE Next /\ ~ ClientRead /\ ~ ServerReceive
    <3>1. CASE Mixer
      <4>1. /\ cd' = IF RateQueueState(cd) = "ACTIVE"
                     THEN AfterMixery(cd, 2 * MixSamples) ELSE cd
            /\ UNCHANGED << stream, truncated >>
        BY <3>1 DEF Mixer
      <4>2. Expected' = Expected
        BY <4>1, TickObject
           DEF Expected, Inv, Types, ServerTypes
      <4> QED
        BY <2>3, <4>1, <4>2, StreamKept
    <3>2. CASE ~ Mixer
      <4>1. UNCHANGED << Expected, stream, truncated >>
        BY <2>3, <3>2 DEF Next, ClientStep, ClientReceive, ClientEnds, Lose,
           serverSide, Expected
      <4> QED
        BY <2>3, <4>1, StreamKept
    <3> QED
      BY <3>1, <3>2
  <2>4. CASE Next /\ ServerReceive
    <3>1. PICK i \in Arriving(toServer) :
              \/ RegisterClient
              \/ /\ toServer[i].type = "UPLOAD"
                 /\ AcceptUpload(toServer[i]) \/ DropUpload(toServer[i])
      BY <2>4 DEF ServerReceive
    <3>2. CASE toServer[i].type = "UPLOAD" /\ AcceptUpload(toServer[i])
      BY <2>4, <3>2, StreamAccept
    <3>3. CASE RegisterClient \/ DropUpload(toServer[i])
      <4>1. UNCHANGED << Expected, stream, truncated >>
        BY <3>3 DEF RegisterClient, DropUpload, serverSide, Expected
      <4>2. ~ ClientRead
        <5>1. actual' = actual /\ actual \in Nat
          BY <2>4 DEF ServerReceive, counters, Inv, Types, ClientTypes
        <5>2. ClientRead => actual' = actual + 1
          BY DEF ClientRead, ReadStdin
        <5>3. actual + 1 # actual
          BY <5>1
        <5> QED
          BY <5>1, <5>2, <5>3
      <4> QED
        BY <2>4, <4>1, <4>2, StreamKept
    <3> QED
      BY <3>1, <3>2, <3>3
  <2> QED
    BY <2>1, <2>2, <2>3, <2>4
<1>3. StreamInv => StreamIntact
  BY DEF StreamInv
<1> QED
  BY <1>1, <1>2, <1>3, Invariance, PTL DEF Spec
-----------------------------------------------------------------------------
(* A client that waits for each ACK *)

(* The last datagram is the newest UPLOAD, and no other carries its number.*)
LastUpload ==
    actual > 0 =>
        /\ Len(last_datagram) = 1
        /\ last_datagram[1].type = "UPLOAD" /\ last_datagram[1].nr = actual - 1
        /\ \A i \in 1 .. Len(toServer) :
               toServer[i].type = "UPLOAD" /\ toServer[i].nr = actual - 1
                   => toServer[i] = last_datagram[1]

Available == GetAvailableSize(cd)

(* Between two uploads the FIFO only gets emptier.                         *)
WindowsHold ==
    \A i \in 1 .. Len(toClient) :
        toClient[i].ack = Expected => toClient[i].win <= Available

(* On a path that keeps order the numbers on their way to the client never *)
(* go back, so that a client that knows the last ACK has a window that is  *)
(* not older.                                                              *)
NeverBack ==
    /\ \A i \in 1 .. Len(toClient) : acked <= toClient[i].ack
    /\ \A i, j \in 1 .. Len(toClient) :
           i < j => toClient[i].ack <= toClient[j].ack

KnownWindow == acked = Expected /\ ~ first => win <= Available

(* The one UPLOAD that is not acknowledged fits the FIFO until it arrives. *)
Waiting ==
    ~ pipelined =>
        /\ actual <= acked + 1
        /\ Expected < actual => 2 * Len(last_datagram[1].body) <= Available
        /\ ~ overflowed

WaitInv ==
    /\ pipelined \in BOOLEAN /\ overflowed \in BOOLEAN
    /\ LastUpload
    /\ WindowsHold
    /\ Ordered => NeverBack /\ KnownWindow /\ Waiting

LEMMA WaitInit == Init => WaitInv
<1> SUFFICES ASSUME Init PROVE WaitInv
  OBVIOUS
<1>1. /\ actual = 0 /\ acked = 0 /\ Expected = 0 /\ first = TRUE
      /\ toClient = << >> /\ pipelined = FALSE /\ overflowed = FALSE
  BY DEF Init, ClientInit, NewClientData, Expected
<1>2. LastUpload
  BY <1>1 DEF LastUpload
<1>3. WindowsHold /\ NeverBack
  BY <1>1, EmptyTyped DEF WindowsHold, NeverBack
<1>4. KnownWindow
  BY <1>1 DEF KnownWindow
<1>5. Waiting
  BY <1>1 DEF Waiting
<1> QED
  BY <1>1, <1>2, <1>3, <1>4, <1>5 DEF WaitInv

LEMMA LastUploadKept ==
    ASSUME Inv, LastUpload, Next PROVE LastUpload'
<1>1. /\ toServer \in Seq(Ups) /\ last_datagram \in Seq(Ups)
      /\ Len(last_datagram) <= 1 /\ Len(last_datagram) \in Nat
      /\ actual \in Nat /\ read \in Nat
  BY DEF Inv, Types, PathTypes, ClientTypes
<1>2. CASE ~ ClientRead
  <2>1. /\ \A j \in 1 .. Len(toServer') :
               \/ toServer'[j].type = "CLIENT"
               \/ \E k \in 1 .. Len(toServer) : toServer'[j] = toServer[k]
               \/ \E k \in 1 .. Len(last_datagram) :
                      toServer'[j] = last_datagram[k]
        /\ \/ last_datagram' = last_datagram
           \/ first
        /\ actual' = actual
    BY <1>2, UpsFrom
  <2>2. first => actual = 0
    BY DEF Inv, Fresh
  <2>3. ASSUME actual > 0, NEW j \in 1 .. Len(toServer'),
               toServer'[j].type = "UPLOAD", toServer'[j].nr = actual - 1
        PROVE  toServer'[j] = last_datagram[1]
    <3>1. CASE \E k \in 1 .. Len(toServer) : toServer'[j] = toServer[k]
      BY <2>3, <3>1 DEF LastUpload
    <3>2. CASE \E k \in 1 .. Len(last_datagram) : toServer'[j] = last_datagram[k]
      <4>1. \A k \in 1 .. Len(last_datagram) : k = 1
        BY <1>1
      <4> QED
        BY <3>2, <4>1
    <3> QED
      BY <2>1, <2>3, <3>1, <3>2
  <2>4. ASSUME actual > 0 PROVE last_datagram' = last_datagram
    BY <2>1, <2>2, <2>4
  <2> QED
    BY <1>1, <2>1, <2>3, <2>4 DEF LastUpload
<1>3. CASE ClientRead
  <2>1. PICK n \in ChunkSizes : ReadStdin(n)
    BY <1>3 DEF ClientRead
  <2> DEFINE body   == [i \in 1 .. n |-> read + i]
             upload == UploadDgram(actual, body)
  <2>2. /\ actual' = actual + 1 /\ last_datagram' = << upload >>
        /\ toServer' = Append(toServer, upload)
    BY <2>1 DEF ReadStdin
  <2>3. body \in Seq(Nat)
    BY <1>1, ClientAssumption
  <2> HIDE DEF body
  <2>4. upload \in Ups /\ upload.type = "UPLOAD" /\ upload.nr = actual
    BY <1>1, <2>3, DgramTypes
  <2> HIDE DEF upload
  <2>5. \A j \in 1 .. Len(toServer') :
            \/ toServer'[j] = upload
            \/ \E k \in 1 .. Len(toServer) : toServer'[j] = toServer[k]
    BY <1>1, <2>2, <2>4, AppendSome
  <2>6. ASSUME NEW j \in 1 .. Len(toServer'),
               toServer'[j].type = "UPLOAD", toServer'[j].nr = actual
        PROVE  toServer'[j] = upload
    <3>1. ASSUME NEW k \in 1 .. Len(toServer), toServer'[j] = toServer[k]
          PROVE  FALSE
      <4>1. toServer[k].nr < actual
        BY <2>6, <3>1 DEF Inv, Sent
      <4> QED
        BY <1>1, <2>6, <3>1, <4>1
    <3> QED
      BY <2>5, <3>1
  <2>7. Len(last_datagram') = 1 /\ last_datagram'[1] = upload
    BY <2>2, <2>4
  <2>8. actual' - 1 = actual
    BY <1>1, <2>2
  <2> QED
    BY <2>4, <2>6, <2>7, <2>8 DEF LastUpload
<1> QED
  BY <1>2, <1>3

LEMMA RisingWithout ==
    ASSUME NEW s \in Seq(Downs), NEW i \in 1 .. Len(s),
           \A a, b \in 1 .. Len(s) : a < b => s[a].ack <= s[b].ack
    PROVE  \A j, k \in 1 .. Len(Without(s, i)) :
               j < k => Without(s, i)[j].ack <= Without(s, i)[k].ack
<1> SUFFICES ASSUME NEW j \in 1 .. Len(Without(s, i)),
                    NEW k \in 1 .. Len(Without(s, i)), j < k
             PROVE  Without(s, i)[j].ack <= Without(s, i)[k].ack
  OBVIOUS
<1>1. PICK a \in 1 .. Len(s), b \in 1 .. Len(s) :
          a < b /\ Without(s, i)[j] = s[a] /\ Without(s, i)[k] = s[b]
  BY KeepsOrder
<1> QED
  BY <1>1

(* The FIFO, the acknowledged numbers and the history do not change: only  *)
(* datagrams for the client may get lost.                                  *)
LEMMA WaitKept ==
    ASSUME Inv, WaitInv, Next,
           UNCHANGED << network, first, actual, acked, win, cd, last_datagram,
                        pipelined, overflowed >>,
           \/ UNCHANGED toClient
           \/ \E i \in 1 .. Len(toClient) : toClient' = Without(toClient, i)
    PROVE  WaitInv'
<1>1. UNCHANGED << Expected, Available >>
  BY DEF Expected, Available
<1>2. LastUpload'
  BY LastUploadKept DEF WaitInv
<1>3. toClient \in Seq(Downs)
  BY DEF Inv, Types, PathTypes
<1>4. \A j \in 1 .. Len(toClient') :
          \E k \in 1 .. Len(toClient) : toClient'[j] = toClient[k]
  BY <1>3, WithoutSome
<1>5. WindowsHold'
  BY <1>1, <1>4 DEF WaitInv, WindowsHold
<1>6. ASSUME Ordered' PROVE NeverBack' /\ KnownWindow' /\ Waiting'
  <2>1. NeverBack /\ KnownWindow /\ Waiting
    BY <1>6 DEF Ordered, WaitInv
  <2>2. \A j \in 1 .. Len(toClient') : acked' <= toClient'[j].ack
    BY <1>4, <2>1 DEF NeverBack
  <2>3. \A j, k \in 1 .. Len(toClient') :
            j < k => toClient'[j].ack <= toClient'[k].ack
    <3>1. \A j, k \in 1 .. Len(toClient) :
              j < k => toClient[j].ack <= toClient[k].ack
      BY <2>1 DEF NeverBack
    <3>2. CASE UNCHANGED toClient
      BY <3>1, <3>2
    <3>3. CASE \E i \in 1 .. Len(toClient) : toClient' = Without(toClient, i)
      BY <1>3, <3>1, <3>3, RisingWithout
    <3> QED
      BY <3>2, <3>3
  <2>4. NeverBack'
    BY <2>2, <2>3 DEF NeverBack
  <2>5. KnownWindow' /\ Waiting'
    BY <1>1, <2>1 DEF KnownWindow, Waiting
  <2> QED
    BY <2>4, <2>5
<1> QED
  BY <1>2, <1>5, <1>6 DEF WaitInv

(* A datagram for the client is handled: its window is the one of its      *)
(* number, which on a path that keeps order is the newest so far.          *)
LEMMA WaitReceive == Inv /\ WaitInv /\ ClientReceive => WaitInv'
<1> SUFFICES ASSUME Inv, WaitInv, ClientReceive PROVE WaitInv'
  OBVIOUS
<1>1. PICK i \in Arriving(toClient) :
          /\ toClient' \in After(toClient, i)
          /\ HandleData(toClient[i]) \/ HandleAck(toClient[i])
  BY DEF ClientReceive
<1> DEFINE m == toClient[i]
<1>2. /\ toClient \in Seq(Downs) /\ i \in 1 .. Len(toClient) /\ m \in Downs
      /\ Ordered => i = 1 /\ toClient' = Without(toClient, 1)
  BY <1>1, Arrivals DEF Inv, Types, PathTypes
<1>3. /\ m.ack \in Nat /\ m.win \in Nat /\ m.ack <= Expected
      /\ actual \in Nat /\ acked \in Nat /\ Expected \in Nat
  BY <1>2, Fields, SizesNat
     DEF Downs, Inv, Sent, Types, ClientTypes, ServerTypes, Expected
<1>4. /\ UNCHANGED << network, cd, Expected, Available, pipelined, overflowed >>
      /\ win' = m.win
  BY <1>1 DEF ClientReceive, serverSide, Expected, Available, HandleData,
     HandleAck
<1>5. ~ ClientRead /\ Next
  BY <1>1 DEF ClientRead, ReadStdin, ClientReceive, Next
<1>6. LastUpload' /\ actual' = actual
  BY <1>5, LastUploadKept, UpsFrom DEF WaitInv
<1>7. \A j \in 1 .. Len(toClient') :
          \E k \in 1 .. Len(toClient) : toClient'[j] = toClient[k]
  BY <1>1, <1>2, AfterSome
<1>8. WindowsHold'
  BY <1>4, <1>7 DEF WaitInv, WindowsHold
<1>9. acked' = m.ack \/ acked' = acked
  BY <1>1 DEF HandleData, HandleAck, ResendLast, FirstData, NextData
<1>10. ASSUME Ordered' PROVE NeverBack' /\ KnownWindow' /\ Waiting'
  <2>1. NeverBack /\ KnownWindow /\ Waiting /\ Ordered
    BY <1>4, <1>10 DEF Ordered, WaitInv
  <2>2. i = 1 /\ toClient' = Without(toClient, 1) /\ acked <= m.ack
    BY <1>2, <2>1 DEF NeverBack
  <2>3. /\ Len(toClient) \in Nat /\ 1 \in 1 .. Len(toClient)
        /\ Len(toClient') = Len(toClient) - 1
        /\ \A j \in 1 .. Len(toClient) - 1 : toClient'[j] = toClient[j + 1]
    <3>1. 1 \in 1 .. Len(toClient)
      BY <1>2, <2>2
    <3>2. /\ Len(toClient) \in Nat
          /\ Len(Without(toClient, 1)) = Len(toClient) - 1
          /\ \A j \in 1 .. Len(toClient) - 1 :
                 Without(toClient, 1)[j] = IF j < 1 THEN toClient[j]
                                                   ELSE toClient[j + 1]
      BY <1>2, <3>1, WithoutTyped
    <3> QED
      BY <2>2, <3>1, <3>2
  <2>4. ASSUME NEW j \in 1 .. Len(toClient')
        PROVE  acked' <= toClient'[j].ack
    <3>1. j + 1 \in 1 .. Len(toClient) /\ 1 < j + 1
          /\ toClient'[j] = toClient[j + 1]
      BY <2>3
    <3>2. acked <= toClient'[j].ack /\ m.ack <= toClient'[j].ack
      BY <2>1, <2>2, <2>3, <3>1 DEF NeverBack
    <3> QED
      BY <1>9, <3>2
  <2>5. \A j, k \in 1 .. Len(toClient') :
            j < k => toClient'[j].ack <= toClient'[k].ack
    BY <1>2, <2>1, <2>2, RisingWithout DEF NeverBack
  <2>6. NeverBack'
    BY <2>4, <2>5 DEF NeverBack
  <2>7. ASSUME acked' = Expected PROVE win' <= Available
    <3>1. m.ack = Expected
      BY <1>3, <1>9, <2>2, <2>7
    <3> QED
      BY <1>2, <1>4, <3>1 DEF WaitInv, WindowsHold
  <2>8. KnownWindow'
    BY <1>4, <2>7 DEF KnownWindow
  <2>9. ASSUME ~ pipelined
        PROVE  /\ actual' <= acked' + 1
               /\ Expected < actual =>
                      2 * Len(last_datagram'[1].body) <= Available
               /\ ~ overflowed
    <3>1. /\ actual <= acked + 1 /\ ~ overflowed
          /\ Expected < actual => 2 * Len(last_datagram[1].body) <= Available
      BY <2>1, <2>9 DEF Waiting
    <3>2. acked' \in Nat /\ acked <= acked'
      BY <1>3, <1>9, <2>2
    <3>3. Expected < actual => last_datagram' = last_datagram
      <4>1. last_datagram' = last_datagram \/ first
        BY <1>5, UpsFrom
      <4>2. first => actual = 0
        BY DEF Inv, Fresh
      <4> QED
        BY <1>3, <4>1, <4>2
    <3>4. actual' <= acked' + 1
      <4>1. \A x, y, z \in Nat : x <= y + 1 /\ y <= z => x <= z + 1
        OBVIOUS
      <4>2. actual <= acked' + 1
        BY <1>3, <3>1, <3>2, <4>1
      <4> QED
        BY <1>6, <4>2
    <3> QED
      BY <3>1, <3>3, <3>4
  <2>10. Waiting'
    BY <1>4, <1>6, <2>9 DEF Waiting
  <2> QED
    BY <2>6, <2>8, <2>10
<1>11. pipelined' \in BOOLEAN /\ overflowed' \in BOOLEAN
  BY <1>4 DEF WaitInv
<1> QED
  BY <1>6, <1>8, <1>10, <1>11 DEF WaitInv

(* Stdin is read: a client that knows the last ACK knows how much fits.    *)
LEMMA WaitRead == Inv /\ WaitInv /\ ClientRead => WaitInv'
<1> SUFFICES ASSUME Inv, WaitInv, ClientRead PROVE WaitInv'
  OBVIOUS
<1>1. PICK n \in ChunkSizes : ReadStdin(n)
  BY DEF ClientRead
<1> DEFINE body   == [i \in 1 .. n |-> read + i]
           upload == UploadDgram(actual, body)
<1>2. /\ UNCHANGED << network, cd, Expected, Available, first, win, toClient,
             acked, overflowed >>
      /\ pc = "stdin" /\ actual' = actual + 1 /\ 2 * n <= win
      /\ last_datagram' = << upload >>
      /\ pipelined' = (pipelined \/ acked < actual)
  BY <1>1 DEF ClientRead, ReadStdin, serverSide, Expected, Available
<1>3. /\ n \in Nat /\ actual \in Nat /\ read \in Nat /\ acked \in Nat
      /\ Expected \in Nat /\ win \in Nat /\ Available \in Nat
  BY ClientAssumption, Fields, SizesNat, WindowFits
     DEF Inv, Types, ClientTypes, ServerTypes, Expected, Available
<1>4. /\ last_datagram'[1].body = body
      /\ Len(body) = n
  BY <1>2, <1>3 DEF UploadDgram
<1> HIDE DEF body, upload
<1>5. LastUpload' /\ ~ first
  BY <1>2, LastUploadKept DEF Next, Inv, Fresh, WaitInv
<1>6. WindowsHold'
  BY <1>2 DEF WaitInv, WindowsHold
<1>7. pipelined' \in BOOLEAN /\ overflowed' \in BOOLEAN
  BY <1>2 DEF WaitInv
<1>8. ASSUME Ordered' PROVE NeverBack' /\ KnownWindow' /\ Waiting'
  <2>1. NeverBack /\ KnownWindow /\ Waiting
    BY <1>2, <1>8 DEF Ordered, WaitInv
  <2>2. NeverBack' /\ KnownWindow'
    BY <1>2, <2>1 DEF NeverBack, KnownWindow
  <2>3. ASSUME ~ pipelined'
        PROVE  /\ actual' <= acked + 1
               /\ 2 * Len(last_datagram'[1].body) <= Available
               /\ ~ overflowed
    <3>1. ~ pipelined /\ ~ (acked < actual)
      BY <1>2, <2>3 DEF WaitInv
    <3>2. acked <= Expected /\ Expected <= actual
      BY DEF Inv, Sent
    <3>3. acked = actual /\ acked = Expected
      BY <1>3, <3>1, <3>2
    <3>4. win <= Available
      BY <1>5, <2>1, <3>3 DEF KnownWindow
    <3>5. 2 * n <= Available
      BY <1>2, <1>3, <3>4
    <3>6. actual' <= acked + 1
      BY <1>2, <1>3, <3>3
    <3> QED
      BY <1>4, <2>1, <3>1, <3>5, <3>6 DEF Waiting
  <2>4. Waiting'
    BY <1>2, <2>3 DEF Waiting
  <2> QED
    BY <2>2, <2>4
<1> QED
  BY <1>5, <1>6, <1>7, <1>8 DEF WaitInv

(* The UPLOAD that is expected arrives.                                    *)
LEMMA WaitAccept ==
    ASSUME Inv, WaitInv, ServerReceive, NEW i \in Arriving(toServer),
           toServer[i].type = "UPLOAD", AcceptUpload(toServer[i])
    PROVE  WaitInv'
<1> DEFINE m    == toServer[i]
           body == Fitting(m.body)
           a    == AckDgram(m.nr + 1, GetAvailableSize(cd'))
<1>1. /\ m.nr = Expected /\ cd' = AfterUpload(cd, body)
      /\ toClient' = Append(toClient, a)
      /\ overflowed' = (overflowed \/ UploadShift(cd, body) > 0)
  BY DEF AcceptUpload, Expected
<1>2. UNCHANGED << network, first, actual, acked, win, last_datagram, pipelined >>
  BY DEF ServerReceive, counters, last, history
<1>3. m \in Ups /\ i \in 1 .. Len(toServer)
  BY Arrivals DEF Inv, Types, PathTypes
<1>4. m.nr \in Nat /\ m.body \in Seq(Nat) /\ m.nr < actual
  BY <1>3 DEF Ups, ClientDgram, Inv, Sent
<1>5. /\ body \in Seq(Nat) /\ Len(body) \in Nat /\ Len(body) <= MaxQueueLength
      /\ Len(body) <= Len(m.body)
  BY <1>4, FittingFits
<1> HIDE DEF body
<1>6. cd' \in ObjectsOf({"client"}, Nat) /\ Expected' = Expected + 1
  BY <1>1, <1>5, UploadObject DEF Expected, Inv, Types, ServerTypes
<1>7. Available' \in 0 .. Widest
  BY <1>6, WindowFits DEF Available
<1>8. a \in Downs /\ a.ack = Expected + 1 /\ a.win = Available'
  <2>1. a = AckDgram(m.nr + 1, Available') /\ m.nr + 1 \in Nat
    BY <1>4 DEF Available
  <2> QED
    BY <1>1, <1>7, <2>1, DgramTypes DEF AckDgram
<1> HIDE DEF a
<1>9. /\ toClient \in Seq(Downs) /\ Expected \in Nat /\ actual \in Nat
      /\ acked \in Nat
  BY <1>1, <1>4 DEF Inv, Types, ClientTypes, PathTypes
<1>10. /\ Len(toClient) \in Nat /\ Len(toClient') = Len(toClient) + 1
       /\ \A j \in 1 .. Len(toClient) + 1 :
              toClient'[j] = IF j <= Len(toClient) THEN toClient[j] ELSE a
  BY <1>1, <1>8, <1>9, AppendTyped
<1>11. \A j \in 1 .. Len(toClient) :
           toClient[j].ack \in Nat /\ toClient[j].ack <= Expected
  BY <1>9, ElementOfSeq DEF Inv, Sent, Downs
<1>12. LastUpload'
  BY LastUploadKept DEF Next, WaitInv
<1>13. WindowsHold'
  <2>1. ASSUME NEW j \in 1 .. Len(toClient'), toClient'[j].ack = Expected'
        PROVE  toClient'[j].win <= Available'
    <3>1. CASE j \in 1 .. Len(toClient)
      <4>1. toClient'[j] = toClient[j]
        BY <1>10, <3>1
      <4> QED
        BY <1>6, <1>9, <1>11, <2>1, <3>1, <4>1
    <3>2. CASE j \notin 1 .. Len(toClient)
      <4>1. toClient'[j] = a
        BY <1>10, <3>2
      <4> QED
        BY <1>7, <1>8, <4>1
    <3> QED
      BY <3>1, <3>2
  <2> QED
    BY <2>1 DEF WindowsHold
<1>14. pipelined' \in BOOLEAN /\ overflowed' \in BOOLEAN
  BY <1>1, <1>2 DEF WaitInv
<1>15. acked < Expected'
  BY <1>6, <1>9 DEF Inv, Sent
<1>16. ASSUME Ordered' PROVE NeverBack' /\ KnownWindow' /\ Waiting'
  <2>1. NeverBack /\ KnownWindow /\ Waiting
    BY <1>2, <1>16 DEF Ordered, WaitInv
  <2>2. ASSUME NEW j \in 1 .. Len(toClient') PROVE acked' <= toClient'[j].ack
    <3>1. CASE j \in 1 .. Len(toClient)
      BY <1>2, <1>10, <2>1, <3>1 DEF NeverBack
    <3>2. CASE j \notin 1 .. Len(toClient)
      BY <1>2, <1>6, <1>8, <1>9, <1>10, <1>15, <3>2
    <3> QED
      BY <3>1, <3>2
  <2>3. ASSUME NEW j \in 1 .. Len(toClient'), NEW k \in 1 .. Len(toClient'),
               j < k
        PROVE  toClient'[j].ack <= toClient'[k].ack
    <3>1. j \in 1 .. Len(toClient) /\ toClient'[j] = toClient[j]
      BY <1>10, <2>3
    <3>2. CASE k \in 1 .. Len(toClient)
      BY <1>10, <2>1, <2>3, <3>1, <3>2 DEF NeverBack
    <3>3. CASE k \notin 1 .. Len(toClient)
      <4>1. toClient'[k].ack = Expected + 1
        BY <1>8, <1>10, <3>3
      <4> QED
        BY <1>9, <1>11, <3>1, <4>1
    <3> QED
      BY <3>2, <3>3
  <2>4. NeverBack'
    BY <2>2, <2>3 DEF NeverBack
  <2>5. KnownWindow'
    BY <1>2, <1>9, <1>6, <1>15 DEF KnownWindow
  <2>6. ASSUME ~ pipelined
        PROVE  ~ (Expected' < actual) /\ actual <= acked + 1 /\ ~ overflowed'
    <3>1. /\ actual <= acked + 1 /\ ~ overflowed
          /\ Expected < actual => 2 * Len(last_datagram[1].body) <= Available
      BY <2>1, <2>6 DEF Waiting
    <3>2. acked <= Expected
      BY DEF Inv, Sent
    <3>3. ~ (Expected' < actual) /\ Expected = actual - 1
      BY <1>1, <1>4, <1>6, <1>9, <3>1, <3>2
    <3>4. m = last_datagram[1] /\ 2 * Len(m.body) <= Available
      <4>1. actual > 0 /\ Expected < actual /\ m.nr = actual - 1
        BY <1>1, <1>4, <1>9, <3>3
      <4> QED
        BY <1>3, <3>1, <4>1 DEF WaitInv, LastUpload
    <3>5. Len(m.body) \in Nat
      BY <1>4
    <3>6. cd.queue_size \in Nat /\ Available = (MaxQueueLength - cd.queue_size) * 2
      BY Fields DEF Inv, Types, ServerTypes, Available, GetAvailableSize
    <3>7. cd.queue_size + Len(body) <= MaxQueueLength
      BY <1>5, <3>4, <3>5, <3>6, QueueLengthNat
    <3>8. ~ (UploadShift(cd, body) > 0)
      BY <1>5, <3>6, <3>7, QueueLengthNat DEF UploadShift
    <3> QED
      BY <1>1, <3>1, <3>3, <3>8
  <2>7. Waiting'
    BY <1>2, <2>6 DEF Waiting
  <2> QED
    BY <2>4, <2>5, <2>7
<1> QED
  BY <1>12, <1>13, <1>14, <1>16 DEF WaitInv

LEMMA TickEmpties ==
    ASSUME cd \in ObjectsOf({"client"}, Nat),
           cd' = IF RateQueueState(cd) = "ACTIVE"
                 THEN AfterMixery(cd, 2 * MixSamples) ELSE cd
    PROVE  Available <= Available'
<1>1. MixSamples \in Nat
  BY SessionAssumption
<1>2. /\ cd.queue \in Seq(Nat) /\ cd.queue_size = Len(cd.queue)
      /\ Len(cd.queue) \in Nat /\ Len(cd.queue) <= MaxQueueLength
  BY Fields
<1>3. CASE RateQueueState(cd) = "ACTIVE"
  <2> DEFINE q == PopFront(cd.queue, (2 * MixSamples) \div 2)
  <2>1. (2 * MixSamples) \div 2 = MixSamples
    BY <1>1
  <2>2. q = SubSeq(cd.queue, MixSamples + 1, Len(cd.queue))
    BY <2>1 DEF PopFront
  <2>3. Len(q) \in Nat /\ Len(q) <= Len(cd.queue)
    <3>1. Len(q) = IF MixSamples <= Len(cd.queue)
                   THEN Len(cd.queue) - MixSamples ELSE 0
      BY <1>1, <1>2, <2>2, Suffix
    <3> HIDE DEF q
    <3> QED
      BY <1>1, <1>2, <3>1
  <2>4. cd' = [cd EXCEPT !.queue = q, !.queue_size = Len(q),
                         !.min_bytes = Smaller(@, Len(q) * 2)]
    BY <1>3 DEF AfterMixery
  <2> HIDE DEF q
  <2>5. cd'.queue_size = Len(q)
    BY <2>4 DEF ObjectsOf, CDTypeOf
  <2> QED
    BY <1>2, <2>3, <2>5, QueueLengthNat DEF Available, GetAvailableSize
<1>4. CASE RateQueueState(cd) # "ACTIVE"
  <2>1. Available' = Available
    BY <1>4 DEF Available
  <2>2. Available \in Nat
    BY <1>2, QueueLengthNat DEF Available, GetAvailableSize
  <2> QED
    BY <2>1, <2>2
<1> QED
  BY <1>3, <1>4

(* A tick: what the new DATA announces is there, and the ones before it    *)
(* announced less.                                                         *)
LEMMA WaitMixer == Inv /\ WaitInv /\ Mixer => WaitInv'
<1> SUFFICES ASSUME Inv, WaitInv, Mixer PROVE WaitInv'
  OBVIOUS
<1> DEFINE aged == Aged(toClient)
           d    == DataDgram(Expected, GetAvailableSize(cd'))
<1>1. /\ UNCHANGED << network, first, actual, acked, win, last_datagram,
             pipelined, overflowed >>
      /\ cd' = IF RateQueueState(cd) = "ACTIVE"
               THEN AfterMixery(cd, 2 * MixSamples) ELSE cd
      /\ toClient' = aged \/ toClient' = Append(aged, d)
      /\ \A i \in DataInFlight : toClient[i].age < MaxAge
  BY DEF Mixer, history, last, Expected
<1>2. cd \in ObjectsOf({"client"}, Nat) /\ toClient \in Seq(Downs)
  BY DEF Inv, Types, PathTypes, ServerTypes
<1>3. cd' \in ObjectsOf({"client"}, Nat) /\ Expected' = Expected
  BY <1>1, <1>2, TickObject
<1>4. /\ Expected \in Nat
      /\ Available \in Nat /\ Available' \in 0 .. Widest
      /\ Available' \in Nat /\ Available <= Available'
  BY <1>1, <1>2, <1>3, Fields, WindowFits, SizesNat, TickEmpties
     DEF Expected, Available
<1>5. \A i \in 1 .. Len(toClient) :
          toClient[i].type = "DATA" => toClient[i].age < MaxAge
  BY <1>1, <1>2 DEF DataInFlight
<1>6. /\ aged \in Seq(Downs) /\ Len(aged) = Len(toClient)
      /\ \A i \in 1 .. Len(toClient) :
             aged[i].win = toClient[i].win /\ aged[i].ack = toClient[i].ack
  BY <1>2, <1>5, AgedTyped
<1> HIDE DEF aged
<1>7. d \in Downs /\ d.ack = Expected /\ d.win = Available'
  <2>1. d = DataDgram(Expected, Available')
    BY DEF Available
  <2> QED
    BY <1>4, <2>1, DgramTypes DEF DataDgram
<1> HIDE DEF d
<1>8. /\ Len(toClient) \in Nat
      /\ Len(toClient') \in {Len(toClient), Len(toClient) + 1}
      /\ \A i \in 1 .. Len(toClient) : /\ toClient'[i].win = toClient[i].win
                                       /\ toClient'[i].ack = toClient[i].ack
      /\ \A i \in 1 .. Len(toClient') :
             i \in 1 .. Len(toClient) \/ toClient'[i] = d
  <2>1. Len(toClient) \in Nat
    BY <1>2
  <2>2. CASE toClient' = aged
    BY <1>6, <2>1, <2>2
  <2>3. CASE toClient' = Append(aged, d)
    <3>1. /\ Len(toClient') = Len(toClient) + 1
          /\ \A i \in 1 .. Len(toClient) + 1 :
                 toClient'[i] = IF i <= Len(toClient) THEN aged[i] ELSE d
      BY <1>6, <1>7, <2>3, AppendTyped
    <3> QED
      BY <1>6, <2>1, <3>1
  <2> QED
    BY <1>1, <2>1, <2>2, <2>3
<1>9. \A i \in 1 .. Len(toClient) :
          /\ toClient[i].ack \in Nat /\ toClient[i].ack <= Expected
          /\ toClient[i].win \in Nat
  BY <1>2, ElementOfSeq, SizesNat DEF Inv, Sent, Downs
<1>10. LastUpload' /\ pipelined' \in BOOLEAN /\ overflowed' \in BOOLEAN
  BY <1>1, LastUploadKept DEF Next, WaitInv
<1>11. WindowsHold'
  <2>1. ASSUME NEW i \in 1 .. Len(toClient'), toClient'[i].ack = Expected'
        PROVE  toClient'[i].win <= Available'
    <3>1. CASE i \in 1 .. Len(toClient)
      <4>1. toClient[i].win <= Available
        BY <1>3, <1>8, <2>1, <3>1 DEF WaitInv, WindowsHold
      <4> QED
        BY <1>4, <1>8, <1>9, <3>1, <4>1
    <3>2. CASE toClient'[i] = d
      BY <1>4, <1>7, <3>2
    <3> QED
      BY <1>8, <3>1, <3>2
  <2> QED
    BY <2>1 DEF WindowsHold
<1>12. ASSUME Ordered' PROVE NeverBack' /\ KnownWindow' /\ Waiting'
  <2>1. NeverBack /\ KnownWindow /\ Waiting
    BY <1>1, <1>12 DEF Ordered, WaitInv
  <2>2. acked \in Nat /\ acked <= Expected
    BY DEF Inv, Sent, Types, ClientTypes
  <2>3. ASSUME NEW i \in 1 .. Len(toClient') PROVE acked' <= toClient'[i].ack
    <3>1. CASE i \in 1 .. Len(toClient)
      BY <1>1, <1>8, <2>1, <3>1 DEF NeverBack
    <3>2. CASE toClient'[i] = d
      BY <1>1, <1>7, <2>2, <3>2
    <3> QED
      BY <1>8, <3>1, <3>2
  <2>4. ASSUME NEW j \in 1 .. Len(toClient'), NEW k \in 1 .. Len(toClient'),
               j < k
        PROVE  toClient'[j].ack <= toClient'[k].ack
    <3>1. j \in 1 .. Len(toClient) /\ toClient'[j].ack = toClient[j].ack
      BY <1>8, <2>4
    <3>2. CASE k \in 1 .. Len(toClient)
      BY <1>8, <2>1, <2>4, <3>1, <3>2 DEF NeverBack
    <3>3. CASE toClient'[k] = d
      BY <1>7, <1>9, <3>1, <3>3
    <3> QED
      BY <1>8, <3>2, <3>3
  <2>5. NeverBack'
    BY <2>3, <2>4 DEF NeverBack
  <2>6. KnownWindow'
    <3>1. win \in Nat
      BY SizesNat DEF Inv, Types, ClientTypes
    <3> QED
      BY <1>1, <1>3, <1>4, <2>1, <3>1 DEF KnownWindow
  <2>7. Waiting'
    <3>1. ASSUME Expected < actual PROVE Len(last_datagram[1].body) \in Nat
      <4>1. actual > 0
        BY <1>4, <3>1 DEF Inv, Types, ClientTypes
      <4>2. last_datagram[1] \in Ups /\ last_datagram[1].type = "UPLOAD"
        <5>1. Len(last_datagram) = 1 /\ last_datagram[1].type = "UPLOAD"
          BY <4>1 DEF WaitInv, LastUpload
        <5>2. last_datagram \in Seq(Ups)
          BY DEF Inv, Types, ClientTypes
        <5> QED
          BY <5>1, <5>2, ElementOfSeq
      <4>3. last_datagram[1].body \in Seq(Nat)
        BY <4>2 DEF Ups, ClientDgram
      <4> QED
        BY <4>3
    <3>2. ASSUME Expected < actual,
                 2 * Len(last_datagram[1].body) <= Available
          PROVE  2 * Len(last_datagram[1].body) <= Available'
      BY <1>4, <3>1, <3>2
    <3> QED
      BY <1>1, <1>3, <2>1, <3>2 DEF Waiting
  <2> QED
    BY <2>5, <2>6, <2>7
<1> QED
  BY <1>10, <1>11, <1>12 DEF WaitInv

LEMMA WaitNext == Inv /\ WaitInv /\ Next => WaitInv'
<1> SUFFICES ASSUME Inv, WaitInv, Next PROVE WaitInv'
  OBVIOUS
<1>1. CASE ClientStep \/ ClientEnds
  <2>1. UNCHANGED << network, first, actual, acked, win, cd, last_datagram,
               pipelined, overflowed, toClient >>
    BY <1>1 DEF ClientStep, ClientEnds, Register, WriteStdout, StreamEnds,
       counters, history, last, serverSide
  <2> QED
    BY <2>1, WaitKept
<1>2. CASE ServerReceive
  <2>1. PICK i \in Arriving(toServer) :
            \/ RegisterClient
            \/ /\ toServer[i].type = "UPLOAD"
               /\ AcceptUpload(toServer[i]) \/ DropUpload(toServer[i])
    BY <1>2 DEF ServerReceive
  <2>2. CASE toServer[i].type = "UPLOAD" /\ AcceptUpload(toServer[i])
    BY <1>2, <2>2, WaitAccept
  <2>3. CASE RegisterClient \/ DropUpload(toServer[i])
    <3>1. UNCHANGED << network, first, actual, acked, win, cd, last_datagram,
                 pipelined, overflowed, toClient >>
      BY <1>2, <2>3 DEF ServerReceive, RegisterClient, DropUpload, counters,
         history, last, serverSide
    <3> QED
      BY <3>1, WaitKept
  <2> QED
    BY <2>1, <2>2, <2>3
<1>3. CASE Lose
  <2>1. UNCHANGED << network, first, actual, acked, win, cd, last_datagram,
               pipelined, overflowed >>
    BY <1>3 DEF Lose, counters, history, last, serverSide
  <2>2. DOMAIN toClient = 1 .. Len(toClient)
    BY DEF Inv, Types, PathTypes
  <2>3. \/ UNCHANGED toClient
        \/ \E i \in 1 .. Len(toClient) : toClient' = Without(toClient, i)
    BY <1>3, <2>2 DEF Lose
  <2> QED
    BY <2>1, <2>3, WaitKept
<1> QED
  BY <1>1, <1>2, <1>3, WaitReceive, WaitRead, WaitMixer DEF Next

LEMMA Waits == Spec => []WaitInv
<1>1. Init => WaitInv
  BY WaitInit
<1>2. Inv /\ WaitInv /\ [Next]_vars => WaitInv'
  <2> SUFFICES ASSUME Inv, WaitInv, UNCHANGED vars PROVE WaitInv'
    BY WaitNext
  <2>1. UNCHANGED << network, first, actual, acked, win, last_datagram,
               toServer, toClient, cd, pipelined, overflowed >>
    BY DEF vars, clientVars, counters, last, history, serverSide
  <2>2. UNCHANGED << Expected, Available, Ordered >>
    BY <2>1 DEF Expected, Available, Ordered
  <2> QED
    BY <2>1, <2>2 DEF WaitInv, LastUpload, WindowsHold, NeverBack,
       KnownWindow, Waiting
<1> QED
  BY <1>1, <1>2, Invariance, PTL DEF Spec

(* A client that waits for every ACK before the next UPLOAD never pushes a *)
(* sample out of its FIFO (client.cc:551-554, client_data.cc:71-84).       *)
THEOREM WaitingNeverOverflows == Spec => []OverflowNeedsPipelining
<1>1. WaitInv => OverflowNeedsPipelining
  BY DEF WaitInv, Waiting, OverflowNeedsPipelining
<1> QED
  BY <1>1, Waits, PTL

(* What such a client sends again is what the server waits for             *)
(* (client.cc:440-450, server.cc:284).                                     *)
THEOREM LastIsWhatIsMissing == Spec => []LastIsMissing
<1>1. Inv /\ WaitInv => LastIsMissing
  <2> SUFFICES ASSUME Inv, WaitInv, ~ pipelined, Ordered, Expected < actual
               PROVE  /\ last_datagram[1].type = "UPLOAD"
                      /\ last_datagram[1].nr = Expected
    BY DEF LastIsMissing, Expected
  <2>1. /\ actual \in Nat /\ acked \in Nat /\ Expected \in Nat
        /\ acked <= Expected
    BY Fields DEF Inv, Sent, Types, ClientTypes, ServerTypes, Expected
  <2>2. actual <= acked + 1
    BY DEF WaitInv, Waiting
  <2>3. actual > 0 /\ Expected = actual - 1
    BY <2>1, <2>2
  <2> QED
    BY <2>3 DEF WaitInv, LastUpload
<1> QED
  BY <1>1, Invariance, Waits, PTL
=============================================================================
