----------------------------- MODULE ServerProofs -----------------------------
(***************************************************************************)
(* Proofs about Server, for any number of peers and any options: the types *)
(* of its state, the chain of receives, that the two maps of clients agree *)
(* so that no tick and no report brings the server down, that data are     *)
(* kept for connected clients only, that no client is brought down by      *)
(* another nor credited with its samples, and that every ACK is counted    *)
(* and true, in every order of datagrams, writes and ticks.                *)
(***************************************************************************)
EXTENDS Server, ClientDataOpsProofs

Ids     == FirstId + 1 .. clientid
Headers == [type : {"CLIENT", "UPLOAD", "RETRANSMIT", "KEEPALIVE", "OTHER"},
            nr : Nat]
Cells   == Headers \cup Peers
Longest == MaxQueueLength + 1

Dgrams == {m \in [from : Peers, cells : Seq(Cells)] :
               Len(m.cells) \in 1 .. Longest /\ m.cells[1] \in Headers}

Acks == [ack : Nat, win : Nat, to : Peers]

Objects == ObjectsOf(Peers, Cells)

-----------------------------------------------------------------------------
(* The inductive invariant.  Besides types it says who is behind an id:    *)
(* everywhere an id is written down, the same peer stands next to it.      *)
IdTypes ==
    /\ status \in {"running", "crashed"}
    /\ open \in BOOLEAN
    /\ clientid \in Nat /\ clientid >= FirstId
    /\ connections \subseteq Ids
    /\ writes \in [Ids -> Nat]
    /\ idOf \in [Peers -> {0} \cup Ids]
    /\ broken \subseteq Ids
    /\ reused \subseteq Peers /\ heard \subseteq Peers
    /\ nr \in Nat

DgramTypes ==
    /\ net \subseteq Dgrams
    /\ read_buf \in Seq(Cells)
    /\ receives \in Nat /\ resends \in Nat /\ resent \in Nat /\ ended \in Nat
    /\ completed \in Seq(1 .. Longest)
    /\ \A i \in 1 .. Len(completed) : completed[i] <= Len(read_buf)
    /\ sender \in Peers \cup {"none"}
    /\ acks \in Seq(Acks)
    /\ Len(read_buf) > 0 => read_buf[1] \in Headers /\ sender \in Peers
    /\ acks # << >> => Len(read_buf) > 0

MapTypes ==
    /\ DOMAIN client_map \subseteq Peers
    /\ client_map \in [DOMAIN client_map -> Ids]
    /\ DOMAIN client_data \subseteq Ids
    /\ client_data \in [DOMAIN client_data -> Objects]

Chain == receives + Len(completed) + Len(acks) + ended = 1 + resent

Owned(owner) ==
    /\ \A p \in Peers : idOf[p] # 0 => owner[idOf[p]] = p
    /\ \A id \in Ids : idOf[owner[id]] # id => owner[id] \in reused
    /\ \A m \in net : m.cells[1].type = "CLIENT" =>
           m.cells[1].nr \in Ids /\ owner[m.cells[1].nr] = m.from
    /\ Len(read_buf) > 0 /\ read_buf[1].type = "CLIENT" =>
           read_buf[1].nr \in Ids /\ owner[read_buf[1].nr] = sender
    /\ \A id \in DOMAIN client_data : client_data[id].udp_endpoint = owner[id]

Owners == \E owner \in [Ids -> Peers] : Owned(owner)

Inv == IdTypes /\ DgramTypes /\ MapTypes /\ Chain /\ Owners /\ MapsConsistent

-----------------------------------------------------------------------------
LEMMA Lengths == MaxQueueLength \in Nat /\ Longest \in Nat /\ Longest = MaxQueueLength + 1
BY WatermarkAssumption DEF MaxQueueLength, Longest

(* A datagram over the old contents of the buffer.                         *)
LEMMA Overlay ==
    ASSUME NEW S, NEW a \in Seq(S), NEW b \in Seq(S), Len(a) > 0
    PROVE  LET c == a \o SubSeq(b, Len(a) + 1, Len(b))
           IN  /\ c \in Seq(S)
               /\ Len(c) \in Nat /\ Len(c) >= Len(a) /\ Len(c) >= Len(b)
               /\ c[1] = a[1]
<1> DEFINE t == SubSeq(b, Len(a) + 1, Len(b))
<1>1. Len(a) \in Nat /\ Len(b) \in Nat
  OBVIOUS
<1>2. /\ t \in Seq(S)
      /\ Len(t) = IF Len(a) <= Len(b) THEN Len(b) - Len(a) ELSE 0
  BY <1>1, Suffix
<1> HIDE DEF t
<1>3. /\ a \o t \in Seq(S)
      /\ Len(a \o t) = Len(a) + Len(t)
      /\ \A i \in 1 .. Len(a) + Len(t) :
             (a \o t)[i] = IF i <= Len(a) THEN a[i] ELSE t[i - Len(a)]
  BY <1>2, ConcatProperties
<1>4. Len(t) \in Nat
  BY <1>2
<1>5. 1 \in 1 .. Len(a) + Len(t) /\ 1 <= Len(a)
  BY <1>1, <1>4
<1>6. (a \o t)[1] = a[1]
  BY <1>3, <1>5
<1> QED
  BY <1>1, <1>2, <1>3, <1>4, <1>6 DEF t

LEMMA NewObject ==
    ASSUME NEW p \in Peers
    PROVE  NewClientData(p) \in Objects /\ NewClientData(p).udp_endpoint = p
BY NewObjectOf DEF Objects

-----------------------------------------------------------------------------
(* Init, and the steps that bring the server down.                         *)
LEMMA EmptyMap == /\ << >> \in [{} -> Nat]
                  /\ DOMAIN << >> = {}
                  /\ \A S : << >> \in Seq(S) /\ Len(<< >>) = 0
OBVIOUS

LEMMA InitInv == Init => Inv
<1> SUFFICES ASSUME Init PROVE Inv
  OBVIOUS
<1>1. Ids = {} /\ clientid \in Nat /\ FirstId \in Nat
  BY DEF Init, Ids, FirstId
<1>2. IdTypes
  BY <1>1, EmptyMap DEF Init, IdTypes, FirstId
<1>3. DgramTypes
  BY EmptyMap DEF Init, DgramTypes
<1>4. MapTypes
  BY EmptyMap DEF Init, MapTypes
<1>5. Chain
  BY EmptyMap DEF Init, Chain
<1>6. Owners
  <2>1. \E owner : owner \in [Ids -> Peers]
    BY <1>1, EmptyMap
  <2>2. PICK owner \in [Ids -> Peers] : TRUE
    BY <2>1
  <2>3. Owned(owner)
    BY <1>1, EmptyMap DEF Init, Owned
  <2> QED
    BY <2>3 DEF Owners
<1>7. MapsConsistent
  BY EmptyMap DEF Init, MapsConsistent
<1> QED
  BY <1>2, <1>3, <1>4, <1>5, <1>6, <1>7 DEF Inv

(* Nothing of the state changes but its status.                            *)
LEMMA Unchanged ==
    ASSUME Inv, status' \in {"running", "crashed"},
           UNCHANGED << open, serverVars, udpVars, peerVars >>
    PROVE  Inv'
<1>1. UNCHANGED << open, clientid, connections, writes, client_map, client_data,
          nr, receives, completed, read_buf, sender, acks, resends, resent,
          ended, idOf, broken, reused, heard, net >>
  BY DEF serverVars, udpVars, histories, peerVars
<1>2. IdTypes' /\ DgramTypes'
  BY <1>1 DEF Inv, IdTypes, DgramTypes, Ids
<1>3. MapTypes' /\ Chain' /\ MapsConsistent'
  BY <1>1 DEF Inv, MapTypes, Chain, MapsConsistent, Ids
<1>4. Owners'
  BY <1>1 DEF Inv, Owners, Owned, Ids
<1> QED
  BY <1>2, <1>3, <1>4 DEF Inv

LEMMA CrashInv == Inv /\ Crash => Inv'
BY Unchanged DEF Crash

(* Ids and maps are what they were, and no datagram is new.                *)
LEMMA OwnersKept ==
    ASSUME Inv, UNCHANGED << clientid, idOf, reused >>,
           net' \subseteq net,
           UNCHANGED << read_buf, sender >>,
           DOMAIN client_data' \subseteq DOMAIN client_data,
           \A id \in DOMAIN client_data' :
               client_data'[id].udp_endpoint = client_data[id].udp_endpoint
    PROVE  Owners'
<1>1. PICK owner \in [Ids -> Peers] : Owned(owner)
  BY DEF Inv, Owners
<1>2. Ids' = Ids
  BY DEF Ids
<1>3. Owned(owner)'
  BY <1>1, <1>2 DEF Owned
<1> QED
  BY <1>2, <1>3 DEF Owners

LEMMA MapsKept ==
    ASSUME Inv, UNCHANGED << clientid, client_map, reused >>,
           DOMAIN client_data' = DOMAIN client_data,
           client_data' \in [DOMAIN client_data -> Objects],
           \A id \in DOMAIN client_data :
               client_data'[id].udp_endpoint = client_data[id].udp_endpoint
    PROVE  MapTypes' /\ MapsConsistent'
<1>1. MapTypes'
  BY DEF Inv, MapTypes, Ids
<1>2. MapsConsistent'
  BY DEF Inv, MapsConsistent
<1> QED
  BY <1>1, <1>2
-----------------------------------------------------------------------------
(* TCP, timers and the stop signal *)

(* A new id is nobody else's, and a peer that comes back leaves its old    *)
(* one behind.                                                             *)
LEMMA AcceptInv == ASSUME Inv, NEW p \in Peers, Accept(p) PROVE Inv'
<1> DEFINE n == clientid + 1
<1>1. /\ UNCHANGED << status, open, client_map, client_data, nr, receives,
             completed, read_buf, sender, acks, resends, resent, ended,
             broken, net >>
      /\ clientid' = n /\ n \in Nat /\ n >= FirstId /\ FirstId \in Nat
      /\ reused' = IF idOf[p] = 0 THEN reused ELSE reused \cup {p}
      /\ heard' = heard \ {p}
  BY DEF Inv, IdTypes, Accept, udpVars, histories, FirstId
<1>2. /\ connections' = connections \cup {n}
      /\ writes' = Insert(writes, n, 1)
      /\ idOf' = [idOf EXCEPT ![p] = n]
  BY DEF Accept
<1>3. Ids' = Ids \cup {n} /\ n \notin Ids /\ n # 0
  BY <1>1 DEF Inv, IdTypes, Ids, FirstId
<1>4. writes' \in [Ids' -> Nat]
  BY <1>2, <1>3 DEF Inv, IdTypes, Insert
<1>5. idOf' \in [Peers -> {0} \cup Ids']
  BY <1>2, <1>3 DEF Inv, IdTypes
<1>6. IdTypes'
  BY <1>1, <1>2, <1>3, <1>4, <1>5 DEF Inv, IdTypes
<1>7. DgramTypes' /\ Chain'
  BY <1>1 DEF Inv, DgramTypes, Chain
<1>8. MapTypes'
  BY <1>1, <1>3 DEF Inv, MapTypes
<1>9. MapsConsistent'
  BY <1>1 DEF Inv, MapsConsistent
<1>10. Owners'
  <2>1. PICK owner \in [Ids -> Peers] : Owned(owner)
    BY DEF Inv, Owners
  <2>2. \E owner2 \in [Ids' -> Peers] :
            owner2[n] = p /\ \A id \in Ids : owner2[id] = owner[id]
    <3> DEFINE f == [id \in Ids' |-> IF id = n THEN p ELSE owner[id]]
    <3>1. f \in [Ids' -> Peers]
      BY <1>3, <2>1
    <3>2. f[n] = p /\ \A id \in Ids : f[id] = owner[id]
      BY <1>3
    <3> QED
      BY <3>1, <3>2
  <2>3. PICK owner2 \in [Ids' -> Peers] :
            owner2[n] = p /\ \A id \in Ids : owner2[id] = owner[id]
    BY <2>2
  <2>4. ASSUME NEW q \in Peers, idOf'[q] # 0 PROVE owner2[idOf'[q]] = q
    <3>1. CASE q = p
      BY <1>2, <2>3, <3>1 DEF Inv, IdTypes
    <3>2. CASE q # p
      <4>1. idOf'[q] = idOf[q] /\ idOf[q] \in Ids
        BY <1>2, <2>4, <3>2 DEF Inv, IdTypes
      <4> QED
        BY <2>1, <2>3, <2>4, <4>1 DEF Owned
    <3> QED
      BY <3>1, <3>2
  <2>5. ASSUME NEW id \in Ids', idOf'[owner2[id]] # id
        PROVE  owner2[id] \in reused'
    <3>1. id \in Ids /\ owner2[id] = owner[id]
      BY <1>2, <1>3, <2>3, <2>5 DEF Inv, IdTypes
    <3>2. CASE owner[id] = p
      <4>1. idOf[p] = id => p \in reused'
        BY <1>1, <1>3, <3>1 DEF Inv, Ids, FirstId
      <4>2. idOf[p] # id => p \in reused'
        BY <1>1, <2>1, <3>1, <3>2 DEF Owned
      <4> QED
        BY <3>1, <3>2, <4>1, <4>2
    <3>3. CASE owner[id] # p
      <4>1. owner[id] \in Peers /\ idOf'[owner[id]] = idOf[owner[id]]
        BY <1>2, <2>1, <3>1, <3>3 DEF Inv, IdTypes
      <4> QED
        BY <1>1, <2>1, <2>5, <3>1, <4>1 DEF Owned
    <3> QED
      BY <3>2, <3>3
  <2>6. \A m \in net' : m.cells[1].type = "CLIENT" =>
            m.cells[1].nr \in Ids' /\ owner2[m.cells[1].nr] = m.from
    BY <1>1, <1>3, <2>1, <2>3 DEF Owned
  <2>7. Len(read_buf') > 0 /\ read_buf'[1].type = "CLIENT" =>
            read_buf'[1].nr \in Ids' /\ owner2[read_buf'[1].nr] = sender'
    BY <1>1, <1>3, <2>1, <2>3 DEF Owned
  <2>8. \A id \in DOMAIN client_data' :
            client_data'[id].udp_endpoint = owner2[id]
    BY <1>1, <2>1, <2>3 DEF Owned, Inv, MapTypes
  <2>9. Owned(owner2)'
    BY <2>4, <2>5, <2>6, <2>7, <2>8 DEF Owned
  <2> QED
    BY <2>3, <2>9 DEF Owners
<1> QED
  BY <1>6, <1>7, <1>8, <1>9, <1>10 DEF Inv

LEMMA WriteOkInv == ASSUME Inv, NEW id \in DOMAIN writes, WriteOk(id) PROVE Inv'
<1>1. /\ UNCHANGED << status, open, clientid, connections, client_map,
             client_data, nr, receives, completed, read_buf, sender, acks,
             resends, resent, ended, idOf, broken, reused, heard, net >>
      /\ writes' = [writes EXCEPT ![id] = @ - 1] /\ writes[id] > 0
  BY DEF WriteOk, udpVars, histories, peerVars
<1>2. writes' \in [Ids -> Nat]
  BY <1>1 DEF Inv, IdTypes
<1>3. IdTypes' /\ DgramTypes' /\ Chain'
  BY <1>1, <1>2 DEF Inv, IdTypes, DgramTypes, Chain, Ids
<1>4. MapTypes' /\ MapsConsistent'
  BY <1>1 DEF Inv, MapTypes, MapsConsistent, Ids
<1>5. Owners'
  BY <1>1, OwnersKept
<1> QED
  BY <1>3, <1>4, <1>5 DEF Inv

(* The data of one client go, and with them the endpoint that leads there; *)
(* of an endpoint used again, also the way to the data of the other id.    *)
LEMMA WriteFailsInv ==
    ASSUME Inv, NEW id \in DOMAIN writes, WriteFails(id) PROVE Inv'
<1>1. CASE id \notin DOMAIN client_data
  BY <1>1, CrashInv DEF WriteFails
<1>2. CASE id \in DOMAIN client_data
  <2> DEFINE ep == client_data[id].udp_endpoint
  <2>1. /\ UNCHANGED << status, open, clientid, nr, receives, completed,
               read_buf, sender, acks, resends, resent, ended, idOf, broken,
               reused, heard, net >>
        /\ writes' = [writes EXCEPT ![id] = @ - 1] /\ writes[id] > 0
        /\ connections' = connections \ {id}
        /\ client_map' = Erase(client_map, ep)
        /\ client_data' = Erase(client_data, id)
    BY <1>2 DEF WriteFails, FreeResources, udpVars, histories, peerVars
  <2>2. writes' \in [Ids -> Nat]
    BY <2>1 DEF Inv, IdTypes
  <2>3. IdTypes' /\ DgramTypes' /\ Chain'
    BY <2>1, <2>2 DEF Inv, IdTypes, DgramTypes, Chain, Ids
  <2>4. /\ DOMAIN client_map' = DOMAIN client_map \ {ep}
        /\ \A e \in DOMAIN client_map' : client_map'[e] = client_map[e]
        /\ client_map' \in [DOMAIN client_map' -> Ids]
        /\ DOMAIN client_data' = DOMAIN client_data \ {id}
        /\ \A k \in DOMAIN client_data' : client_data'[k] = client_data[k]
        /\ client_data' \in [DOMAIN client_data' -> Objects]
    BY <2>1 DEF Erase, Inv, MapTypes
  <2>5. MapTypes'
    BY <2>1, <2>4 DEF Inv, MapTypes, Ids
  <2>6. Owners'
    BY <2>1, <2>4, OwnersKept
  <2>7. ASSUME NEW e \in DOMAIN client_map'
        PROVE  /\ client_map'[e] \in DOMAIN client_data'
               /\ client_data'[client_map'[e]].udp_endpoint = e
    <3>1. /\ e \in DOMAIN client_map /\ e # ep
          /\ client_map[e] \in DOMAIN client_data
          /\ client_data[client_map[e]].udp_endpoint = e
      BY <2>4 DEF Inv, MapsConsistent
    <3>2. client_map[e] # id
      BY <3>1
    <3> QED
      BY <2>4, <3>1, <3>2
  <2>8. ASSUME NEW k \in DOMAIN client_data',
               client_data'[k].udp_endpoint \notin reused'
        PROVE  /\ client_data'[k].udp_endpoint \in DOMAIN client_map'
               /\ client_map'[client_data'[k].udp_endpoint] = k
    <3>1. /\ k \in DOMAIN client_data /\ k # id
          /\ client_data'[k] = client_data[k]
          /\ client_data[k].udp_endpoint \notin reused
      BY <2>1, <2>4, <2>8
    <3>2. /\ client_data[k].udp_endpoint \in DOMAIN client_map
          /\ client_map[client_data[k].udp_endpoint] = k
      BY <3>1 DEF Inv, MapsConsistent
    <3>3. ep \notin reused /\ ep = client_data[k].udp_endpoint
              => client_map[ep] = id
      BY <1>2 DEF Inv, MapsConsistent
    <3>4. client_data[k].udp_endpoint # ep
      BY <3>1, <3>2, <3>3
    <3> QED
      BY <2>4, <3>1, <3>2, <3>4
  <2>9. MapsConsistent'
    BY <2>7, <2>8 DEF MapsConsistent
  <2> QED
    BY <2>3, <2>5, <2>6, <2>9 DEF Inv
<1> QED
  BY <1>1, <1>2
LEMMA RaportInv == Inv /\ Raport => Inv'
<1> SUFFICES ASSUME Inv, Raport PROVE Inv'
  OBVIOUS
<1>1. CASE \E id \in Mapped : id \notin DOMAIN client_data
  BY <1>1, CrashInv DEF Raport
<1>2. CASE ~ \E id \in Mapped : id \notin DOMAIN client_data
  <2>1. /\ UNCHANGED << status, open, clientid, connections, client_map, nr,
               receives, completed, read_buf, sender, acks, resends, resent,
               ended, idOf, broken, reused, heard, net >>
        /\ client_data' = [id \in DOMAIN client_data |->
               IF id \in Mapped THEN ResetStatistics(client_data[id])
                                ELSE client_data[id]]
        /\ writes' = [id \in DOMAIN writes |->
               IF id \in connections THEN writes[id] + 1 ELSE writes[id]]
    BY <1>2 DEF Raport, udpVars, histories, peerVars
  <2>2. writes' \in [Ids -> Nat]
    BY <2>1 DEF Inv, IdTypes
  <2>3. IdTypes' /\ DgramTypes' /\ Chain'
    BY <2>1, <2>2 DEF Inv, IdTypes, DgramTypes, Chain, Ids
  <2>4. ASSUME NEW id \in DOMAIN client_data
        PROVE  /\ client_data'[id] \in Objects
               /\ client_data'[id].udp_endpoint = client_data[id].udp_endpoint
    <3>1. client_data[id] \in Objects
      BY DEF Inv, MapTypes
    <3> QED
      BY <2>1, <3>1, StatisticsObject DEF Objects
  <2>5. /\ DOMAIN client_data' = DOMAIN client_data
        /\ client_data' \in [DOMAIN client_data -> Objects]
    BY <2>1, <2>4
  <2> QED
    BY <2>1, <2>3, <2>4, <2>5, MapsKept, OwnersKept DEF Inv
<1> QED
  BY <1>1, <1>2

LEMMA MixerInv == Inv /\ Mixer => Inv'
<1> SUFFICES ASSUME Inv, Mixer PROVE Inv'
  OBVIOUS
<1>1. CASE MixerCrashes
  BY <1>1, CrashInv DEF Mixer
<1>2. CASE ~ MixerCrashes
  <2>1. /\ UNCHANGED << status, open, clientid, connections, writes, client_map,
               receives, completed, read_buf, sender, acks, resends, resent,
               ended, idOf, broken, reused, net >>
        /\ client_data' = [id \in DOMAIN client_data |-> AfterTick(id)]
        /\ heard' = heard \cup
               {client_data[id].udp_endpoint : id \in DOMAIN client_data}
        /\ nr' = nr + 1
    BY <1>2 DEF Mixer, udpVars, histories
  <2>2. ASSUME NEW id \in DOMAIN client_data
        PROVE  /\ client_data'[id] \in Objects
               /\ client_data'[id].udp_endpoint = client_data[id].udp_endpoint
    <3> DEFINE mixed == IF id \in Active
                        THEN AfterMixery(client_data[id], 2 * MixSamples)
                        ELSE client_data[id]
    <3>1. client_data[id] \in Objects /\ nr \in Nat
      BY DEF Inv, IdTypes, MapTypes
    <3>2. /\ mixed \in Objects
          /\ mixed.udp_endpoint = client_data[id].udp_endpoint
      BY <3>1, MixeryObject, ServerAssumption DEF Objects
    <3>3. client_data'[id] = AddDgram(mixed, [nr |-> nr])
      BY <2>1 DEF AfterTick
    <3> HIDE DEF mixed
    <3> QED
      BY <3>1, <3>2, <3>3, DgramObject DEF Objects
  <2>3. {client_data[id].udp_endpoint : id \in DOMAIN client_data} \subseteq Peers
    BY Fields DEF Inv, MapTypes, Objects
  <2>4. heard' \subseteq Peers /\ nr' \in Nat
    BY <2>1, <2>3 DEF Inv, IdTypes
  <2>5. IdTypes'
    BY <2>1, <2>4 DEF Inv, IdTypes, Ids
  <2>6. DgramTypes' /\ Chain'
    BY <2>1 DEF Inv, DgramTypes, Chain
  <2>7. /\ DOMAIN client_data' = DOMAIN client_data
        /\ client_data' \in [DOMAIN client_data -> Objects]
    BY <2>1, <2>2
  <2> QED
    BY <2>1, <2>2, <2>5, <2>6, <2>7, MapsKept, OwnersKept DEF Inv
<1> QED
  BY <1>1, <1>2

LEMMA StopInv == Inv /\ Stop => Inv'
<1> SUFFICES ASSUME Inv, Stop PROVE Inv'
  OBVIOUS
<1>1. /\ UNCHANGED << status, clientid, writes, client_map, client_data, nr,
             receives, completed, read_buf, sender, acks, resends, resent,
             ended, idOf, broken, reused, heard, net >>
      /\ open' = FALSE /\ connections' = {}
  BY DEF Stop, udpVars, histories, peerVars
<1>2. IdTypes' /\ DgramTypes' /\ Chain'
  BY <1>1 DEF Inv, IdTypes, DgramTypes, Chain, Ids
<1>3. MapTypes' /\ MapsConsistent'
  BY <1>1 DEF Inv, MapTypes, MapsConsistent, Ids
<1>4. Owners'
  BY <1>1, OwnersKept
<1> QED
  BY <1>2, <1>3, <1>4 DEF Inv

LEMMA BreakInv == ASSUME Inv, NEW p \in Peers, Break(p) PROVE Inv'
<1>1. /\ UNCHANGED << status, open, clientid, connections, writes, client_map,
             client_data, nr, receives, completed, read_buf, sender, acks,
             resends, resent, ended, idOf, reused, heard, net >>
      /\ broken' = broken \cup {idOf[p]} /\ idOf[p] # 0
  BY DEF Break, serverVars, udpVars, histories
<1>2. idOf[p] \in Ids
  BY <1>1 DEF Inv, IdTypes
<1>3. IdTypes' /\ DgramTypes' /\ Chain'
  BY <1>1, <1>2 DEF Inv, IdTypes, DgramTypes, Chain, Ids
<1>4. MapTypes' /\ MapsConsistent'
  BY <1>1 DEF Inv, MapTypes, MapsConsistent, Ids
<1>5. Owners'
  BY <1>1, OwnersKept
<1> QED
  BY <1>3, <1>4, <1>5 DEF Inv

-----------------------------------------------------------------------------
(* The peers' datagrams *)

(* A datagram that is sent is well formed; a CLIENT names its sender's id. *)
LEMMA SendInv ==
    ASSUME Inv, NEW p \in Peers,
           NEW type \in {"CLIENT", "UPLOAD", "RETRANSMIT", "KEEPALIVE", "OTHER"},
           NEW number \in Nat, NEW samples \in Seq(Peers),
           Len(samples) <= MaxQueueLength,
           type = "CLIENT" => number = idOf[p] /\ idOf[p] # 0,
           Send(p, type, number, samples)
    PROVE  Inv'
<1> DEFINE h == [type |-> type, nr |-> number]
           m == Datagram(p, h, samples)
<1>1. /\ UNCHANGED << status, open, clientid, connections, writes, client_map,
             client_data, nr, receives, completed, read_buf, sender, acks,
             resends, resent, ended, idOf, broken, reused, heard >>
      /\ net' = net \cup {m}
  BY DEF Send, serverVars, udpVars, histories
<1>2. h \in Headers /\ h.type = type /\ h.nr = number
  BY DEF Headers
<1> HIDE DEF h
<1>3. /\ << h >> \in Seq(Cells) /\ Len(<< h >>) = 1 /\ << h >>[1] = h
      /\ samples \in Seq(Cells) /\ Len(samples) \in Nat
  BY <1>2 DEF Cells
<1>4. /\ << h >> \o samples \in Seq(Cells)
      /\ Len(<< h >> \o samples) = 1 + Len(samples)
      /\ (<< h >> \o samples)[1] = h
  BY <1>3, ConcatProperties
<1>5. /\ m.from = p /\ m.cells[1] = h
      /\ m \in [from : Peers, cells : Seq(Cells)]
      /\ Len(m.cells) \in 1 .. Longest
  BY <1>3, <1>4, Lengths DEF Datagram
<1>6. m \in Dgrams
  BY <1>2, <1>5 DEF Dgrams
<1> HIDE DEF m
<1>7. IdTypes' /\ DgramTypes' /\ Chain'
  BY <1>1, <1>6 DEF Inv, IdTypes, DgramTypes, Chain, Ids
<1>8. MapTypes' /\ MapsConsistent'
  BY <1>1 DEF Inv, MapTypes, MapsConsistent, Ids
<1>9. PICK owner \in [Ids -> Peers] : Owned(owner)
  BY DEF Inv, Owners
<1>10. type = "CLIENT" => number \in Ids /\ owner[number] = p
  BY <1>9 DEF Owned, Inv, IdTypes
<1>11. Owned(owner)'
  BY <1>1, <1>2, <1>5, <1>9, <1>10 DEF Owned, Ids
<1>12. Owners'
  BY <1>1, <1>9, <1>11 DEF Owners, Ids
<1> QED
  BY <1>7, <1>8, <1>12 DEF Inv

LEMMA LoseInv == ASSUME Inv, NEW m \in net, Lose(m) PROVE Inv'
<1>1. /\ UNCHANGED << status, open, clientid, connections, writes, client_map,
             client_data, nr, receives, completed, read_buf, sender, acks,
             resends, resent, ended, idOf, broken, reused, heard >>
      /\ net' = net \ {m}
  BY DEF Lose, serverVars, udpVars, histories
<1>2. IdTypes' /\ DgramTypes' /\ Chain'
  BY <1>1 DEF Inv, IdTypes, DgramTypes, Chain, Ids
<1>3. MapTypes' /\ MapsConsistent'
  BY <1>1 DEF Inv, MapTypes, MapsConsistent, Ids
<1>4. Owners'
  BY <1>1, OwnersKept
<1> QED
  BY <1>2, <1>3, <1>4 DEF Inv
-----------------------------------------------------------------------------
(* Receiving, and the handlers *)

LEMMA ReceiveInv ==
    ASSUME Inv, NEW m \in net, NEW again \in BOOLEAN, Receive(m, again)
    PROVE  Inv'
<1>1. /\ UNCHANGED << status, open, clientid, connections, writes, client_map,
             client_data, nr, acks, resends, resent, ended, idOf, broken,
             reused, heard >>
      /\ receives > 0 /\ receives' = receives - 1
      /\ completed' = Append(completed, Len(m.cells))
      /\ read_buf' = m.cells \o SubSeq(read_buf, Len(m.cells) + 1, Len(read_buf))
      /\ sender' = m.from
      /\ net' \subseteq net
  BY DEF Receive, serverVars, histories
<1>2. /\ m.from \in Peers /\ m.cells \in Seq(Cells)
      /\ Len(m.cells) \in 1 .. Longest /\ m.cells[1] \in Headers
  BY DEF Inv, DgramTypes, Dgrams
<1>3. read_buf \in Seq(Cells) /\ Len(m.cells) > 0
  BY <1>2, Lengths DEF Inv, DgramTypes
<1>4. /\ read_buf' \in Seq(Cells)
      /\ Len(read_buf') \in Nat
      /\ Len(read_buf') >= Len(m.cells) /\ Len(read_buf') >= Len(read_buf)
      /\ read_buf'[1] = m.cells[1]
  BY <1>1, <1>2, <1>3, Overlay
<1>5. completed \in Seq(1 .. Longest) /\ Len(completed) \in Nat
  BY DEF Inv, DgramTypes
<1>6. /\ completed' \in Seq(1 .. Longest)
      /\ Len(completed') = Len(completed) + 1
      /\ \A i \in 1 .. Len(completed) + 1 : completed'[i] =
             IF i <= Len(completed) THEN completed[i] ELSE Len(m.cells)
  BY <1>1, <1>2, <1>5, AppendTyped
<1>7. ASSUME NEW i \in 1 .. Len(completed') PROVE completed'[i] <= Len(read_buf')
  <2>1. CASE i <= Len(completed)
    <3>1. i \in 1 .. Len(completed) /\ completed'[i] = completed[i]
      BY <1>5, <1>6, <2>1
    <3>2. completed[i] <= Len(read_buf)
      BY <3>1 DEF Inv, DgramTypes
    <3>3. completed[i] \in 1 .. Longest
      BY <1>5, <3>1, ElementOfSeq
    <3> QED
      BY <1>3, <1>4, <3>1, <3>2, <3>3, Lengths
  <2>2. CASE ~ (i <= Len(completed))
    BY <1>4, <1>5, <1>6, <2>2
  <2> QED
    BY <2>1, <2>2
<1>8. DgramTypes'
  <2>1. receives' \in Nat
    BY <1>1 DEF Inv, DgramTypes
  <2>2. acks' # << >> => Len(read_buf') > 0
    BY <1>2, <1>4, Lengths
  <2> QED
    BY <1>1, <1>2, <1>4, <1>6, <1>7, <2>1, <2>2 DEF Inv, DgramTypes
<1>9. Chain'
  <2>1. /\ Len(acks) \in Nat /\ receives \in Nat /\ ended \in Nat
        /\ resent \in Nat
    BY DEF Inv, DgramTypes
  <2>2. receives + Len(completed) + Len(acks) + ended = 1 + resent
    BY DEF Inv, Chain
  <2> QED
    BY <1>1, <1>5, <1>6, <2>1, <2>2 DEF Chain
<1>10. IdTypes' /\ MapTypes' /\ MapsConsistent'
  BY <1>1 DEF Inv, IdTypes, MapTypes, MapsConsistent, Ids
<1>11. PICK owner \in [Ids -> Peers] : Owned(owner)
  BY DEF Inv, Owners
<1>12. Owned(owner)'
  BY <1>1, <1>4, <1>11 DEF Owned, Ids
<1>13. Owners'
  BY <1>1, <1>11, <1>12 DEF Owners, Ids
<1> QED
  BY <1>8, <1>9, <1>10, <1>13 DEF Inv

(* What every handler finds, and what it leaves of the receives.           *)
LEMMA HandlingFacts ==
    ASSUME Inv, completed # << >>
    PROVE  /\ read_buf \in Seq(Cells) /\ Header \in Headers /\ sender \in Peers
           /\ Len(read_buf) \in Nat /\ Len(read_buf) > 0
           /\ Head(completed) \in 1 .. Longest
           /\ Head(completed) <= Len(read_buf)
           /\ Len(completed) \in Nat /\ Len(completed) > 0
           /\ Tail(completed) \in Seq(1 .. Longest)
           /\ Len(Tail(completed)) = Len(completed) - 1
           /\ \A i \in 1 .. Len(Tail(completed)) :
                  Tail(completed)[i] <= Len(read_buf)
<1>1. completed \in Seq(1 .. Longest) /\ read_buf \in Seq(Cells)
  BY DEF Inv, DgramTypes
<1>2. /\ Head(completed) \in 1 .. Longest /\ Head(completed) = completed[1]
      /\ Tail(completed) \in Seq(1 .. Longest)
      /\ Len(completed) \in Nat /\ Len(completed) > 0
      /\ Len(Tail(completed)) = Len(completed) - 1
      /\ \A i \in 1 .. Len(completed) - 1 : Tail(completed)[i] = completed[i + 1]
  BY <1>1, TailTyped
<1>3. \A i \in 1 .. Len(completed) : completed[i] <= Len(read_buf)
  BY DEF Inv, DgramTypes
<1>4. Head(completed) <= Len(read_buf)
  BY <1>2, <1>3
<1>5. Len(read_buf) \in Nat /\ Len(read_buf) > 0
  BY <1>1, <1>2, <1>4, Lengths
<1>6. Header \in Headers /\ sender \in Peers
  BY <1>5 DEF Inv, DgramTypes, Header
<1>7. ASSUME NEW i \in 1 .. Len(Tail(completed))
      PROVE  Tail(completed)[i] <= Len(read_buf)
  BY <1>2, <1>3
<1> QED
  BY <1>1, <1>2, <1>4, <1>5, <1>6, <1>7

(* A handler that keeps the count of the chain, and adds no ACK.           *)
LEMMA HandledInv ==
    ASSUME Inv, completed # << >>, completed' = Tail(completed),
           UNCHANGED << net, read_buf, sender, acks, resent >>,
           resends' \in Nat,
           \/ receives' = receives + 1 /\ ended' = ended
           \/ receives' = receives /\ ended' = ended + 1
    PROVE  DgramTypes' /\ Chain'
<1>1. /\ completed' \in Seq(1 .. Longest)
      /\ Len(completed) \in Nat
      /\ Len(completed') = Len(completed) - 1
      /\ \A i \in 1 .. Len(completed') : completed'[i] <= Len(read_buf)
  BY HandlingFacts
<1>2. Len(acks) \in Nat /\ receives \in Nat /\ ended \in Nat /\ resent \in Nat
  BY DEF Inv, DgramTypes
<1>3. receives' \in Nat /\ ended' \in Nat
  BY <1>2
<1>4. Chain'
  <2> DEFINE c  == Len(completed)
             c2 == Len(completed')
             a  == Len(acks)
  <2>1. receives + c + a + ended = 1 + resent
    BY DEF Inv, Chain
  <2>2. c \in Nat /\ c2 \in Nat /\ c2 = c - 1 /\ a \in Nat
    BY <1>1, <1>2
  <2>3. acks' = acks /\ resent' = resent
    OBVIOUS
  <2> HIDE DEF c, c2, a
  <2>4. receives' + c2 + a + ended' = 1 + resent
    <3>1. CASE receives' = receives + 1 /\ ended' = ended
      BY <1>2, <2>1, <2>2, <3>1
    <3>2. CASE receives' = receives /\ ended' = ended + 1
      BY <1>2, <2>1, <2>2, <3>2
    <3> QED
      BY <3>1, <3>2
  <2> QED
    BY <2>3, <2>4 DEF Chain, c2, a
<1>5. DgramTypes'
  BY <1>1, <1>3 DEF Inv, DgramTypes
<1> QED
  BY <1>4, <1>5

(* A handler of a datagram that changes nothing but the chain.             *)
LEMMA RestKept ==
    ASSUME Inv,
           UNCHANGED << status, open, clientid, connections, writes, client_map,
               client_data, nr, read_buf, sender, idOf, broken, reused, heard,
               net >>
    PROVE  IdTypes' /\ MapTypes' /\ MapsConsistent' /\ Owners'
<1>1. IdTypes'
  BY DEF Inv, IdTypes, Ids
<1>2. MapTypes' /\ MapsConsistent'
  BY DEF Inv, MapTypes, MapsConsistent, Ids
<1>3. Owners'
  BY OwnersKept
<1> QED
  BY <1>1, <1>2, <1>3

LEMMA HandleKeepaliveInv == Inv /\ HandleKeepalive => Inv'
<1> SUFFICES ASSUME Inv, HandleKeepalive PROVE Inv'
  OBVIOUS
<1>1. /\ UNCHANGED << status, open, clientid, connections, writes, client_map,
             client_data, nr, read_buf, sender, acks, resends, resent, ended,
             idOf, broken, reused, heard, net >>
      /\ completed # << >> /\ completed' = Tail(completed)
      /\ receives' = receives + 1
  BY DEF HandleKeepalive, Handling, Handled, serverVars, histories, peerVars
<1>2. resends' \in Nat
  BY <1>1 DEF Inv, DgramTypes
<1>3. DgramTypes' /\ Chain'
  BY <1>1, <1>2, HandledInv
<1>4. IdTypes' /\ MapTypes' /\ MapsConsistent' /\ Owners'
  BY <1>1, RestKept
<1> QED
  BY <1>3, <1>4 DEF Inv

LEMMA HandleOtherInv == Inv /\ HandleOther => Inv'
<1> SUFFICES ASSUME Inv, HandleOther PROVE Inv'
  OBVIOUS
<1>1. /\ UNCHANGED << status, open, clientid, connections, writes, client_map,
             client_data, nr, receives, read_buf, sender, acks, resends,
             resent, idOf, broken, reused, heard, net >>
      /\ completed # << >> /\ completed' = Tail(completed)
      /\ ended' = ended + 1
  BY DEF HandleOther, Handling, Handled, serverVars, peerVars
<1>2. resends' \in Nat
  BY <1>1 DEF Inv, DgramTypes
<1>3. DgramTypes' /\ Chain'
  BY <1>1, <1>2, HandledInv
<1>4. IdTypes' /\ MapTypes' /\ MapsConsistent' /\ Owners'
  BY <1>1, RestKept
<1> QED
  BY <1>3, <1>4 DEF Inv

LEMMA HandleRetransmitInv == Inv /\ HandleRetransmit => Inv'
<1> SUFFICES ASSUME Inv, HandleRetransmit PROVE Inv'
  OBVIOUS
<1>1. CASE Unknown
  BY <1>1, CrashInv DEF HandleRetransmit
<1>2. CASE ~ Unknown
  <2> DEFINE cd == client_data[client_map[sender]]
             answer == GetLastDgrams(cd, Header.nr)
  <2>1. /\ UNCHANGED << status, open, clientid, connections, writes, client_map,
               client_data, nr, read_buf, sender, acks, resent, ended,
               idOf, broken, reused, heard, net >>
        /\ completed # << >> /\ completed' = Tail(completed)
        /\ receives' = receives + 1
        /\ resends' = resends + Len(answer)
    BY <1>2 DEF HandleRetransmit, Handling, Handled, serverVars, histories,
                peerVars
  <2>2. cd \in Objects
    BY <1>2 DEF Unknown, Inv, MapTypes
  <2>3. cd.last_dgrams \in Seq([nr : Nat])
    BY <2>2, Fields DEF Objects
  <2>4. Len(answer) \in Nat
    <3>1. answer \in Seq([nr : Nat])
      BY <2>3, DgramsFromType DEF GetLastDgrams
    <3> QED
      BY <3>1
  <2> HIDE DEF answer, cd
  <2>5. resends' \in Nat
    BY <2>1, <2>4 DEF Inv, DgramTypes
  <2>6. DgramTypes' /\ Chain'
    BY <2>1, <2>5, HandledInv
  <2>7. IdTypes' /\ MapTypes' /\ MapsConsistent' /\ Owners'
    BY <2>1, RestKept
  <2> QED
    BY <2>6, <2>7 DEF Inv
<1> QED
  BY <1>1, <1>2

(* The body of the datagram being handled fits a queue.                    *)
LEMMA BodyFits ==
    ASSUME Inv, completed # << >>
    PROVE  /\ Body \in Seq(Cells)
           /\ Len(Body) \in Nat /\ Len(Body) <= MaxQueueLength
<1> DEFINE n == Head(completed)
<1>1. /\ read_buf \in Seq(Cells) /\ n \in 1 .. Longest /\ n <= Len(read_buf)
      /\ Len(read_buf) \in Nat
  BY HandlingFacts
<1> HIDE DEF n
<1>2. 2 \in Int /\ n \in Int /\ n \in Nat /\ n <= Longest
  BY <1>1, Lengths
<1>3. \A i \in 2 .. n : read_buf[i] \in Cells
  BY <1>1, <1>2, ElementOfSeq
<1>4. /\ SubSeq(read_buf, 2, n) \in Seq(Cells)
      /\ Len(SubSeq(read_buf, 2, n)) = IF 2 <= n THEN n - 2 + 1 ELSE 0
  BY <1>1, <1>2, <1>3, SubSeqProperties
<1>5. Body = SubSeq(read_buf, 2, n)
  BY DEF Body, n
<1> QED
  BY <1>2, <1>4, <1>5, Lengths

LEMMA NewAckTyped ==
    ASSUME NEW c \in Objects, Header \in Headers, sender \in Peers
    PROVE  NewAck(c) \in Acks
<1>1. Header.nr + 1 \in Nat
  BY DEF Headers
<1>2. GetAvailableSize(c) \in Nat
BY Fields, Lengths DEF GetAvailableSize, Objects
<1> QED
  BY <1>1, <1>2 DEF NewAck, Acks

LEMMA HandleUploadInv == Inv /\ HandleUpload => Inv'
<1> SUFFICES ASSUME Inv, HandleUpload PROVE Inv'
  OBVIOUS
<1>1. CASE Unknown
  BY <1>1, CrashInv DEF HandleUpload
<1>2. CASE ~ Unknown
  <2> DEFINE id == client_map[sender]
             cd == AfterUpload(client_data[id], Body)
             expected == Header.nr = client_data[id].expected_client_datagram_nr
  <2>1. /\ UNCHANGED << status, open, clientid, connections, writes, client_map,
               nr, read_buf, sender, resends, resent, ended, idOf, broken,
               reused, heard, net >>
        /\ completed # << >> /\ completed' = Tail(completed)
    BY <1>2 DEF HandleUpload, Handling, Handled, histories, peerVars
  <2>2. CASE expected
    <3>1. /\ client_data' = [client_data EXCEPT ![id] = cd]
          /\ acks' = Append(acks, NewAck(cd))
          /\ receives' = receives
      BY <1>2, <2>2 DEF HandleUpload
    <3>2. id \in DOMAIN client_data /\ client_data[id] \in Objects
      BY <1>2 DEF Unknown, Inv, MapTypes
    <3>3. cd \in Objects /\ cd.udp_endpoint = client_data[id].udp_endpoint
      BY <2>1, <3>2, BodyFits, UploadObject DEF Objects
    <3>4. NewAck(cd) \in Acks
      BY <2>1, <3>3, HandlingFacts, NewAckTyped
    <3> HIDE DEF cd
    <3>5. /\ DOMAIN client_data' = DOMAIN client_data
          /\ client_data' \in [DOMAIN client_data -> Objects]
          /\ \A k \in DOMAIN client_data :
                 client_data'[k].udp_endpoint = client_data[k].udp_endpoint
      BY <3>1, <3>2, <3>3 DEF Inv, MapTypes
    <3>6. /\ acks \in Seq(Acks) /\ Len(acks) \in Nat
          /\ receives \in Nat /\ ended \in Nat /\ resent \in Nat
      BY DEF Inv, DgramTypes
    <3>7. acks' \in Seq(Acks) /\ Len(acks') = Len(acks) + 1
      BY <3>1, <3>4, <3>6, AppendTyped
    <3>8. DgramTypes'
      BY <2>1, <3>1, <3>7, HandlingFacts DEF Inv, DgramTypes
    <3>9. Chain'
      BY <2>1, <3>1, <3>6, <3>7, HandlingFacts DEF Inv, Chain
    <3>10. IdTypes'
      BY <2>1 DEF Inv, IdTypes, Ids
    <3>11. MapTypes' /\ MapsConsistent' /\ Owners'
      BY <2>1, <3>5, MapsKept, OwnersKept
    <3> QED
      BY <3>8, <3>9, <3>10, <3>11 DEF Inv
  <2>3. CASE ~ expected
    <3>1. UNCHANGED << client_data, acks >> /\ receives' = receives + 1
      BY <1>2, <2>3 DEF HandleUpload
    <3>2. resends' \in Nat
      BY <2>1 DEF Inv, DgramTypes
    <3>3. DgramTypes' /\ Chain'
      BY <2>1, <3>1, <3>2, HandledInv
    <3>4. IdTypes' /\ MapTypes' /\ MapsConsistent' /\ Owners'
      BY <2>1, <3>1, RestKept
    <3> QED
      BY <3>3, <3>4 DEF Inv
  <2> QED
    BY <2>2, <2>3
<1> QED
  BY <1>1, <1>2

LEMMA AckSentInv == Inv /\ AckSent => Inv'
<1> SUFFICES ASSUME Inv, AckSent PROVE Inv'
  OBVIOUS
<1>1. /\ UNCHANGED << status, open, clientid, connections, writes, client_map,
             client_data, nr, completed, read_buf, sender, resends, resent,
             ended, idOf, broken, reused, heard, net >>
      /\ acks # << >> /\ acks' = Tail(acks) /\ receives' = receives + 1
  BY DEF AckSent, serverVars, histories, peerVars
<1>2. /\ acks \in Seq(Acks) /\ Len(completed) \in Nat
      /\ receives \in Nat /\ ended \in Nat /\ resent \in Nat
  BY DEF Inv, DgramTypes
<1>3. /\ acks' \in Seq(Acks) /\ Len(acks) \in Nat
      /\ Len(acks') = Len(acks) - 1
  BY <1>1, <1>2, TailTyped
<1>4. DgramTypes'
  BY <1>1, <1>2, <1>3 DEF Inv, DgramTypes
<1>5. Chain'
  BY <1>1, <1>2, <1>3 DEF Inv, Chain
<1>6. IdTypes' /\ MapTypes' /\ MapsConsistent' /\ Owners'
  BY <1>1, RestKept
<1> QED
  BY <1>4, <1>5, <1>6 DEF Inv

LEMMA AckFailsInv == Inv /\ AckFails => Inv'
<1> SUFFICES ASSUME Inv, AckFails PROVE Inv'
  OBVIOUS
<1> DEFINE a == [Head(acks) EXCEPT !.to = sender]
<1>1. /\ UNCHANGED << status, open, clientid, connections, writes, client_map,
             client_data, nr, receives, completed, read_buf, sender, resends,
             resent, ended, idOf, broken, reused, heard, net >>
      /\ acks # << >> /\ acks' = Append(Tail(acks), a)
  BY DEF AckFails, serverVars, histories, peerVars
<1>2. /\ acks \in Seq(Acks) /\ Len(completed) \in Nat /\ sender \in Peers
      /\ receives \in Nat /\ ended \in Nat /\ resent \in Nat
  BY <1>1 DEF Inv, DgramTypes
<1>3. /\ Tail(acks) \in Seq(Acks) /\ Len(acks) \in Nat
      /\ Len(Tail(acks)) = Len(acks) - 1 /\ Head(acks) \in Acks
  BY <1>1, <1>2, TailTyped
<1>4. a \in Acks
  BY <1>2, <1>3 DEF Acks
<1> HIDE DEF a
<1>5. acks' \in Seq(Acks) /\ Len(acks') = Len(acks)
  BY <1>1, <1>3, <1>4, AppendTyped
<1>6. DgramTypes'
  BY <1>1, <1>2, <1>5 DEF Inv, DgramTypes
<1>7. Chain'
  BY <1>1, <1>2, <1>5 DEF Inv, Chain
<1>8. IdTypes' /\ MapTypes' /\ MapsConsistent' /\ Owners'
  BY <1>1, RestKept
<1> QED
  BY <1>6, <1>7, <1>8 DEF Inv

LEMMA ResentInv == Inv /\ Resent => Inv'
<1> SUFFICES ASSUME Inv, Resent PROVE Inv'
  OBVIOUS
<1>1. /\ UNCHANGED << status, open, clientid, connections, writes, client_map,
             client_data, nr, completed, read_buf, sender, acks, ended, idOf,
             broken, reused, heard, net >>
      /\ resends > 0 /\ resends' = resends - 1
      /\ resent' = resent + 1 /\ receives' = receives + 1
  BY DEF Resent, serverVars, peerVars
<1>2. /\ Len(acks) \in Nat /\ Len(completed) \in Nat /\ resends \in Nat
      /\ receives \in Nat /\ ended \in Nat /\ resent \in Nat
  BY DEF Inv, DgramTypes
<1>3. DgramTypes'
  BY <1>1, <1>2 DEF Inv, DgramTypes
<1>4. Chain'
  BY <1>1, <1>2 DEF Inv, Chain
<1>5. IdTypes' /\ MapTypes' /\ MapsConsistent' /\ Owners'
  BY <1>1, RestKept
<1> QED
  BY <1>3, <1>4, <1>5 DEF Inv
(* CLIENT: the id it names is its sender's.  If the endpoint is mapped to  *)
(* another id, it had that one before and is used again.                   *)
LEMMA HandleClientInv == Inv /\ HandleClient => Inv'
<1> SUFFICES ASSUME Inv, HandleClient PROVE Inv'
  OBVIOUS
<1>1. CASE Crash
  BY <1>1, CrashInv
<1>2. CASE ~ Crash
  <2> DEFINE id == Header.nr
  <2>1. /\ UNCHANGED << status, open, clientid, connections, writes, nr,
               read_buf, sender, acks, resends, resent, ended, idOf, broken,
               reused, heard, net >>
        /\ completed # << >> /\ completed' = Tail(completed)
        /\ receives' = receives + 1
        /\ Header.type = "CLIENT" /\ id \in connections
        /\ client_map' = Insert(client_map, sender, id)
        /\ client_data' = Insert(client_data, id, NewClientData(sender))
    BY <1>2 DEF HandleClient, Handling, Handled, histories, peerVars
  <2>2. /\ sender \in Peers /\ Len(read_buf) > 0 /\ read_buf[1] = Header
    BY <2>1, HandlingFacts DEF Header
  <2>3. PICK owner \in [Ids -> Peers] : Owned(owner)
    BY DEF Inv, Owners
  <2>4. id \in Ids /\ owner[id] = sender
    BY <2>1, <2>2, <2>3 DEF Owned
  <2>5. NewClientData(sender) \in Objects
        /\ NewClientData(sender).udp_endpoint = sender
    BY <2>2, NewObject DEF NewClientData
  <2> DEFINE new == NewClientData(sender)
  <2> HIDE DEF new, id
  <2>6. /\ DOMAIN client_map' = DOMAIN client_map \cup {sender}
        /\ \A ep \in DOMAIN client_map : client_map'[ep] = client_map[ep]
        /\ sender \notin DOMAIN client_map => client_map'[sender] = id
        /\ client_map' = [e \in DOMAIN client_map' |-> client_map'[e]]
    BY <2>1 DEF Insert, id
  <2>7. /\ DOMAIN client_data' = DOMAIN client_data \cup {id}
        /\ \A k \in DOMAIN client_data : client_data'[k] = client_data[k]
        /\ id \notin DOMAIN client_data => client_data'[id] = new
        /\ client_data' = [k \in DOMAIN client_data' |-> client_data'[k]]
    BY <2>1 DEF Insert, id, new
  <2>8. new \in Objects /\ new.udp_endpoint = sender
    BY <2>5 DEF new
  <2>9. \A k \in DOMAIN client_data :
            k \in Ids /\ client_data[k] \in Objects
            /\ client_data[k].udp_endpoint = owner[k]
    BY <2>3 DEF Owned, Inv, MapTypes
  <2>10. client_data'[id] \in Objects /\ client_data'[id].udp_endpoint = sender
    <3>1. CASE id \in DOMAIN client_data
      BY <2>4, <2>7, <2>9, <3>1
    <3>2. CASE id \notin DOMAIN client_data
      BY <2>7, <2>8, <3>2
    <3> QED
      BY <3>1, <3>2
  <2>11. \A k \in DOMAIN client_data' :
             k \in Ids /\ client_data'[k] \in Objects
             /\ client_data'[k].udp_endpoint = owner[k]
    BY <2>4, <2>7, <2>9, <2>10
  <2>12. \A e \in DOMAIN client_map' : e \in Peers /\ client_map'[e] \in Ids
    BY <2>2, <2>4, <2>6 DEF Inv, MapTypes
  <2>13. MapTypes'
    <3>1. Ids' = Ids
      BY <2>1 DEF Ids
    <3> QED
      BY <2>6, <2>7, <2>11, <2>12, <3>1 DEF MapTypes
  <2>14. Owners'
    <3>1. Ids' = Ids
      BY <2>1 DEF Ids
    <3>2. Owned(owner)'
      BY <2>1, <2>3, <2>11, <3>1 DEF Owned
    <3> QED
      BY <2>3, <3>1, <3>2 DEF Owners
  <2>15. ASSUME NEW e \in DOMAIN client_map'
         PROVE  /\ client_map'[e] \in DOMAIN client_data'
                /\ client_data'[client_map'[e]].udp_endpoint = e
    <3>1. CASE e \in DOMAIN client_map
      <4>1. /\ client_map[e] \in DOMAIN client_data
            /\ client_data[client_map[e]].udp_endpoint = e
        BY <3>1 DEF Inv, MapsConsistent
      <4> QED
        BY <2>6, <2>7, <3>1, <4>1
    <3>2. CASE e \notin DOMAIN client_map
      BY <2>6, <2>7, <2>10, <3>2
    <3> QED
      BY <3>1, <3>2
  <2>16. ASSUME NEW k \in DOMAIN client_data',
                client_data'[k].udp_endpoint \notin reused'
         PROVE  /\ client_data'[k].udp_endpoint \in DOMAIN client_map'
                /\ client_map'[client_data'[k].udp_endpoint] = k
    <3>1. CASE k \in DOMAIN client_data
      <4>1. /\ client_data[k].udp_endpoint \in DOMAIN client_map
            /\ client_map[client_data[k].udp_endpoint] = k
        BY <2>1, <2>7, <2>16, <3>1 DEF Inv, MapsConsistent
      <4> QED
        BY <2>6, <2>7, <3>1, <4>1
    <3>2. CASE k \notin DOMAIN client_data
      <4>1. k = id /\ client_data'[k].udp_endpoint = sender
        BY <2>7, <2>10, <3>2
      <4>2. CASE sender \in DOMAIN client_map
        <5> DEFINE old == client_map[sender]
        <5>1. old \in DOMAIN client_data /\ client_data[old].udp_endpoint = sender
          BY <4>2 DEF Inv, MapsConsistent
        <5>2. old \in Ids /\ owner[old] = sender
          BY <2>9, <5>1
        <5>3. sender \notin reused
          BY <2>1, <2>16, <4>1
        <5>4. idOf[sender] = old /\ idOf[sender] = id
          BY <2>3, <2>4, <5>2, <5>3 DEF Owned
        <5> QED
          BY <3>2, <4>1, <5>1, <5>4
      <4>3. CASE sender \notin DOMAIN client_map
        BY <2>6, <4>1, <4>3
      <4> QED
        BY <4>2, <4>3
    <3> QED
      BY <3>1, <3>2
  <2>17. MapsConsistent'
    BY <2>15, <2>16 DEF MapsConsistent
  <2>18. resends' \in Nat
    BY <2>1 DEF Inv, DgramTypes
  <2>19. DgramTypes' /\ Chain'
    BY <2>1, <2>18, HandledInv
  <2>20. IdTypes'
    BY <2>1 DEF Inv, IdTypes, Ids
  <2> QED
    BY <2>13, <2>14, <2>17, <2>19, <2>20 DEF Inv
<1> QED
  BY <1>1, <1>2

-----------------------------------------------------------------------------
LEMMA EnvironmentInv == Inv /\ Environment => Inv'
<1> SUFFICES ASSUME Inv, Environment PROVE Inv'
  OBVIOUS
<1>1. /\ << >> \in Seq(Peers) /\ Len(<< >>) = 0 /\ 0 <= MaxQueueLength
      /\ 0 \in Nat
  BY Lengths
<1>2. ASSUME NEW p \in Peers, SendClient(p) PROVE Inv'
  <2>1. idOf[p] \in Nat /\ idOf[p] # 0 /\ Send(p, "CLIENT", idOf[p], << >>)
    BY <1>2 DEF SendClient, Inv, IdTypes, Ids, FirstId
  <2> QED
    BY <1>1, <2>1, SendInv
<1>3. ASSUME NEW p \in Peers, SendKeepalive(p) PROVE Inv'
  BY <1>1, <1>3, SendInv DEF SendKeepalive
<1>4. ASSUME NEW p \in Peers, SendStray(p) PROVE Inv'
  BY <1>1, <1>4, SendInv DEF SendStray
<1>5. ASSUME NEW p \in Peers, NEW number \in Nat, SendRetransmit(p, number)
      PROVE  Inv'
  BY <1>1, <1>5, SendInv DEF SendRetransmit
<1>6. ASSUME NEW p \in Peers, NEW number \in Nat, NEW size \in UploadSizes,
             SendUpload(p, number, size)
      PROVE  Inv'
  <2> DEFINE samples == [i \in 1 .. size |-> p]
  <2>1. size \in Nat /\ size <= MaxQueueLength
    BY ServerAssumption, Lengths
  <2>2. samples \in Seq(Peers) /\ Len(samples) = size
    BY <2>1
  <2>3. Send(p, "UPLOAD", number, samples)
    BY <1>6 DEF SendUpload
  <2> HIDE DEF samples
  <2> QED
    BY <2>1, <2>2, <2>3, SendInv
<1>7. ASSUME NEW p \in Peers, Break(p) PROVE Inv'
  BY <1>7, BreakInv
<1>8. ASSUME NEW m \in net, Lose(m) PROVE Inv'
  BY <1>8, LoseInv
<1> QED
  BY <1>2, <1>3, <1>4, <1>5, <1>6, <1>7, <1>8 DEF Environment

(* Inv holds in every reachable state, for any peers.                      *)
THEOREM Invariance == Spec => []Inv
<1>1. Init => Inv
  BY InitInv
<1>2. Inv /\ [Next]_vars => Inv'
  <2> SUFFICES ASSUME Inv, [Next]_vars PROVE Inv'
    OBVIOUS
  <2>1. CASE Handle
    BY <2>1, HandleClientInv, HandleUploadInv, HandleRetransmitInv,
       HandleKeepaliveInv, HandleOtherInv DEF Handle
  <2>2. CASE Complete
    BY <2>2, WriteOkInv, WriteFailsInv, AckSentInv, AckFailsInv, ResentInv,
       ReceiveInv DEF Complete
  <2>3. CASE Tick
    BY <2>3, MixerInv, RaportInv DEF Tick
  <2>4. CASE \E p \in Peers : Accept(p)
    BY <2>4, AcceptInv
  <2>5. CASE Stop
    BY <2>5, StopInv
  <2>6. CASE Environment
    BY <2>6, EnvironmentInv
  <2>7. CASE UNCHANGED vars
    <3>1. status' \in {"running", "crashed"}
      BY <2>7 DEF vars, Inv, IdTypes
    <3> QED
      BY <2>7, <3>1, Unchanged DEF vars
  <2> QED
    BY <2>1, <2>2, <2>3, <2>4, <2>5, <2>6, <2>7 DEF Next
<1> QED
  BY <1>1, <1>2, PTL DEF Spec

-----------------------------------------------------------------------------
(* The types of the server's state, for every number of peers, every -F,   *)
(* -H, -L and -X, and every order of datagrams.                            *)
THEOREM TypeCorrect == Spec => []TypeOK
<1>1. Inv => TypeOK
  <2> SUFFICES ASSUME Inv PROVE TypeOK
    OBVIOUS
  <2>1. IdTypes /\ DgramTypes /\ MapTypes
    BY DEF Inv
  <2>2. completed \in Seq(Nat \ {0})
    <3>1. 1 .. Longest \subseteq Nat \ {0}
      BY Lengths
    <3>2. completed \in Seq(1 .. Longest)
      BY <2>1 DEF DgramTypes
    <3>3. /\ Len(completed) \in Nat
          /\ completed \in [1 .. Len(completed) -> 1 .. Longest]
      BY <3>2, LenProperties
    <3>4. completed \in [1 .. Len(completed) -> Nat \ {0}]
      BY <3>1, <3>3
    <3> QED
      BY <3>3, <3>4, SeqDef
  <2>3. \A id \in DOMAIN client_data :
            /\ id \in Ids
            /\ client_data[id].udp_endpoint \in Peers
            /\ client_data[id].queue_size = Len(client_data[id].queue)
            /\ client_data[id].queue_size <= MaxQueueLength
    BY <2>1, Fields DEF MapTypes, Objects
  <2>4. \A ep \in DOMAIN client_map : ep \in Peers /\ client_map[ep] \in Ids
    BY <2>1 DEF MapTypes
  <2> QED
    BY <2>1, <2>2, <2>3, <2>4 DEF TypeOK, IdTypes, DgramTypes, Ids, Acks
<1> QED
  BY <1>1, Invariance, PTL

(* The chain of receives is never cut nor forked, but by the datagrams     *)
(* sent again and those without a branch (server.cc:138, 370).             *)
THEOREM ReceiveChainHolds == Spec => []ReceiveChain
<1>1. Inv => ReceiveChain
  BY DEF Inv, Chain, ReceiveChain
<1> QED
  BY <1>1, Invariance, PTL

(* The maps of endpoints and of data agree, however clients come, go and   *)
(* come back.                                                              *)
THEOREM MapsAgree == Spec => []MapsConsistent
<1>1. Inv => MapsConsistent
  BY DEF Inv
<1> QED
  BY <1>1, Invariance, PTL

(* No tick of the mixer and no report ever dereferences an entry that is   *)
(* not there, and the mixer finds a whole interval in every ACTIVE queue   *)
(* (server.cc:463-466, 490-532).                                           *)
THEOREM TicksNeverCrash ==
    Spec => [](/\ ~ MixerCrashes
               /\ \A id \in Mapped : id \in DOMAIN client_data)
<1>1. Inv => /\ ~ MixerCrashes
             /\ \A id \in Mapped : id \in DOMAIN client_data
  <2> SUFFICES ASSUME Inv
               PROVE  /\ ~ MixerCrashes
                      /\ \A id \in Mapped : id \in DOMAIN client_data
    OBVIOUS
  <2>1. \A id \in Mapped : id \in DOMAIN client_data
    BY DEF Mapped, Inv, MapsConsistent
  <2>2. ASSUME NEW id \in Active
        PROVE  ~ (client_data[id].queue_size < MixSamples)
    <3>1. client_data[id] \in Objects /\ ReachesHigh(client_data[id])
      BY <2>1 DEF Active, RateQueueState, Inv, MapTypes
    <3>2. client_data[id].queue_size \in Nat
      BY <3>1, Fields DEF Objects
    <3>3. client_data[id].queue_size * 2 >= High - 1
      BY <3>1 DEF ReachesHigh
    <3>4. MixSamples \in Nat /\ 2 * MixSamples + 1 <= High /\ High \in Nat
      BY ServerAssumption, WatermarkAssumption
    <3> QED
      BY <3>2, <3>3, <3>4
  <2> QED
    BY <2>1, <2>2 DEF MixerCrashes
<1> QED
  BY <1>1, Invariance, PTL

-----------------------------------------------------------------------------
(* Who has client_data, and what it counts *)

Asking == {"UPLOAD", "RETRANSMIT"}

(* Until the stop signal a connection is kept unless it broke, and a       *)
(* client that was sent DATA has data as long as its connection is up.     *)
Kept ==
    open => /\ DOMAIN client_data \subseteq connections
            /\ \A id \in Ids : id \in broken \/ id \in connections
            /\ \A p \in heard :
                   \/ p \in reused \/ idOf[p] \in broken
                   \/ idOf[p] \in DOMAIN client_data

(* Only a client that was sent DATA asks for anything.                     *)
Askers ==
    /\ \A p \in heard \cup reused : idOf[p] # 0
    /\ \A m \in net :
           m.cells[1].type \in Asking => m.from \in heard \cup reused
    /\ Len(read_buf) > 0 /\ read_buf[1].type \in Asking
           => sender \in heard \cup reused

LEMMA KeptUnless ==
    ASSUME Kept, Askers,
           UNCHANGED << clientid, connections, broken, idOf, reused, heard,
                        read_buf, sender >>,
           open' => open, net' \subseteq net,
           DOMAIN client_data' = DOMAIN client_data
    PROVE  Kept' /\ Askers'
<1>1. Kept'
  BY DEF Kept, Ids
<1>2. Askers'
  BY DEF Askers
<1> QED
  BY <1>1, <1>2

(* Who is behind the id of data.                                           *)
LEMMA Behind ==
    ASSUME Inv, NEW id \in DOMAIN client_data
    PROVE  LET p == client_data[id].udp_endpoint
           IN  id \in Ids /\ id # 0 /\ p \in Peers /\ (p \notin reused => idOf[p] = id)
<1>1. PICK owner \in [Ids -> Peers] : Owned(owner)
  BY DEF Inv, Owners
<1>2. id \in Ids /\ id # 0
  BY DEF Inv, MapTypes, Ids, FirstId, IdTypes
<1>3. client_data[id].udp_endpoint = owner[id]
  BY <1>1 DEF Owned
<1> QED
  BY <1>1, <1>2, <1>3 DEF Owned

-----------------------------------------------------------------------------
LEMMA KeptAccept ==
    ASSUME Inv, Kept, Askers, NEW p \in Peers, Accept(p) PROVE Kept' /\ Askers'
<1> DEFINE n == clientid + 1
<1>1. /\ UNCHANGED << open, client_data, broken, net, read_buf, sender >>
      /\ clientid' = n /\ connections' = connections \cup {n}
      /\ idOf' = [idOf EXCEPT ![p] = n]
      /\ reused' = IF idOf[p] = 0 THEN reused ELSE reused \cup {p}
      /\ heard' = heard \ {p}
  BY DEF Accept, udpVars
<1>2. Ids' = Ids \cup {n} /\ n # 0
  BY <1>1 DEF Inv, IdTypes, Ids, FirstId
<1>3. /\ idOf \in [Peers -> {0} \cup Ids]
      /\ heard \subseteq Peers /\ reused \subseteq Peers
  BY DEF Inv, IdTypes
<1>4. idOf'[p] = n /\ \A q \in Peers \ {p} : idOf'[q] = idOf[q]
  BY <1>1, <1>3
<1> HIDE DEF n
<1>5. Kept'
  BY <1>1, <1>2, <1>3, <1>4 DEF Kept
<1>6. heard \cup reused \subseteq heard' \cup reused'
  BY <1>1, <1>3 DEF Askers
<1>7. \A q \in heard' \cup reused' : idOf'[q] # 0
  BY <1>1, <1>2, <1>3, <1>4 DEF Askers
<1>8. Askers'
  BY <1>1, <1>6, <1>7 DEF Askers
<1> QED
  BY <1>5, <1>8

(* A write fails on a connection that broke, or after the stop signal.     *)
LEMMA KeptWriteFails ==
    ASSUME Inv, Kept, Askers, NEW id \in DOMAIN writes, WriteFails(id)
    PROVE  Kept' /\ Askers'
<1>1. CASE id \notin DOMAIN client_data
  BY <1>1, KeptUnless DEF WriteFails, Crash, serverVars, udpVars, peerVars
<1>2. CASE id \in DOMAIN client_data
  <2>1. /\ UNCHANGED << open, clientid, broken, idOf, reused, heard, net,
                        read_buf, sender >>
        /\ connections' = connections \ {id}
        /\ client_data' = Erase(client_data, id)
        /\ id \in broken \/ id \notin connections
    BY <1>2 DEF WriteFails, FreeResources, udpVars, peerVars
  <2>2. DOMAIN client_data' = DOMAIN client_data \ {id}
    BY <2>1 DEF Erase
  <2>3. id \in Ids
    BY DEF Inv, IdTypes
  <2>4. open => id \in broken
    BY <2>1, <2>3 DEF Kept
  <2>5. Kept'
    BY <2>1, <2>2, <2>4 DEF Kept, Ids
  <2>6. Askers'
    BY <2>1 DEF Askers
  <2> QED
    BY <2>5, <2>6
<1> QED
  BY <1>1, <1>2

(* A tick sends DATA to whom it has data of.                               *)
LEMMA KeptMixer ==
    ASSUME Inv, Kept, Askers, Mixer PROVE Kept' /\ Askers'
<1>1. CASE MixerCrashes
  BY <1>1, KeptUnless DEF Mixer, Crash, serverVars, udpVars, peerVars
<1>2. CASE ~ MixerCrashes
  <2>1. /\ UNCHANGED << open, clientid, connections, broken, idOf, reused, net,
                        read_buf, sender >>
        /\ client_data' = [id \in DOMAIN client_data |-> AfterTick(id)]
        /\ heard' = heard \cup
              {client_data[id].udp_endpoint : id \in DOMAIN client_data}
    BY <1>2 DEF Mixer, udpVars
  <2>2. DOMAIN client_data' = DOMAIN client_data
    BY <2>1
  <2>3. ASSUME NEW p \in heard' \ heard
        PROVE  p \in reused \/ idOf[p] \in DOMAIN client_data
    <3>1. PICK id \in DOMAIN client_data : p = client_data[id].udp_endpoint
      BY <2>1
    <3> QED
      BY <3>1, Behind
  <2>4. ASSUME NEW p \in heard' \cup reused PROVE idOf[p] # 0
    <3>1. CASE p \in heard \cup reused
      BY <3>1 DEF Askers
    <3>2. CASE p \notin heard \cup reused
      <4>1. PICK id \in DOMAIN client_data : p = client_data[id].udp_endpoint
        BY <2>1, <3>2
      <4> QED
        BY <3>2, <4>1, Behind
    <3> QED
      BY <3>1, <3>2
  <2>5. Kept'
    BY <2>1, <2>2, <2>3 DEF Kept, Ids
  <2>6. Askers'
    BY <2>1, <2>4 DEF Askers
  <2> QED
    BY <2>5, <2>6
<1> QED
  BY <1>1, <1>2

LEMMA KeptReceive ==
    ASSUME Inv, Kept, Askers, NEW m \in net, NEW again \in BOOLEAN,
           Receive(m, again)
    PROVE  Kept' /\ Askers'
<1>1. /\ UNCHANGED << open, clientid, connections, client_data, broken, idOf,
                      reused, heard >>
      /\ read_buf' = m.cells \o SubSeq(read_buf, Len(m.cells) + 1, Len(read_buf))
      /\ sender' = m.from /\ net' \subseteq net
  BY DEF Receive, serverVars
<1>2. m.cells \in Seq(Cells) /\ Len(m.cells) > 0 /\ read_buf \in Seq(Cells)
  BY Lengths DEF Inv, DgramTypes, Dgrams
<1>3. read_buf'[1] = m.cells[1]
  BY <1>1, <1>2, Overlay
<1>4. Kept'
  BY <1>1 DEF Kept, Ids
<1>5. Askers'
  BY <1>1, <1>3 DEF Askers
<1> QED
  BY <1>4, <1>5

LEMMA KeptHandleClient ==
    ASSUME Inv, Kept, Askers, HandleClient PROVE Kept' /\ Askers'
<1>1. CASE Crash
  BY <1>1, KeptUnless DEF Crash, serverVars, udpVars, peerVars
<1>2. CASE ~ Crash
  <2>1. /\ UNCHANGED << open, clientid, connections, broken, idOf, reused,
                        heard, net, read_buf, sender >>
        /\ Header.nr \in connections
        /\ client_data' = Insert(client_data, Header.nr, NewClientData(sender))
    BY <1>2 DEF HandleClient, peerVars
  <2>2. DOMAIN client_data' = DOMAIN client_data \cup {Header.nr}
    BY <2>1 DEF Insert
  <2>3. Kept'
    BY <2>1, <2>2 DEF Kept, Ids
  <2>4. Askers'
    BY <2>1 DEF Askers
  <2> QED
    BY <2>3, <2>4
<1> QED
  BY <1>1, <1>2

LEMMA KeptSend ==
    ASSUME Inv, Kept, Askers, NEW p \in Peers, NEW type, NEW number,
           NEW samples \in Seq(Peers), type \in Asking => p \in heard,
           Send(p, type, number, samples)
    PROVE  Kept' /\ Askers'
<1> DEFINE h == [type |-> type, nr |-> number]
<1>1. /\ UNCHANGED << open, clientid, connections, client_data, broken, idOf,
                      reused, heard, read_buf, sender >>
      /\ net' = net \cup {Datagram(p, h, samples)}
  BY DEF Send, serverVars, udpVars
<1>2. h.type = type
  OBVIOUS
<1> HIDE DEF h
<1>3. (<< h >> \o samples)[1] = h
  <2>1. /\ << h >> \in Seq({h} \cup Peers) /\ Len(<< h >>) = 1
        /\ << h >>[1] = h /\ samples \in Seq({h} \cup Peers)
        /\ Len(samples) \in Nat
    OBVIOUS
  <2> QED
    BY <2>1, ConcatProperties
<1>4. Datagram(p, h, samples).from = p
      /\ Datagram(p, h, samples).cells[1].type = type
  BY <1>2, <1>3 DEF Datagram
<1>5. Kept'
  BY <1>1 DEF Kept, Ids
<1>6. Askers'
  BY <1>1, <1>4 DEF Askers
<1> QED
  BY <1>5, <1>6

(* The steps that concern neither clients nor connections.                 *)
LEMMA KeptOtherwise ==
    ASSUME Inv, Kept, Askers,
           \/ \E id \in DOMAIN writes : WriteOk(id)
           \/ Raport \/ Stop
           \/ HandleUpload \/ HandleRetransmit \/ HandleKeepalive \/ HandleOther
           \/ AckSent \/ AckFails \/ Resent
           \/ \E m \in net : Lose(m)
           \/ UNCHANGED vars
    PROVE  Kept' /\ Askers'
<1>1. CASE Crash \/ UNCHANGED vars
  BY <1>1, KeptUnless DEF Crash, vars, serverVars, udpVars, peerVars
<1>2. CASE \E id \in DOMAIN writes : WriteOk(id)
  BY <1>2, KeptUnless DEF WriteOk, udpVars, peerVars
<1>3. CASE Raport /\ ~ Crash
  <2>1. /\ UNCHANGED << open, clientid, connections, broken, idOf, reused,
                        heard, net, read_buf, sender >>
        /\ DOMAIN client_data' = DOMAIN client_data
    BY <1>3 DEF Raport, udpVars, peerVars
  <2> QED
    BY <2>1, KeptUnless
<1>4. CASE Stop
  <2>1. /\ UNCHANGED << clientid, client_data, broken, idOf, reused, heard, net,
                        read_buf, sender >>
        /\ ~ open'
    BY <1>4 DEF Stop, udpVars, peerVars
  <2> QED
    BY <2>1 DEF Kept, Askers
<1>5. CASE HandleUpload /\ ~ Crash
  <2>1. /\ UNCHANGED << open, clientid, connections, broken, idOf, reused,
                        heard, net, read_buf, sender >>
        /\ DOMAIN client_data' = DOMAIN client_data
    BY <1>5 DEF HandleUpload, peerVars
  <2> QED
    BY <2>1, KeptUnless
<1>6. CASE (HandleRetransmit /\ ~ Crash) \/ HandleKeepalive \/ HandleOther
  BY <1>6, KeptUnless DEF HandleRetransmit, HandleKeepalive, HandleOther,
                          serverVars, peerVars
<1>7. CASE AckSent \/ AckFails \/ Resent
  BY <1>7, KeptUnless DEF AckSent, AckFails, Resent, serverVars, peerVars
<1>8. CASE \E m \in net : Lose(m)
  BY <1>8, KeptUnless DEF Lose, serverVars, udpVars
<1> QED
  BY <1>1, <1>2, <1>3, <1>4, <1>5, <1>6, <1>7, <1>8

LEMMA KeptEnvironment ==
    ASSUME Inv, Kept, Askers, Environment PROVE Kept' /\ Askers'
<1>1. << >> \in Seq(Peers)
  OBVIOUS
<1>2. ASSUME NEW p \in Peers,
             \/ SendClient(p) \/ SendKeepalive(p) \/ SendStray(p)
             \/ \E number \in Nat : SendRetransmit(p, number)
      PROVE  Kept' /\ Askers'
  BY <1>1, <1>2, KeptSend
     DEF SendClient, SendKeepalive, SendStray, SendRetransmit, Asking
<1>3. ASSUME NEW p \in Peers, NEW number \in Nat, NEW size \in UploadSizes,
             SendUpload(p, number, size)
      PROVE  Kept' /\ Askers'
  <2> DEFINE samples == [i \in 1 .. size |-> p]
  <2>1. size \in Nat
    BY ServerAssumption, Lengths
  <2>2. samples \in Seq(Peers)
    BY <2>1
  <2>3. p \in heard /\ Send(p, "UPLOAD", number, samples)
    BY <1>3 DEF SendUpload
  <2> HIDE DEF samples
  <2> QED
    BY <2>2, <2>3, KeptSend
<1>4. ASSUME NEW p \in Peers, Break(p) PROVE Kept' /\ Askers'
  <2>1. /\ UNCHANGED << open, clientid, connections, client_data, idOf, reused,
                        heard, net, read_buf, sender >>
        /\ broken \subseteq broken'
    BY <1>4 DEF Break, serverVars, udpVars
  <2> QED
    BY <2>1 DEF Kept, Askers, Ids
<1>5. CASE \E m \in net : Lose(m)
  BY <1>5, KeptOtherwise
<1> QED
  BY <1>2, <1>3, <1>4, <1>5 DEF Environment

(* Kept and Askers are an invariant relative to that of ServerProofs.      *)
THEOREM KeptInvariance == Spec => [](Inv /\ Kept /\ Askers)
<1>1. Init => Kept /\ Askers
  <2> SUFFICES ASSUME Init PROVE Kept /\ Askers
    OBVIOUS
  <2>1. Ids = {} /\ DOMAIN client_data = {} /\ Len(read_buf) = 0
    BY EmptyMap DEF Init, Ids, FirstId
  <2> QED
    BY <2>1 DEF Init, Kept, Askers
<1>2. Inv /\ Kept /\ Askers /\ [Next]_vars => Kept' /\ Askers'
  <2> SUFFICES ASSUME Inv, Kept, Askers, [Next]_vars PROVE Kept' /\ Askers'
    OBVIOUS
  <2>1. CASE Handle
    BY <2>1, KeptHandleClient, KeptOtherwise DEF Handle
  <2>2. CASE Complete
    BY <2>2, KeptWriteFails, KeptReceive, KeptOtherwise DEF Complete
  <2>3. CASE Tick
    BY <2>3, KeptMixer, KeptOtherwise DEF Tick
  <2>4. CASE \E p \in Peers : Accept(p)
    BY <2>4, KeptAccept
  <2>5. CASE Environment
    BY <2>5, KeptEnvironment
  <2>6. CASE Stop \/ UNCHANGED vars
    BY <2>6, KeptOtherwise
  <2> QED
    BY <2>1, <2>2, <2>3, <2>4, <2>5, <2>6 DEF Next
<1> QED
  BY <1>1, <1>2, Invariance, PTL DEF Spec

-----------------------------------------------------------------------------
(* Until the stop signal no data outlive their connection: a connection    *)
(* that failed takes the data of its client along (server.cc:688-699).     *)
THEOREM NoOrphans == Spec => []NoOrphanData
<1>1. Kept => NoOrphanData
  BY DEF Kept, NoOrphanData
<1> QED
  BY <1>1, KeptInvariance, PTL

(* What brings the server down is a broken connection of the client whose  *)
(* datagram it handles, an endpoint used again, or a datagram after the    *)
(* stop signal; never a tick, and never another client (server.cc:168-     *)
(* 299, 490-532).                                                          *)
THEOREM CrashesAreOwn == Spec => []CrashIsOwn
<1>1. Inv /\ Kept /\ Askers /\ ~ MixerCrashes => CrashIsOwn
  <2> SUFFICES ASSUME Inv, Kept, Askers, completed # << >>, open,
                      sender \notin reused, idOf[sender] \notin broken
               PROVE  /\ Header.type = "CLIENT" =>
                             /\ idOf[sender] = Header.nr
                             /\ idOf[sender] \in connections
                      /\ Header.type \in Asking => ~ Unknown
    BY DEF CrashIsOwn, Asking
  <2>1. Len(read_buf) > 0 /\ Header = read_buf[1] /\ sender \in Peers
    BY HandlingFacts DEF Header
  <2>2. PICK owner \in [Ids -> Peers] : Owned(owner)
    BY DEF Inv, Owners
  <2>3. ASSUME Header.type = "CLIENT"
        PROVE  idOf[sender] = Header.nr /\ idOf[sender] \in connections
    <3>1. Header.nr \in Ids /\ owner[Header.nr] = sender
      BY <2>1, <2>2, <2>3 DEF Owned
    <3>2. idOf[sender] = Header.nr
      BY <2>2, <3>1 DEF Owned
    <3> QED
      BY <3>1, <3>2 DEF Kept
  <2>4. ASSUME Header.type \in Asking PROVE ~ Unknown
    <3>1. sender \in heard
      BY <2>1, <2>4 DEF Askers
    <3> DEFINE id == idOf[sender]
    <3>2. id \in DOMAIN client_data
      BY <3>1 DEF Kept
    <3>3. client_data[id].udp_endpoint = sender
      <4>1. id # 0
        BY <3>1 DEF Askers
      <4>2. owner[id] = sender
        BY <2>1, <2>2, <4>1 DEF Owned
      <4> HIDE DEF id
      <4> QED
        BY <2>2, <3>2, <4>2 DEF Owned
    <3>4. sender \in DOMAIN client_map /\ client_map[sender] = id
      BY <3>2, <3>3 DEF Inv, MapsConsistent
    <3> QED
      BY <3>2, <3>4 DEF Unknown
  <2> QED
    BY <2>3, <2>4
<1>2. Spec => [](~ MixerCrashes)
  <2>1. (/\ ~ MixerCrashes
         /\ \A id \in Mapped : id \in DOMAIN client_data) => ~ MixerCrashes
    OBVIOUS
  <2> QED
    BY <2>1, TicksNeverCrash, PTL
<1> QED
  BY <1>1, <1>2, KeptInvariance, PTL
-----------------------------------------------------------------------------
(* As long as no retransmitted datagram was sent                           *)

(* Then one receive, one handler or one ACK is under way, never two, and   *)
(* buffer and sender are those of one datagram: its body is its sender's,  *)
(* what is stored is its owner's, and the ACK is for the sender.           *)
NoResend == resent = 0

OwnBodies ==
    /\ \A m \in net : \A i \in 2 .. Len(m.cells) : m.cells[i] = m.from
    /\ completed # << >> =>
           \A i \in 2 .. Head(completed) : read_buf[i] = sender

OwnObjects(cd) == ObjectsOf(Peers, {cd.udp_endpoint})

OwnQueues == \A id \in DOMAIN client_data :
                 client_data[id] \in OwnObjects(client_data[id])

TrueAck(a) ==
    /\ a.to = sender
    /\ sender \in DOMAIN client_map =>
           LET cd == client_data[client_map[sender]]
           IN  /\ a.ack = cd.expected_client_datagram_nr
               /\ a.win <= GetAvailableSize(cd)

TrueAcks == \A i \in 1 .. Len(acks) : TrueAck(acks[i])

Own == NoResend /\ OwnBodies /\ OwnQueues /\ TrueAcks

(* One at a time.                                                          *)
LEMMA Alone ==
    ASSUME Inv, Own
    PROVE  /\ receives > 0 => completed = << >> /\ acks = << >>
           /\ completed # << >> => acks = << >> /\ Tail(completed) = << >>
           /\ acks # << >> => Len(acks) = 1 /\ Tail(acks) = << >>
<1> DEFINE c == Len(completed)
           a == Len(acks)
<1>1. /\ completed \in Seq(1 .. Longest) /\ acks \in Seq(Acks)
      /\ receives \in Nat /\ ended \in Nat
  BY DEF Inv, DgramTypes
<1>2. c \in Nat /\ a \in Nat
  BY <1>1
<1>3. receives + c + a + ended = 1
  BY DEF Inv, Chain, Own, NoResend
<1>4. completed # << >> => c > 0 /\ Len(Tail(completed)) = c - 1
                           /\ Tail(completed) \in Seq(1 .. Longest)
  BY <1>1, TailTyped
<1>5. acks # << >> => a > 0 /\ Len(Tail(acks)) = a - 1
                      /\ Tail(acks) \in Seq(Acks)
  BY <1>1, TailTyped
<1>6. /\ c = 0 => completed = << >>
      /\ a = 0 => acks = << >>
  BY <1>4, <1>5
<1> HIDE DEF c, a
<1>7. /\ receives > 0 => c = 0 /\ a = 0
      /\ c > 0 => c = 1 /\ a = 0
      /\ a > 0 => a = 1
  BY <1>1, <1>2, <1>3
<1>8. ASSUME completed # << >> PROVE Tail(completed) = << >>
  <2>1. c = 1 /\ Len(Tail(completed)) = c - 1
    BY <1>4, <1>7, <1>8
  <2>2. Len(Tail(completed)) = 0
    BY <2>1
  <2> QED
    BY <1>4, <1>8, <2>2, EmptySeq
<1>9. ASSUME acks # << >> PROVE Len(acks) = 1 /\ Tail(acks) = << >>
  <2>1. a = 1 /\ Len(Tail(acks)) = a - 1
    BY <1>5, <1>7, <1>9
  <2>2. Len(Tail(acks)) = 0
    BY <2>1
  <2>3. Tail(acks) = << >>
    BY <1>5, <1>9, <2>2, EmptySeq
  <2> QED
    BY <2>1, <2>3 DEF a
<1> QED
  BY <1>4, <1>5, <1>6, <1>7, <1>8, <1>9

(* Nothing of this changes, or what was under way is done.                 *)
LEMMA OwnUnless ==
    ASSUME Own,
           UNCHANGED << resent, read_buf, sender, client_data, client_map >>,
           net' \subseteq net,
           completed' = completed \/ completed' = << >>,
           acks' = acks \/ acks' = << >>
    PROVE  Own'
<1>1. NoResend' /\ OwnQueues'
  BY DEF Own, NoResend, OwnQueues, OwnObjects
<1>2. OwnBodies'
  BY DEF Own, OwnBodies
<1>3. TrueAcks'
  <2>1. CASE acks' = acks
    BY <2>1 DEF Own, TrueAcks, TrueAck, GetAvailableSize
  <2>2. CASE acks' = << >>
    BY <2>2, EmptyMap DEF TrueAcks
  <2> QED
    BY <2>1, <2>2
<1> QED
  BY <1>1, <1>2, <1>3 DEF Own

(* Every client's data change alike, and no window shrinks.                *)
LEMMA OwnPointwise ==
    ASSUME Inv, Own,
           UNCHANGED << resends, resent, net, read_buf, completed, sender,
                        client_map, acks >>,
           DOMAIN client_data' = DOMAIN client_data,
           \A id \in DOMAIN client_data :
               LET new == client_data'[id]
                   old == client_data[id]
               IN  /\ new \in OwnObjects(old)
                   /\ new.udp_endpoint = old.udp_endpoint
                   /\ new.expected_client_datagram_nr =
                          old.expected_client_datagram_nr
                   /\ new.queue_size <= old.queue_size
    PROVE  Own'
<1>1. NoResend' /\ OwnBodies' /\ OwnQueues'
  BY DEF Own, NoResend, OwnBodies, OwnQueues, OwnObjects
<1>2. TrueAcks'
  <2> SUFFICES ASSUME NEW i \in 1 .. Len(acks) PROVE TrueAck(acks[i])'
    BY DEF TrueAcks
  <2> DEFINE id == client_map[sender]
  <2>1. TrueAck(acks[i]) /\ acks \in Seq(Acks)
    BY DEF Own, TrueAcks, Inv, DgramTypes
  <2>2. acks[i] \in Acks
    BY <2>1, ElementOfSeq
  <2>3. CASE sender \in DOMAIN client_map
    <3>1. id \in DOMAIN client_data
      BY <2>3 DEF Inv, MapsConsistent
    <3>2. /\ client_data[id].queue_size \in Nat
          /\ client_data'[id].queue_size \in Nat
          /\ client_data'[id].queue_size <= client_data[id].queue_size
      BY <3>1, Fields DEF Own, OwnQueues, OwnObjects
    <3>3. acks[i].win <= GetAvailableSize(client_data[id]) /\ acks[i].win \in Nat
      BY <2>1, <2>2, <2>3 DEF TrueAck, Acks
    <3>4. acks[i].win <= GetAvailableSize(client_data'[id])
      <4> DEFINE w == acks[i].win
                 q == client_data[id].queue_size
                 r == client_data'[id].queue_size
      <4>1. w <= (MaxQueueLength - q) * 2
        BY <3>3 DEF GetAvailableSize
      <4>2. q \in Nat /\ r \in Nat /\ r <= q /\ w \in Nat
        BY <3>2, <3>3
      <4> HIDE DEF w, q, r
      <4>3. w <= (MaxQueueLength - r) * 2
        BY <4>1, <4>2, Lengths
      <4> QED
        BY <4>3 DEF GetAvailableSize, w, r
    <3> QED
      BY <2>1, <2>3, <3>1, <3>4 DEF TrueAck, GetAvailableSize
  <2>4. CASE sender \notin DOMAIN client_map
    BY <2>1, <2>4 DEF TrueAck
  <2> QED
    BY <2>3, <2>4
<1> QED
  BY <1>1, <1>2 DEF Own
LEMMA OwnWriteFails ==
    ASSUME Inv, Own, NEW id \in DOMAIN writes, WriteFails(id) PROVE Own'
<1>1. CASE id \notin DOMAIN client_data
  BY <1>1, OwnUnless DEF WriteFails, Crash, serverVars, udpVars, peerVars,
                         histories
<1>2. CASE id \in DOMAIN client_data
  <2> DEFINE ep == client_data[id].udp_endpoint
  <2>1. /\ UNCHANGED << resends, resent, net, read_buf, completed, sender, acks >>
        /\ client_map' = Erase(client_map, ep)
        /\ client_data' = Erase(client_data, id)
    BY <1>2 DEF WriteFails, FreeResources, udpVars, histories, peerVars
  <2>2. /\ DOMAIN client_map' = DOMAIN client_map \ {ep}
        /\ \A e \in DOMAIN client_map' : client_map'[e] = client_map[e]
        /\ DOMAIN client_data' = DOMAIN client_data \ {id}
        /\ \A k \in DOMAIN client_data' : client_data'[k] = client_data[k]
    BY <2>1 DEF Erase
  <2>3. NoResend' /\ OwnBodies'
    BY <2>1 DEF Own, NoResend, OwnBodies
  <2>4. OwnQueues'
    BY <2>2 DEF Own, OwnQueues, OwnObjects
  <2>5. ASSUME sender \in DOMAIN client_map'
        PROVE  /\ sender \in DOMAIN client_map
               /\ client_map'[sender] = client_map[sender]
               /\ client_data'[client_map[sender]] =
                      client_data[client_map[sender]]
    <3>1. sender \in DOMAIN client_map /\ sender # ep
      BY <2>2, <2>5
    <3>2. /\ client_map[sender] \in DOMAIN client_data
          /\ client_data[client_map[sender]].udp_endpoint = sender
      BY <3>1 DEF Inv, MapsConsistent
    <3>3. client_map[sender] # id
      BY <3>1, <3>2
    <3> QED
      BY <2>2, <2>5, <3>1, <3>2, <3>3
  <2>6. TrueAcks'
    <3> SUFFICES ASSUME NEW i \in 1 .. Len(acks) PROVE TrueAck(acks[i])'
      BY <2>1 DEF TrueAcks
    <3>1. TrueAck(acks[i])
      BY DEF Own, TrueAcks
    <3> QED
      BY <2>1, <2>5, <3>1 DEF TrueAck, GetAvailableSize
  <2> QED
    BY <2>3, <2>4, <2>6 DEF Own
<1> QED
  BY <1>1, <1>2

(* What a tick and a report do to an object, but for its datagrams.        *)
LEMMA TickedObject ==
    ASSUME NEW c, NEW n \in Nat, c \in OwnObjects(c)
    PROVE  LET d == AddDgram(c, [nr |-> n])
           IN  /\ d \in OwnObjects(c)
               /\ d.udp_endpoint = c.udp_endpoint
               /\ d.expected_client_datagram_nr = c.expected_client_datagram_nr
               /\ d.queue_size = c.queue_size
<1>1. c \in ObjectsOf(Peers, {c.udp_endpoint})
  BY DEF OwnObjects
<1>2. /\ AddDgram(c, [nr |-> n]) \in ObjectsOf(Peers, {c.udp_endpoint})
      /\ AddDgram(c, [nr |-> n]).udp_endpoint = c.udp_endpoint
  BY <1>1, DgramObject
<1>3. /\ AddDgram(c, [nr |-> n]).expected_client_datagram_nr =
             c.expected_client_datagram_nr
      /\ AddDgram(c, [nr |-> n]).queue_size = c.queue_size
  BY <1>1 DEF AddDgram, ObjectsOf, CDTypeOf
<1> QED
  BY <1>2, <1>3 DEF OwnObjects

LEMMA MixedObject ==
    ASSUME NEW c, NEW n \in Nat, c \in OwnObjects(c)
    PROVE  LET d == AfterMixery(c, 2 * n)
           IN  /\ d \in OwnObjects(c)
               /\ d.udp_endpoint = c.udp_endpoint
               /\ d.expected_client_datagram_nr = c.expected_client_datagram_nr
               /\ d.queue_size <= c.queue_size
<1> DEFINE q == PopFront(c.queue, (2 * n) \div 2)
<1>1. c \in ObjectsOf(Peers, {c.udp_endpoint})
  BY DEF OwnObjects
<1>2. /\ AfterMixery(c, 2 * n) \in ObjectsOf(Peers, {c.udp_endpoint})
      /\ AfterMixery(c, 2 * n).udp_endpoint = c.udp_endpoint
      /\ AfterMixery(c, 2 * n).expected_client_datagram_nr =
             c.expected_client_datagram_nr
  BY <1>1, MixeryObject
<1>3. /\ c.queue \in Seq({c.udp_endpoint}) /\ c.queue_size = Len(c.queue)
      /\ (2 * n) \div 2 = n
  BY <1>1, Fields
<1>4. Len(q) = IF n <= Len(c.queue) THEN Len(c.queue) - n ELSE 0
  BY <1>3, Suffix DEF PopFront
<1>5. Len(q) <= c.queue_size
  BY <1>3, <1>4
<1>6. AfterMixery(c, 2 * n).queue_size = Len(q)
  BY <1>1 DEF AfterMixery, ObjectsOf, CDTypeOf
<1> QED
  BY <1>2, <1>5, <1>6 DEF OwnObjects

LEMMA OwnTick == ASSUME Inv, Own, Tick PROVE Own'
<1>1. CASE Crash
  BY <1>1, OwnUnless DEF Crash, serverVars, udpVars, peerVars, histories
<1>2. CASE Raport /\ ~ Crash
  <2>1. /\ UNCHANGED << resends, resent, net, read_buf, completed, sender,
                        client_map, acks >>
        /\ client_data' = [id \in DOMAIN client_data |->
               IF id \in Mapped THEN ResetStatistics(client_data[id])
                                ELSE client_data[id]]
    BY <1>2 DEF Raport, udpVars, histories, peerVars
  <2>2. ASSUME NEW id \in DOMAIN client_data
        PROVE  LET new == client_data'[id]
                   old == client_data[id]
               IN  /\ new \in OwnObjects(old)
                   /\ new.udp_endpoint = old.udp_endpoint
                   /\ new.expected_client_datagram_nr =
                          old.expected_client_datagram_nr
                   /\ new.queue_size <= old.queue_size
    <3> DEFINE c == client_data[id]
    <3>1. c \in ObjectsOf(Peers, {c.udp_endpoint})
      BY DEF Own, OwnQueues, OwnObjects
    <3>2. c.queue_size \in Nat
      BY <3>1, Fields
    <3>3. /\ ResetStatistics(c) \in ObjectsOf(Peers, {c.udp_endpoint})
          /\ ResetStatistics(c).udp_endpoint = c.udp_endpoint
      BY <3>1, StatisticsObject
    <3>4. /\ ResetStatistics(c).expected_client_datagram_nr =
                 c.expected_client_datagram_nr
          /\ ResetStatistics(c).queue_size = c.queue_size
      BY <3>1 DEF ResetStatistics, ObjectsOf, CDTypeOf
    <3>5. client_data'[id] = IF id \in Mapped THEN ResetStatistics(c) ELSE c
      BY <2>1
    <3> QED
      BY <3>1, <3>2, <3>3, <3>4, <3>5 DEF OwnObjects
  <2> QED
    BY <2>1, <2>2, OwnPointwise
<1>3. CASE Mixer /\ ~ Crash
  <2>1. /\ UNCHANGED << resends, resent, net, read_buf, completed, sender,
                        client_map, acks >>
        /\ client_data' = [id \in DOMAIN client_data |-> AfterTick(id)]
    BY <1>3 DEF Mixer, udpVars, histories
  <2>2. ASSUME NEW id \in DOMAIN client_data
        PROVE  LET new == client_data'[id]
                   old == client_data[id]
               IN  /\ new \in OwnObjects(old)
                   /\ new.udp_endpoint = old.udp_endpoint
                   /\ new.expected_client_datagram_nr =
                          old.expected_client_datagram_nr
                   /\ new.queue_size <= old.queue_size
    <3> DEFINE c == client_data[id]
               d == IF id \in Active THEN AfterMixery(c, 2 * MixSamples) ELSE c
    <3>1. c \in OwnObjects(c) /\ nr \in Nat /\ MixSamples \in Nat
      BY ServerAssumption DEF Own, OwnQueues, Inv, IdTypes
    <3>2. c.queue_size \in Nat
      BY <3>1, Fields DEF OwnObjects
    <3>3. /\ d \in OwnObjects(c)
          /\ d.udp_endpoint = c.udp_endpoint
          /\ d.expected_client_datagram_nr = c.expected_client_datagram_nr
          /\ d.queue_size <= c.queue_size
      BY <3>1, <3>2, MixedObject
    <3>4. client_data'[id] = AddDgram(d, [nr |-> nr])
      BY <2>1 DEF AfterTick
    <3> HIDE DEF d
    <3>5. d \in OwnObjects(d)
      BY <3>3 DEF OwnObjects
    <3>6. LET e == AddDgram(d, [nr |-> nr])
          IN  /\ e \in OwnObjects(d)
              /\ e.udp_endpoint = d.udp_endpoint
              /\ e.expected_client_datagram_nr = d.expected_client_datagram_nr
              /\ e.queue_size = d.queue_size
      BY <3>1, <3>5, TickedObject
    <3>7. OwnObjects(d) = OwnObjects(c)
      BY <3>3 DEF OwnObjects
    <3> QED
      BY <3>3, <3>4, <3>6, <3>7
  <2> QED
    BY <2>1, <2>2, OwnPointwise
<1> QED
  BY <1>1, <1>2, <1>3 DEF Tick
(* The buffer is filled only when no handler is due and no ACK under way.  *)
LEMMA OwnReceive ==
    ASSUME Inv, Own, NEW m \in net, NEW again \in BOOLEAN, Receive(m, again)
    PROVE  Own'
<1> DEFINE n == Len(m.cells)
           t == SubSeq(read_buf, n + 1, Len(read_buf))
<1>1. /\ UNCHANGED << resends, resent, client_data, client_map, acks >>
      /\ receives > 0 /\ completed' = Append(completed, n)
      /\ read_buf' = m.cells \o t
      /\ sender' = m.from /\ net' \subseteq net
  BY DEF Receive, serverVars, histories
<1>2. completed = << >> /\ acks = << >>
  BY <1>1, Alone
<1>3. m.cells \in Seq(Cells) /\ n \in 1 .. Longest /\ read_buf \in Seq(Cells)
  BY DEF Inv, DgramTypes, Dgrams
<1>4. n \in Nat /\ n >= 1
  BY <1>3, Lengths
<1> HIDE DEF n
<1>5. t \in Seq(Cells)
  BY <1>3, <1>4, Suffix
<1> HIDE DEF t
<1>6. \A i \in 1 .. n : read_buf'[i] = m.cells[i]
  <2>1. \A i \in 1 .. Len(m.cells) + Len(t) : (m.cells \o t)[i] =
            IF i <= Len(m.cells) THEN m.cells[i] ELSE t[i - Len(m.cells)]
    BY <1>3, <1>5, ConcatProperties
  <2>2. Len(t) \in Nat
    BY <1>5
  <2> QED
    BY <1>1, <1>4, <2>1, <2>2 DEF n
<1>7. Head(completed') = n
  <2>1. completed' = << n >>
    BY <1>1, <1>2
  <2> QED
    BY <2>1
<1>8. NoResend'
  BY <1>1 DEF Own, NoResend
<1>9. OwnBodies'
  <2>1. \A i \in 2 .. n : m.cells[i] = m.from /\ i \in 1 .. n
    BY <1>4 DEF Own, OwnBodies, n
  <2> QED
    BY <1>1, <1>6, <1>7, <2>1 DEF Own, OwnBodies
<1>10. OwnQueues'
  BY <1>1 DEF Own, OwnQueues, OwnObjects
<1>11. TrueAcks'
  BY <1>1, <1>2, EmptyMap DEF TrueAcks
<1> QED
  BY <1>8, <1>9, <1>10, <1>11 DEF Own

LEMMA OwnHandleClient == ASSUME Inv, Own, HandleClient PROVE Own'
<1>1. CASE Crash
  BY <1>1, OwnUnless DEF Crash, serverVars, udpVars, peerVars, histories
<1>2. CASE ~ Crash
  <2> DEFINE id == Header.nr
             new == NewClientData(sender)
  <2>1. /\ UNCHANGED << resends, resent, net, read_buf, sender, acks >>
        /\ completed # << >> /\ completed' = Tail(completed)
        /\ client_data' = Insert(client_data, id, new)
    BY <1>2 DEF HandleClient, Handling, Handled, histories, peerVars
  <2>2. completed' = << >> /\ acks' = << >> /\ sender \in Peers
    BY <2>1, Alone, HandlingFacts
  <2>3. new \in OwnObjects(new)
    BY <2>2, NewObjectOf DEF OwnObjects
  <2> HIDE DEF new, id
  <2>4. \A k \in DOMAIN client_data' :
            \/ client_data'[k] = new
            \/ k \in DOMAIN client_data /\ client_data'[k] = client_data[k]
    BY <2>1 DEF Insert
  <2>5. OwnQueues'
    BY <2>3, <2>4 DEF Own, OwnQueues, OwnObjects
  <2>6. NoResend' /\ OwnBodies'
    BY <2>1, <2>2 DEF Own, NoResend, OwnBodies
  <2>7. TrueAcks'
    BY <2>2, EmptyMap DEF TrueAcks
  <2> QED
    BY <2>5, <2>6, <2>7 DEF Own
<1> QED
  BY <1>1, <1>2

(* The body of the datagram being handled is its sender's.                 *)
LEMMA OwnBody ==
    ASSUME Inv, Own, completed # << >>
    PROVE  Body \in Seq({sender}) /\ Len(Body) <= MaxQueueLength
<1> DEFINE n == Head(completed)
<1>1. n \in 1 .. Longest
  BY HandlingFacts
<1>2. n \in Int /\ 2 \in Int
  BY <1>1, Lengths
<1>3. \A i \in 2 .. n : read_buf[i] \in {sender}
  BY DEF Own, OwnBodies
<1> HIDE DEF n
<1>4. SubSeq(read_buf, 2, n) \in Seq({sender})
  BY <1>2, <1>3, SubSeqProperties
<1> QED
  BY <1>4, BodyFits DEF Body, n

LEMMA OwnHandleUpload == ASSUME Inv, Own, HandleUpload PROVE Own'
<1>1. CASE Unknown
  BY <1>1, OwnUnless DEF HandleUpload, Crash, serverVars, udpVars, peerVars,
                         histories
<1>2. CASE ~ Unknown
  <2> DEFINE id == client_map[sender]
             old == client_data[id]
             cd == AfterUpload(old, Body)
             expected == Header.nr = old.expected_client_datagram_nr
  <2>1. /\ UNCHANGED << resends, resent, net, read_buf, sender, client_map >>
        /\ completed # << >> /\ completed' = Tail(completed)
    BY <1>2 DEF HandleUpload, Handling, Handled, histories, peerVars
  <2>2. completed' = << >> /\ acks = << >>
    BY <2>1, Alone
  <2>3. CASE expected
    <3>1. /\ client_data' = [client_data EXCEPT ![id] = cd]
          /\ acks' = Append(acks, NewAck(cd))
      BY <1>2, <2>3 DEF HandleUpload
    <3>2. /\ sender \in DOMAIN client_map /\ id \in DOMAIN client_data
          /\ old.udp_endpoint = sender
      BY <1>2 DEF Unknown, Inv, MapsConsistent
    <3>3. old \in ObjectsOf(Peers, {sender})
      BY <3>2 DEF Own, OwnQueues, OwnObjects
    <3>4. /\ cd \in ObjectsOf(Peers, {sender})
          /\ cd.udp_endpoint = sender
          /\ cd.expected_client_datagram_nr = old.expected_client_datagram_nr + 1
      BY <2>1, <3>2, <3>3, OwnBody, UploadObject
    <3>5. cd \in Objects
      <4>1. old \in Objects
        BY <3>2 DEF Inv, MapTypes
      <4> QED
        BY <2>1, <4>1, BodyFits, UploadObject DEF Objects
    <3>6. NewAck(cd) \in Acks
      BY <2>1, <3>5, HandlingFacts, NewAckTyped
    <3>7. /\ NewAck(cd).to = sender
          /\ NewAck(cd).ack = cd.expected_client_datagram_nr
          /\ NewAck(cd).win = GetAvailableSize(cd)
      BY <2>3, <3>4 DEF NewAck
    <3> HIDE DEF cd
    <3>8. PICK ack : ack = NewAck(cd)
      OBVIOUS
    <3>9. Len(acks') = 1 /\ acks'[1] = ack
      <4>1. acks' = << ack >>
        BY <2>2, <3>1, <3>8
      <4> QED
        BY <4>1
    <3>10. client_data'[id] = cd
      BY <3>1, <3>2
    <3>11. GetAvailableSize(cd) \in Nat
      BY <3>6, <3>7 DEF Acks
    <3>12. TrueAck(ack)'
      <4>1. ack.to = sender' /\ client_data'[client_map'[sender']] = cd
        BY <2>1, <3>7, <3>8, <3>10
      <4>2. /\ ack.ack = cd.expected_client_datagram_nr
            /\ ack.win <= GetAvailableSize(cd)
        BY <3>7, <3>8, <3>11
      <4> QED
        BY <4>1, <4>2 DEF TrueAck, GetAvailableSize
    <3>13. TrueAcks'
      <4> SUFFICES ASSUME NEW i \in 1 .. Len(acks') PROVE TrueAck(acks[i])'
        BY DEF TrueAcks
      <4>1. acks'[i] = ack
        BY <3>9
      <4> QED
        BY <3>12, <4>1 DEF TrueAck
    <3>14. \A k \in DOMAIN client_data' :
               \/ k = id
               \/ k \in DOMAIN client_data /\ client_data'[k] = client_data[k]
      BY <3>1
    <3>15. OwnQueues'
      BY <3>4, <3>10, <3>14 DEF Own, OwnQueues, OwnObjects
    <3>16. NoResend' /\ OwnBodies'
      BY <2>1, <2>2 DEF Own, NoResend, OwnBodies
    <3> QED
      BY <3>13, <3>15, <3>16 DEF Own
  <2>4. CASE ~ expected
    <3>1. UNCHANGED << client_data, acks >>
      BY <1>2, <2>4 DEF HandleUpload
    <3> QED
      BY <2>1, <2>2, <3>1, OwnUnless
  <2> QED
    BY <2>3, <2>4
<1> QED
  BY <1>1, <1>2

(* An ACK that failed is sent to the sender of the last datagram received, *)
(* which still is the one it is for.                                       *)
LEMMA OwnAckFails == ASSUME Inv, Own, AckFails PROVE Own'
<1> DEFINE a == [Head(acks) EXCEPT !.to = sender]
<1>1. /\ UNCHANGED << resends, resent, net, read_buf, completed, sender,
                      client_data, client_map >>
      /\ acks # << >> /\ acks' = Append(Tail(acks), a)
  BY DEF AckFails, serverVars, histories, peerVars
<1>2. Len(acks) = 1 /\ Tail(acks) = << >>
  BY <1>1, Alone
<1>3. Head(acks) = acks[1] /\ Head(acks) \in Acks
  BY <1>1, TailTyped DEF Inv, DgramTypes
<1>4. TrueAck(Head(acks))
  BY <1>2, <1>3 DEF Own, TrueAcks
<1>5. a = Head(acks)
  BY <1>3, <1>4 DEF TrueAck, Acks
<1>6. PICK h : h = Head(acks)
  OBVIOUS
<1> HIDE DEF a
<1>7. Len(acks') = 1 /\ acks'[1] = h
  <2>1. acks' = Append(<< >>, h)
    BY <1>1, <1>2, <1>5, <1>6, Zenon
  <2> QED
    BY <2>1
<1>8. TrueAcks'
  <2> SUFFICES ASSUME NEW i \in 1 .. Len(acks') PROVE TrueAck(acks[i])'
    BY DEF TrueAcks
  <2>1. acks'[i] = h
    BY <1>7
  <2>2. TrueAck(h)
    BY <1>4, <1>6
  <2> QED
    BY <1>1, <2>1, <2>2 DEF TrueAck, GetAvailableSize
<1>9. NoResend' /\ OwnBodies' /\ OwnQueues'
  BY <1>1 DEF Own, NoResend, OwnBodies, OwnQueues, OwnObjects
<1> QED
  BY <1>8, <1>9 DEF Own
(* A peer's samples are its own.                                           *)
LEMMA OwnSend ==
    ASSUME Inv, Own, NEW p \in Peers, NEW type, NEW number \in Nat,
           NEW samples \in Seq(Peers),
           \A i \in 1 .. Len(samples) : samples[i] = p,
           Send(p, type, number, samples)
    PROVE  Own'
<1> DEFINE h == [type |-> type, nr |-> number]
           m == Datagram(p, h, samples)
<1>1. /\ UNCHANGED << resends, resent, client_data, client_map, completed,
                      read_buf, sender, acks >>
      /\ net' = net \cup {m}
  BY DEF Send, serverVars, udpVars, histories
<1>2. h.type = type
  OBVIOUS
<1> HIDE DEF h
<1>3. /\ << h >> \in Seq({h} \cup Peers) /\ Len(<< h >>) = 1
      /\ << h >>[1] = h /\ samples \in Seq({h} \cup Peers)
      /\ Len(samples) \in Nat
  OBVIOUS
<1>4. /\ Len(<< h >> \o samples) = 1 + Len(samples)
      /\ \A i \in 1 .. 1 + Len(samples) : (<< h >> \o samples)[i] =
             IF i <= 1 THEN h ELSE samples[i - 1]
  BY <1>3, ConcatProperties
<1>5. m.from = p /\ m.cells = << h >> \o samples
  BY DEF Datagram
<1> HIDE DEF m
<1>6. m.cells[1] = h
  BY <1>3, <1>4, <1>5
<1>7. ASSUME NEW i \in 2 .. Len(m.cells) PROVE m.cells[i] = m.from
  <2>1. i \in 1 .. 1 + Len(samples) /\ ~ (i <= 1) /\ i - 1 \in 1 .. Len(samples)
    BY <1>3, <1>4, <1>5
  <2> QED
    BY <1>4, <1>5, <2>1
<1>8. NoResend'
  BY <1>1 DEF Own, NoResend
<1>9. OwnBodies'
  BY <1>1, <1>7 DEF Own, OwnBodies
<1>10. OwnQueues'
  BY <1>1 DEF Own, OwnQueues, OwnObjects
<1>11. TrueAcks'
  BY <1>1 DEF Own, TrueAcks, TrueAck, GetAvailableSize
<1> QED
  BY <1>8, <1>9, <1>10, <1>11 DEF Own

LEMMA OwnEnvironment ==
    ASSUME Inv, Own, Environment PROVE Own'
<1>1. /\ << >> \in Seq(Peers) /\ 0 \in Nat
      /\ \A p : \A i \in 1 .. Len(<< >>) : << >>[i] = p
  OBVIOUS
<1>2. ASSUME NEW p \in Peers, SendClient(p) PROVE Own'
  <2>1. idOf[p] \in Nat /\ Send(p, "CLIENT", idOf[p], << >>)
    BY <1>2 DEF SendClient, Inv, IdTypes, Ids, FirstId
  <2> QED
    BY <1>1, <2>1, OwnSend
<1>3. ASSUME NEW p \in Peers, SendKeepalive(p) \/ SendStray(p) PROVE Own'
  BY <1>1, <1>3, OwnSend DEF SendKeepalive, SendStray
<1>4. ASSUME NEW p \in Peers, NEW number \in Nat, NEW size \in UploadSizes,
             SendUpload(p, number, size)
      PROVE  Own'
  <2> DEFINE samples == [i \in 1 .. size |-> p]
  <2>1. size \in Nat
    BY ServerAssumption, Lengths
  <2>2. /\ samples \in Seq(Peers)
        /\ \A i \in 1 .. Len(samples) : samples[i] = p
    BY <2>1
  <2>3. Send(p, "UPLOAD", number, samples)
    BY <1>4 DEF SendUpload
  <2> HIDE DEF samples
  <2> QED
    BY <2>2, <2>3, OwnSend
<1>5. ASSUME NEW p \in Peers, NEW number \in Nat, SendRetransmit(p, number)
      PROVE  Own'
  BY <1>1, <1>5, OwnSend DEF SendRetransmit
<1>6. ASSUME NEW p \in Peers, Break(p) PROVE Own'
  BY <1>6, OwnUnless DEF Break, serverVars, udpVars, histories
<1>7. ASSUME NEW m \in net, Lose(m) PROVE Own'
  BY <1>7, OwnUnless DEF Lose, serverVars, udpVars, histories
<1> QED
  BY <1>2, <1>3, <1>4, <1>5, <1>6, <1>7 DEF Environment

LEMMA OwnStep == ASSUME Inv, Own, [Next]_vars, resent' = 0 PROVE Own'
<1>1. CASE HandleRetransmit \/ HandleKeepalive \/ HandleOther
  <2>1. CASE Crash
    BY <2>1, OwnUnless DEF Crash, serverVars, udpVars, peerVars, histories
  <2>2. CASE ~ Crash
    <3>1. /\ completed # << >> /\ completed' = Tail(completed)
          /\ UNCHANGED << resent, read_buf, sender, client_data, client_map,
                          net, acks >>
      BY <1>1, <2>2 DEF HandleRetransmit, HandleKeepalive, HandleOther,
                        Handling, Handled, serverVars, peerVars, histories
    <3> QED
      BY <3>1, Alone, OwnUnless
  <2> QED
    BY <2>1, <2>2
<1>2. CASE Handle
  BY <1>1, <1>2, OwnHandleClient, OwnHandleUpload DEF Handle
<1>3. CASE AckSent
  <2>1. /\ UNCHANGED << resends, resent, read_buf, sender, client_data,
                        client_map, net, completed >>
        /\ acks # << >> /\ acks' = Tail(acks)
    BY <1>3 DEF AckSent, serverVars, peerVars, histories
  <2> QED
    BY <2>1, Alone, OwnUnless
<1>4. CASE Resent
  BY <1>4 DEF Resent, Own, NoResend
<1>5. ASSUME NEW id \in DOMAIN writes, WriteOk(id) PROVE Own'
  BY <1>5, OwnUnless DEF WriteOk, udpVars, peerVars, histories
<1>6. CASE Complete
  BY <1>3, <1>4, <1>5, <1>6, OwnWriteFails, OwnAckFails, OwnReceive DEF Complete
<1>7. ASSUME NEW p \in Peers, Accept(p) PROVE Own'
  BY <1>7, OwnUnless DEF Accept, udpVars, histories
<1>8. CASE Stop
  BY <1>8, OwnUnless DEF Stop, udpVars, peerVars, histories
<1>9. CASE UNCHANGED vars
  BY <1>9, OwnUnless DEF vars, serverVars, udpVars, peerVars, histories
<1> QED
  BY <1>2, <1>6, <1>7, <1>8, <1>9, OwnTick, OwnEnvironment DEF Next

(* What was sent again stays sent.                                         *)
LEMMA ResentStays ==
    ASSUME Inv, [Next]_vars, resent' = 0 PROVE resent = 0
<1>1. resent \in Nat
  BY DEF Inv, DgramTypes
<1>2. resent' = resent \/ resent' = resent + 1
  <2>1. CASE Crash
    BY <2>1 DEF Crash, udpVars, histories
  <2>2. CASE Handle /\ ~ Crash
    BY <2>2 DEF Handle, HandleClient, HandleUpload, HandleRetransmit,
                HandleKeepalive, HandleOther, histories
  <2>3. CASE Complete /\ ~ Crash
    BY <2>3 DEF Complete, WriteOk, WriteFails, AckSent, AckFails, Resent,
                Receive, udpVars, histories
  <2>4. CASE Tick /\ ~ Crash
    BY <2>4 DEF Tick, Mixer, Raport, udpVars, histories
  <2>5. ASSUME NEW p \in Peers, Accept(p) PROVE resent' = resent
    BY <2>5 DEF Accept, udpVars, histories
  <2>6. CASE Stop
    BY <2>6 DEF Stop, udpVars, histories
  <2>7. CASE Environment
    BY <2>7 DEF Environment, SendClient, SendUpload, SendRetransmit,
                SendKeepalive, SendStray, Send, Break, Lose, udpVars, histories
  <2>8. CASE UNCHANGED vars
    BY <2>8 DEF vars, udpVars, histories
  <2> QED
    BY <2>1, <2>2, <2>3, <2>4, <2>5, <2>6, <2>7, <2>8 DEF Next
<1> QED
  BY <1>1, <1>2

(* Own is an invariant relative to Inv until a datagram was sent again.    *)
THEOREM OwnInvariance == Spec => [](Inv /\ (resent = 0 => Own))
<1>1. Init => Own
  <2> SUFFICES ASSUME Init PROVE Own
    OBVIOUS
  <2>1. DOMAIN client_data = {} /\ Len(read_buf) = 0 /\ Len(acks) = 0
    BY EmptyMap DEF Init
  <2> QED
    BY <2>1 DEF Init, Own, NoResend, OwnBodies, OwnQueues, TrueAcks
<1>2. Inv /\ (resent = 0 => Own) /\ [Next]_vars => (resent = 0 => Own)'
  BY OwnStep, ResentStays
<1> QED
  BY <1>1, <1>2, Invariance, PTL DEF Spec

(* No client is ever credited with samples of another (server.cc:206-230). *)
THEOREM SamplesAreOwn == Spec => []OwnSamples
<1>1. Inv /\ (resent = 0 => Own) => OwnSamples
  <2> SUFFICES ASSUME Own, NEW id \in DOMAIN client_data,
                      NEW i \in 1 .. Len(client_data[id].queue)
               PROVE  client_data[id].queue[i] = client_data[id].udp_endpoint
    BY DEF OwnSamples
  <2> DEFINE ep == client_data[id].udp_endpoint
  <2>1. client_data[id] \in ObjectsOf(Peers, {ep})
    BY DEF Own, OwnQueues, OwnObjects
  <2>2. client_data[id].queue \in Seq({ep})
    BY <2>1, Fields
  <2> QED
    BY <2>2, ElementOfSeq
<1> QED
  BY <1>1, OwnInvariance, PTL

(* An ACK that is sent again, to the endpoint that sent last, is for that  *)
(* endpoint and still true (server.cc:258-274).                            *)
THEOREM AcksAreCurrent == Spec => []AckIsCurrent
<1>1. Inv /\ (resent = 0 => Own) => AckIsCurrent
  BY DEF Own, TrueAcks, TrueAck, AckIsCurrent
<1> QED
  BY <1>1, OwnInvariance, PTL
-----------------------------------------------------------------------------
(* What AckPerUpload says of one step.                                     *)
CountsWithAck(id) ==
    LET old == client_data[id].expected_client_datagram_nr
        new == client_data'[id].expected_client_datagram_nr
    IN  \/ new = old
        \/ /\ new = old + 1
           /\ Len(acks') = Len(acks) + 1
           /\ acks'[Len(acks')].ack = new
           /\ acks'[Len(acks')].to = client_data[id].udp_endpoint

LEMMA TickCounts ==
    ASSUME Inv, Tick, NEW id \in DOMAIN client_data \cap DOMAIN client_data'
    PROVE  client_data'[id].expected_client_datagram_nr =
               client_data[id].expected_client_datagram_nr
<1> DEFINE c == client_data[id]
<1>1. c \in ObjectsOf(Peers, Cells) /\ nr \in Nat /\ MixSamples \in Nat
  BY ServerAssumption DEF Inv, MapTypes, IdTypes, Objects
<1>2. CASE Crash
  BY <1>2 DEF Crash, serverVars
<1>3. CASE Raport /\ ~ Crash
  <2>1. client_data'[id] = IF id \in Mapped THEN ResetStatistics(c) ELSE c
    BY <1>3 DEF Raport
  <2> HIDE DEF c
  <2>2. ResetStatistics(c).expected_client_datagram_nr =
            c.expected_client_datagram_nr
    BY <1>1 DEF ResetStatistics, ObjectsOf, CDTypeOf
  <2> QED
    BY <2>1, <2>2 DEF c
<1>4. CASE Mixer /\ ~ Crash
  <2> DEFINE d == IF id \in Active THEN AfterMixery(c, 2 * MixSamples) ELSE c
  <2>1. client_data'[id] = AddDgram(d, [nr |-> nr])
    BY <1>4 DEF Mixer, AfterTick
  <2> HIDE DEF c
  <2>2. /\ d \in ObjectsOf(Peers, Cells)
        /\ d.expected_client_datagram_nr = c.expected_client_datagram_nr
    BY <1>1, MixeryObject
  <2> HIDE DEF d
  <2>3. AddDgram(d, [nr |-> nr]).expected_client_datagram_nr =
            d.expected_client_datagram_nr
    BY <2>2 DEF AddDgram, ObjectsOf, CDTypeOf
  <2> QED
    BY <2>1, <2>2, <2>3 DEF c
<1> QED
  BY <1>2, <1>3, <1>4 DEF Tick

LEMMA UploadCounts ==
    ASSUME Inv, HandleUpload,
           NEW id \in DOMAIN client_data \cap DOMAIN client_data'
    PROVE  CountsWithAck(id)
<1> DEFINE it == client_map[sender]
           old == client_data[it]
           cd == AfterUpload(old, Body)
           expected == Header.nr = old.expected_client_datagram_nr
<1>1. CASE Unknown \/ ~ expected
  <2>1. client_data' = client_data
    BY <1>1 DEF HandleUpload, Crash, serverVars
  <2> QED
    BY <2>1 DEF CountsWithAck
<1>2. CASE ~ Unknown /\ expected
  <2>1. /\ client_data' = [client_data EXCEPT ![it] = cd]
        /\ acks' = Append(acks, NewAck(cd))
        /\ completed # << >>
    BY <1>2 DEF HandleUpload, Handling
  <2>2. CASE id # it
    <3>1. client_data'[id] = client_data[id]
      BY <2>1, <2>2
    <3> QED
      BY <3>1 DEF CountsWithAck
  <2>3. CASE id = it
    <3>1. old \in Objects /\ old.udp_endpoint = sender
      BY <1>2 DEF Unknown, Inv, MapTypes, MapsConsistent
    <3>2. /\ cd \in Objects
          /\ cd.expected_client_datagram_nr = old.expected_client_datagram_nr + 1
      BY <2>1, <3>1, BodyFits, UploadObject DEF Objects
    <3>3. NewAck(cd) \in Acks
      BY <2>1, <3>2, HandlingFacts, NewAckTyped
    <3>4. /\ NewAck(cd).to = sender
          /\ NewAck(cd).ack = cd.expected_client_datagram_nr
      BY <1>2, <3>2 DEF NewAck
    <3>5. client_data'[id] = cd
      BY <2>1, <2>3
    <3> HIDE DEF cd
    <3>6. PICK ack : ack = NewAck(cd)
      OBVIOUS
    <3>7. acks \in Seq(Acks) /\ ack \in Acks /\ acks' = Append(acks, ack)
      BY <2>1, <3>3, <3>6 DEF Inv, DgramTypes
    <3>8. Len(acks') = Len(acks) + 1 /\ acks'[Len(acks')] = ack
      BY <3>7, AppendProperties
    <3> QED
      BY <2>3, <3>1, <3>2, <3>4, <3>5, <3>6, <3>8 DEF CountsWithAck
  <2> QED
    BY <2>2, <2>3
<1> QED
  BY <1>1, <1>2

(* The expected number of a client moves by one at a time, with an ACK of  *)
(* the new number to that client, and nothing else moves it, a second      *)
(* CLIENT least of all (server.cc:168-256).                                *)
THEOREM AcksCount == Spec => AckPerUpload
<1>1. Inv /\ [Next]_vars =>
          [\A id \in DOMAIN client_data \cap DOMAIN client_data' :
              CountsWithAck(id)]_vars
  <2> SUFFICES ASSUME Inv, Next,
                      NEW id \in DOMAIN client_data \cap DOMAIN client_data'
               PROVE  CountsWithAck(id)
    OBVIOUS
  <2>1. CASE client_data'[id].expected_client_datagram_nr =
                 client_data[id].expected_client_datagram_nr
    BY <2>1 DEF CountsWithAck
  <2>2. CASE client_data' = client_data
    BY <2>2 DEF CountsWithAck
  <2>3. CASE HandleClient
    BY <2>1, <2>3 DEF HandleClient, Insert, Crash, serverVars
  <2>4. CASE Handle
    BY <2>2, <2>3, <2>4, UploadCounts
       DEF Handle, HandleRetransmit, HandleKeepalive, HandleOther, Crash,
           serverVars
  <2>5. ASSUME NEW i \in DOMAIN writes, WriteOk(i) \/ WriteFails(i)
        PROVE  client_data'[id] = client_data[id]
    BY <2>5 DEF WriteOk, WriteFails, FreeResources, Erase, Crash, serverVars
  <2>6. CASE Complete
    BY <2>1, <2>2, <2>5, <2>6
       DEF Complete, AckSent, AckFails, Resent, Receive, serverVars
  <2>7. CASE Tick
    BY <2>1, <2>7, TickCounts
  <2>8. CASE (\E p \in Peers : Accept(p)) \/ Stop
    BY <2>2, <2>8 DEF Accept, Stop
  <2>9. CASE Environment
    BY <2>2, <2>9
       DEF Environment, SendClient, SendKeepalive, SendStray, SendRetransmit,
           SendUpload, Send, Break, Lose, serverVars
  <2> QED
    BY <2>4, <2>6, <2>7, <2>8, <2>9 DEF Next
<1> QED
  BY <1>1, Invariance, PTL DEF Spec, AckPerUpload, CountsWithAck
=============================================================================
