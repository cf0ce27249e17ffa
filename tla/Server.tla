-------------------------------- MODULE Server --------------------------------
(***************************************************************************)
(* The server process: class server with its connection_manager and        *)
(* connections.  One thread runs the io_service, so every handler is one   *)
(* atomic action; what interleaves is the order of the handlers: datagrams *)
(* received, sends and writes completed, ticks of the mixer and report     *)
(* timers, accepted connections, the stop signal.                          *)
(*                                                                         *)
(* The peers are client processes that follow the protocol: CLIENT with    *)
(* the id they were given, UPLOAD and RETRANSMIT once they were sent DATA, *)
(* KEEPALIVE at any time.  UDP loses, duplicates and reorders; a TCP       *)
(* connection may break at any time.  With Returning, a peer whose         *)
(* connection broke is started again and its new process has the endpoint  *)
(* of the old one; with Strays, datagrams arrive that the server has no    *)
(* branch for.                                                             *)
(*                                                                         *)
(* A datagram is a sequence of cells: the header line is one cell, every   *)
(* sample of the body another.  A sample is the peer that uploaded it.     *)
(***************************************************************************)
EXTENDS Integers, Sequences, FiniteSets, ClientDataOps

CONSTANTS
    Peers,          \* the client processes; also their UDP endpoints
    UploadSizes,    \* the numbers of samples an UPLOAD can carry
    MixSamples,     \* samples one mixer interval consumes of each ACTIVE queue
    Retransmits,    \* whether peers send RETRANSMIT (client/ never does)
    Returning,      \* whether peers come back on their old endpoint
    Strays          \* whether other datagrams arrive

(* A datagram is read into fifo_size_ bytes, header included, so an upload *)
(* is smaller than the queue; and -H covers an interval (module Mixer).    *)
ASSUME ServerAssumption ==
    /\ UploadSizes \subseteq 0 .. MaxQueueLength
    /\ MixSamples \in Nat \ {0}
    /\ 2 * MixSamples + 1 <= High
    /\ {Retransmits, Returning, Strays} \subseteq BOOLEAN

VARIABLES
    status,         \* "running", or "crashed": undefined behaviour or an
                    \* exception that leaves io_service::run
    open,           \* acceptor_.is_open()
    clientid,       \* clientid_: the last id given
    connections,    \* the ids in connections_map_
    writes,         \* writes[id]: TCP writes of that connection under way
    client_map,     \* client_map_: endpoint -> id
    client_data,    \* client_data_map_: id -> client_data
    nr,             \* current_datagram_nr_
    receives,       \* receive operations the socket has not completed
    completed,      \* lengths of completed receives whose handler is due
    read_buf,       \* read_buf_, shared by all receives
    sender,         \* sender_endpoint_, shared too
    acks,           \* ACK datagrams being sent
    resends,        \* retransmitted datagrams being sent
    resent,         \* history: retransmitted datagrams sent
    ended,          \* history: handlers that did not resume receiving
    idOf,           \* idOf[p]: the id the server gave to peer p, 0 if none
    broken,         \* ids of connections the peer or the network broke
    reused,         \* history: peers that came back on their old endpoint
    heard,          \* peers that were sent DATA since they connected
    net             \* datagrams on their way to the server

serverVars == << clientid, connections, writes, client_map, client_data, nr >>
histories  == << resent, ended >>
udpVars    == << receives, completed, read_buf, sender, acks, resends, histories >>
peerVars   == << idOf, broken, reused, heard, net >>
vars       == << status, open, serverVars, udpVars, peerVars >>

FirstId == 8    \* clientid_ before the first connection

Datagram(p, header, samples) == [from |-> p, cells |-> << header >> \o samples]

Init ==
    /\ status = "running"
    /\ open = TRUE
    /\ clientid = FirstId
    /\ connections = {}
    /\ writes = << >>
    /\ client_map = << >>
    /\ client_data = << >>
    /\ nr = 0
    /\ receives = 1
    /\ completed = << >>
    /\ read_buf = << >>
    /\ sender = "none"
    /\ acks = << >>
    /\ resends = 0
    /\ resent = 0
    /\ ended = 0
    /\ idOf = [p \in Peers |-> 0]
    /\ broken = {}
    /\ reused = {}
    /\ heard = {}
    /\ net = {}

(* Deviation: an entry that exists is overwritten.                         *)
InsertOverwrites(map, key, value) ==
    [k \in DOMAIN map \cup {key} |-> IF k = key THEN value ELSE map[k]]

(* Partial maps: insert keeps an entry that exists, erase removes one.     *)
Insert(map, key, value) ==
    [k \in DOMAIN map \cup {key} |-> IF k \in DOMAIN map THEN map[k] ELSE value]

Erase(map, key) == [k \in DOMAIN map \ {key} |-> map[k]]

(* A null pointer or end() is dereferenced, or an exception is not caught. *)
Crash ==
    /\ status' = "crashed"
    /\ UNCHANGED << open, serverVars, udpVars, peerVars >>

-----------------------------------------------------------------------------
(* TCP *)

(* do_accept with get_next_clientid, connection_manager::start and         *)
(* connection::start, which writes the id to the client.  A peer that      *)
(* comes back is a new client to the server, whether or not its broken     *)
(* connection was noticed.                                                 *)
Accept(p) ==
    /\ status = "running" /\ open
    /\ idOf[p] = 0 \/ (Returning /\ idOf[p] \in broken)
    /\ reused' = IF idOf[p] = 0 THEN reused ELSE reused \cup {p}
    /\ heard' = heard \ {p}
    /\ clientid' = clientid + 1
    /\ connections' = connections \cup {clientid + 1}
    /\ writes' = Insert(writes, clientid + 1, 1)
    /\ idOf' = [idOf EXCEPT ![p] = clientid + 1]
    /\ UNCHANGED << status, open, client_map, client_data, nr, udpVars,
                    broken, net >>

(* A write completed without error: the handler has nothing to do.         *)
WriteOk(id) ==
    /\ status = "running"
    /\ id \in DOMAIN writes /\ writes[id] > 0
    /\ writes' = [writes EXCEPT ![id] = @ - 1]
    /\ UNCHANGED << status, open, clientid, connections, client_map,
                    client_data, nr, udpVars, peerVars >>

(* Deviation: the endpoint stays mapped.                                   *)
FreeDataOnly(id) ==
    /\ client_map' = client_map
    /\ client_data' = Erase(client_data, id)

(* free_resources after connection_manager::stop has closed the socket.    *)
(* The iterator that find returns is dereferenced unchecked.               *)
FreeResources(id) ==
    /\ client_map' = Erase(client_map, client_data[id].udp_endpoint)
    /\ client_data' = Erase(client_data, id)

(* Deviation: connection_manager::stop forgets the server's resources.     *)
WriteFailsKeepsData(id) ==
    /\ status = "running"
    /\ id \in DOMAIN writes /\ writes[id] > 0
    /\ id \in broken \/ id \notin connections
    /\ writes' = [writes EXCEPT ![id] = @ - 1]
    /\ connections' = connections \ {id}
    /\ UNCHANGED << status, open, clientid, client_map, client_data, nr,
                    udpVars, peerVars >>

(* A write failed: the connection is broken, or it was closed under the    *)
(* write (connection_manager::stop or stop_all).                           *)
WriteFails(id) ==
    /\ status = "running"
    /\ id \in DOMAIN writes /\ writes[id] > 0
    /\ id \in broken \/ id \notin connections
    /\ IF id \notin DOMAIN client_data THEN Crash
       ELSE /\ FreeResources(id)
            /\ writes' = [writes EXCEPT ![id] = @ - 1]
            /\ connections' = connections \ {id}
            /\ UNCHANGED << status, open, clientid, nr, udpVars, peerVars >>

(* The report timer: send_raport.  The statistics of every mapped client   *)
(* are reported and reset, and the report is written to every connection.  *)
Mapped == {client_map[ep] : ep \in DOMAIN client_map}

Raport ==
    /\ status = "running"
    /\ IF \E id \in Mapped : id \notin DOMAIN client_data THEN Crash
       ELSE /\ client_data' = [id \in DOMAIN client_data |->
                  IF id \in Mapped THEN ResetStatistics(client_data[id])
                                   ELSE client_data[id]]
            /\ writes' = [id \in DOMAIN writes |->
                  IF id \in connections THEN writes[id] + 1 ELSE writes[id]]
            /\ UNCHANGED << status, open, clientid, connections, client_map, nr,
                            udpVars, peerVars >>

(* The stop signal: do_await_stop and stop_all.  The timers and the UDP    *)
(* socket are left alone.                                                  *)
Stop ==
    /\ status = "running" /\ open
    /\ open' = FALSE
    /\ connections' = {}
    /\ UNCHANGED << status, clientid, writes, client_map, client_data, nr,
                    udpVars, peerVars >>

-----------------------------------------------------------------------------
(* The mixer *)

Active == {id \in Mapped : RateQueueState(client_data[id]) = "ACTIVE"}

(* A tick: the ACTIVE queues lose what was mixed of them (2 * MixSamples   *)
(* bytes each: ConsumedExact of module Mixer), then every client gets the  *)
(* next DATA, which is kept for retransmission.                            *)
AfterTick(id) ==
    AddDgram(IF id \in Active THEN AfterMixery(client_data[id], 2 * MixSamples)
                              ELSE client_data[id],
             [nr |-> nr])

MixerCrashes ==
    \/ \E id \in Mapped : id \notin DOMAIN client_data
    \/ \E id \in Active : client_data[id].queue_size < MixSamples

Mixer ==
    /\ status = "running"
    /\ IF MixerCrashes THEN Crash
       ELSE /\ client_data' = [id \in DOMAIN client_data |-> AfterTick(id)]
            /\ heard' = heard \cup
                  {client_data[id].udp_endpoint : id \in DOMAIN client_data}
            /\ nr' = nr + 1
            /\ UNCHANGED << status, open, clientid, connections, writes,
                            client_map, udpVars, idOf, broken, reused, net >>

-----------------------------------------------------------------------------
(* UDP *)

(* The socket fills the shared buffer and the shared sender endpoint; the  *)
(* handler runs later.  What the buffer held beyond the datagram stays.    *)
(* The datagram may be delivered again.                                    *)
Receive(m, again) ==
    /\ status = "running"
    /\ receives > 0
    /\ receives' = receives - 1
    /\ completed' = Append(completed, Len(m.cells))
    /\ read_buf' = m.cells \o SubSeq(read_buf, Len(m.cells) + 1, Len(read_buf))
    /\ sender' = m.from
    /\ net' = IF again THEN net ELSE net \ {m}
    /\ UNCHANGED << status, open, serverVars, acks, resends, histories,
                    idOf, broken, reused, heard >>

(* Deviation: the length received is not heeded.                           *)
WholeBuffer == Tail(read_buf)

(* The datagram as the handler of a completed receive sees it.             *)
Header == read_buf[1]
Body   == SubSeq(read_buf, 2, Head(completed))

Handling(type) ==
    /\ status = "running"
    /\ completed # << >>
    /\ Header.type = type

Handled == completed' = Tail(completed)

(* do_manage_msg, CLIENT.  connections_map_[id] is null for an id that is  *)
(* not there, and remote_endpoint throws once the connection is broken.    *)
HandleClient ==
    /\ Handling("CLIENT")
    /\ IF Header.nr \notin connections THEN Crash
       ELSE \/ /\ Header.nr \in broken
               /\ Crash
            \/ /\ client_map' = Insert(client_map, sender, Header.nr)
               /\ client_data' =
                      Insert(client_data, Header.nr, NewClientData(sender))
               /\ receives' = receives + 1
               /\ Handled
               /\ UNCHANGED << status, open, clientid, connections, writes, nr,
                               read_buf, sender, acks, resends, histories,
                               peerVars >>

(* client_map_[endpoint] makes an entry for id 0 of an unknown endpoint,   *)
(* and client_data_map_[0] is null.                                        *)
Unknown == sender \notin DOMAIN client_map
           \/ client_map[sender] \notin DOMAIN client_data

(* Deviation: the window is read before the upload.                        *)
NewAckStale(cd) ==
    [ack |-> Header.nr + 1,
     win |-> GetAvailableSize(client_data[client_map[sender]]), to |-> sender]

(* The ACK for an upload that left the client with cd.                     *)
NewAck(cd) ==
    [ack |-> Header.nr + 1, win |-> GetAvailableSize(cd), to |-> sender]

(* UPLOAD with the expected number: the ACK is sent, and its completion    *)
(* resumes receiving.                                                      *)
HandleUpload ==
    /\ Handling("UPLOAD")
    /\ IF Unknown THEN Crash
       ELSE LET id == client_map[sender]
                cd == AfterUpload(client_data[id], Body)
            IN  /\ IF Header.nr = client_data[id].expected_client_datagram_nr
                   THEN /\ client_data' = [client_data EXCEPT ![id] = cd]
                        /\ acks' = Append(acks, NewAck(cd))
                        /\ receives' = receives
                   ELSE /\ receives' = receives + 1
                        /\ UNCHANGED << client_data, acks >>
                /\ Handled
                /\ UNCHANGED << status, open, clientid, connections, writes,
                                client_map, nr, read_buf, sender, resends,
                                histories, peerVars >>

(* Deviation: the datagrams sent are relied on to resume receiving.        *)
HandleRetransmitDeaf ==
    /\ Handling("RETRANSMIT")
    /\ IF Unknown THEN Crash
       ELSE /\ resends' = resends + Len(GetLastDgrams(
                              client_data[client_map[sender]], Header.nr))
            /\ Handled
            /\ UNCHANGED << status, open, serverVars, receives, read_buf,
                            sender, acks, histories, peerVars >>

(* RETRANSMIT: receiving resumes at once and the datagrams are sent.       *)
HandleRetransmit ==
    /\ Handling("RETRANSMIT")
    /\ IF Unknown THEN Crash
       ELSE /\ resends' = resends + Len(GetLastDgrams(
                              client_data[client_map[sender]], Header.nr))
            /\ receives' = receives + 1
            /\ Handled
            /\ UNCHANGED << status, open, serverVars, read_buf, sender, acks,
                            histories, peerVars >>

(* Deviation: the handler does not resume receiving.                       *)
HandleKeepaliveDeaf ==
    /\ Handling("KEEPALIVE")
    /\ Handled
    /\ UNCHANGED << status, open, serverVars, receives, read_buf, sender, acks,
                    resends, histories, peerVars >>

HandleKeepalive ==
    /\ Handling("KEEPALIVE")
    /\ receives' = receives + 1
    /\ Handled
    /\ UNCHANGED << status, open, serverVars, read_buf, sender, acks, resends,
                    histories, peerVars >>

(* A header that is invalid, or one only the client has a branch for: the  *)
(* handler returns and does not resume receiving.                          *)
HandleOther ==
    /\ Handling("OTHER")
    /\ Handled
    /\ ended' = ended + 1
    /\ UNCHANGED << status, open, serverVars, receives, read_buf, sender, acks,
                    resends, resent, peerVars >>

(* An ACK was sent.                                                        *)
AckSent ==
    /\ status = "running"
    /\ acks # << >>
    /\ acks' = Tail(acks)
    /\ receives' = receives + 1
    /\ UNCHANGED << status, open, serverVars, completed, read_buf, sender,
                    resends, histories, peerVars >>

(* It was not: it is sent again, to whoever sender_endpoint_ is now.       *)
AckFails ==
    /\ status = "running"
    /\ acks # << >>
    /\ acks' = Append(Tail(acks), [Head(acks) EXCEPT !.to = sender])
    /\ UNCHANGED << status, open, serverVars, receives, completed, read_buf,
                    sender, resends, histories, peerVars >>

(* A retransmitted datagram was sent, or was not: another receive starts.  *)
Resent ==
    /\ status = "running"
    /\ resends > 0
    /\ resends' = resends - 1
    /\ resent' = resent + 1
    /\ receives' = receives + 1
    /\ UNCHANGED << status, open, serverVars, completed, read_buf, sender,
                    acks, ended, peerVars >>

-----------------------------------------------------------------------------
(* The peers and the network (of a server that runs) *)

Send(p, type, number, samples) ==
    /\ status = "running"
    /\ net' = net \cup {Datagram(p, [type |-> type, nr |-> number], samples)}
    /\ UNCHANGED << status, open, serverVars, udpVars, idOf, broken, reused, heard >>

SendClient(p) ==
    /\ idOf[p] # 0
    /\ Send(p, "CLIENT", idOf[p], << >>)

SendUpload(p, number, size) ==
    /\ p \in heard
    /\ Send(p, "UPLOAD", number, [i \in 1 .. size |-> p])

SendRetransmit(p, number) ==
    /\ Retransmits
    /\ p \in heard
    /\ Send(p, "RETRANSMIT", number, << >>)

SendKeepalive(p) ==
    /\ idOf[p] # 0
    /\ Send(p, "KEEPALIVE", 0, << >>)

SendStray(p) ==
    /\ Strays
    /\ Send(p, "OTHER", 0, << >>)

Lose(m) ==
    /\ status = "running"
    /\ net' = net \ {m}
    /\ UNCHANGED << status, open, serverVars, udpVars, idOf, broken, reused, heard >>

Break(p) ==
    /\ status = "running"
    /\ idOf[p] # 0 /\ idOf[p] \notin broken
    /\ broken' = broken \cup {idOf[p]}
    /\ UNCHANGED << status, open, serverVars, udpVars, idOf, reused, heard, net >>

-----------------------------------------------------------------------------
Handle ==
    \/ HandleClient
    \/ HandleUpload
    \/ HandleRetransmit
    \/ HandleKeepalive
    \/ HandleOther

Complete ==
    \/ \E id \in DOMAIN writes : WriteOk(id) \/ WriteFails(id)
    \/ AckSent
    \/ AckFails
    \/ Resent
    \/ \E m \in net, again \in BOOLEAN : Receive(m, again)

Tick == Mixer \/ Raport

Environment ==
    \/ \E p \in Peers :
          \/ SendClient(p)
          \/ SendKeepalive(p)
          \/ SendStray(p)
          \/ \E number \in Nat : SendRetransmit(p, number)
          \/ \E number \in Nat, size \in UploadSizes : SendUpload(p, number, size)
          \/ Break(p)
    \/ \E m \in net : Lose(m)

Next ==
    \/ Handle
    \/ Complete
    \/ Tick
    \/ \E p \in Peers : Accept(p)
    \/ Stop
    \/ Environment

Spec == Init /\ [][Next]_vars

(* The handlers the io_service has ready run, and a send to a UDP socket   *)
(* that is retried for ever succeeds in the end.                           *)
Fairness == WF_vars(Handle) /\ SF_vars(AckSent)

FairSpec == Spec /\ Fairness

-----------------------------------------------------------------------------
TypeOK ==
    /\ status \in {"running", "crashed"}
    /\ open \in BOOLEAN
    /\ clientid \in Nat
    /\ connections \subseteq FirstId + 1 .. clientid
    /\ writes \in [FirstId + 1 .. clientid -> Nat]
    /\ \A ep \in DOMAIN client_map :
           ep \in Peers /\ client_map[ep] \in FirstId + 1 .. clientid
    /\ \A id \in DOMAIN client_data :
           /\ id \in FirstId + 1 .. clientid
           /\ client_data[id].udp_endpoint \in Peers
           /\ client_data[id].queue_size = Len(client_data[id].queue)
           /\ client_data[id].queue_size <= MaxQueueLength
    /\ nr \in Nat
    /\ receives \in Nat /\ resends \in Nat /\ resent \in Nat /\ ended \in Nat
    /\ completed \in Seq(Nat \ {0})
    /\ sender \in Peers \cup {"none"}
    /\ acks \in Seq([ack : Nat, win : Nat, to : Peers])
    /\ idOf \in [Peers -> {0} \cup FirstId + 1 .. clientid]
    /\ broken \subseteq FirstId + 1 .. clientid
    /\ reused \subseteq Peers /\ heard \subseteq Peers

(* The chain of receives is never cut and never forked: one receive is     *)
(* under way, or its handler is due, or the ACK whose completion resumes   *)
(* receiving is being sent; one more for every retransmitted datagram,     *)
(* whose completion handler starts a receive too (server.cc:370), and one  *)
(* less for every datagram without a branch (server.cc:138).               *)
ReceiveChain ==
    status = "running" =>
        receives + Len(completed) + Len(acks) + ended = 1 + resent

(* client_map_ and client_data_map_ are two views of one set of clients:   *)
(* every mapped endpoint leads to the data of that endpoint; and back, as  *)
(* long as the endpoint has had one client only (client_map_.insert keeps  *)
(* the id of the old one, server.cc:189).                                  *)
MapsConsistent ==
    /\ \A ep \in DOMAIN client_map :
           /\ client_map[ep] \in DOMAIN client_data
           /\ client_data[client_map[ep]].udp_endpoint = ep
    /\ \A id \in DOMAIN client_data :
           client_data[id].udp_endpoint \notin reused =>
               /\ client_data[id].udp_endpoint \in DOMAIN client_map
               /\ client_map[client_data[id].udp_endpoint] = id

(* Until the stop signal, the server keeps data only for clients whose     *)
(* connection is up: a connection that failed took its data along.         *)
NoOrphanData == open => DOMAIN client_data \subseteq connections

(* No client brings the server down but by a broken connection of its own, *)
(* an endpoint that was used before, or after the stop signal: ticks and   *)
(* reports never do, and no order, loss or repetition of the datagrams of  *)
(* a client whose connection is up does, whatever happens to the others.   *)
CrashIsOwn ==
    status = "running" =>
        /\ ~ MixerCrashes
        /\ completed # << >> /\ open /\ sender \notin reused =>
               LET id == idOf[sender]
               IN  /\ Header.type = "CLIENT" /\ id \notin broken
                      => id = Header.nr /\ id \in connections
                   /\ Header.type \in {"UPLOAD", "RETRANSMIT"} /\ id \notin broken
                      => ~ Unknown

(* No client is credited with the samples of another, although all         *)
(* receives share one buffer and one sender endpoint: until a datagram was *)
(* retransmitted, which forks the chain of receives (server.cc:370).       *)
OwnSamples ==
    resent = 0 =>
        \A id \in DOMAIN client_data :
            \A i \in 1 .. Len(client_data[id].queue) :
                client_data[id].queue[i] = client_data[id].udp_endpoint

(* An ACK under way, retried or not, still tells its client the truth: the *)
(* number it acknowledges is the one expected, and the room it promises is *)
(* there (until a datagram was retransmitted, as above).                   *)
AckIsCurrent ==
    resent = 0 =>
        \A i \in 1 .. Len(acks) :
            acks[i].to \in DOMAIN client_map =>
                LET cd == client_data[client_map[acks[i].to]]
                IN  /\ acks[i].ack = cd.expected_client_datagram_nr
                    /\ acks[i].win <= GetAvailableSize(cd)

(* The expected number of a client moves by one, and only with an ACK for  *)
(* it; registering again (a repeated CLIENT) never starts it anew.         *)
AckPerUpload ==
    [][\A id \in DOMAIN client_data \cap DOMAIN client_data' :
          LET old == client_data[id].expected_client_datagram_nr
              new == client_data'[id].expected_client_datagram_nr
          IN  \/ new = old
              \/ /\ new = old + 1
                 /\ Len(acks') = Len(acks) + 1
                 /\ acks'[Len(acks')].ack = new
                 /\ acks'[Len(acks')].to = client_data[id].udp_endpoint
      ]_vars

(* A server that runs is ready to receive again and again: no datagram it  *)
(* has a branch for and no failed ACK leaves it deaf.  What does is one    *)
(* datagram without a branch per receive of the chain.                     *)
NeverDeaf == []<>(receives > 0 \/ status = "crashed" \/ ended > resent)

(* The comment on the stop signal: the pending asynchronous operations are *)
(* withdrawn, then the io_service closes (server.cc:401-402).              *)
StopCancelsAll ==
    ~ open ~> (status = "crashed" \/ (receives = 0 /\ completed = << >>))

(* The comment in connection_manager::stop: after a connection ended, free *)
(* the resources in the server (connection_manager.cc:26).                 *)
EndedConnectionFreed ==
    [][\A id \in DOMAIN writes :
          open /\ WriteFails(id) =>
              status' = "running" /\ id \notin DOMAIN client_data']_vars
=============================================================================
