------------------------------- MODULE Session -------------------------------
(***************************************************************************)
(* One client streaming to the server: module Client, the client_data the  *)
(* server keeps for it, and the UDP path between them.  The server's part  *)
(* is what module Server does for one peer, with one receive at a time.    *)
(* last_dgrams_ is left out: it only answers RETRANSMIT, which the client  *)
(* never sends.                                                            *)
(***************************************************************************)
EXTENDS Client, ClientDataOps

CONSTANTS
    Networks,       \* what the path may do, subset of the three below
    UploadHeader,   \* bytes of an UPLOAD header line
    MixSamples,     \* samples one mixer interval consumes of an ACTIVE queue
    SocketBuffer    \* DATA datagrams the client's socket can hold

ASSUME SessionAssumption ==
    /\ Networks \subseteq {"lossless", "lossy", "reordering"}
    /\ UploadHeader \in 1 .. FifoSize /\ UploadHeader <= ClientBufferLen
    /\ MixSamples \in Nat \ {0}
    /\ 2 * MixSamples + 1 <= High
    /\ SocketBuffer \in Nat \ {0}

VARIABLES
    network,        \* what the path does in this behaviour
    registered,     \* the server has client_data for the client
    cd,             \* that client_data
    stream,         \* history: the samples that entered the queue
    truncated,      \* history: an UPLOAD did not fit read_buf_
    overflowed,     \* history: an upload pushed samples out of the queue
    pipelined       \* history: an UPLOAD was sent before the last was acked

serverSide == << registered, cd, stream, truncated, overflowed >>
vars       == << clientVars, network, serverSide, pipelined >>

Init ==
    /\ ClientInit
    /\ network \in Networks
    /\ registered = FALSE
    /\ cd = NewClientData("client")
    /\ stream = << >>
    /\ truncated = FALSE
    /\ overflowed = FALSE
    /\ pipelined = FALSE

Ordered == network # "reordering"

(* The datagrams of a channel that can arrive next, by index, and what is  *)
(* left of the channel.  A path that reorders may deliver again.           *)
Arriving(channel) ==
    {i \in 1 .. Len(channel) : Ordered => i = 1}

Without(channel, i) ==
    SubSeq(channel, 1, i - 1) \o SubSeq(channel, i + 1, Len(channel))

After(channel, i) ==
    {Without(channel, i)} \cup (IF Ordered THEN {} ELSE {channel})

-----------------------------------------------------------------------------
(* The client *)

ClientReceive ==
    /\ pc = "receive"
    /\ \E i \in Arriving(toClient) :
          /\ toClient' \in After(toClient, i)
          /\ HandleData(toClient[i]) \/ HandleAck(toClient[i])
    /\ UNCHANGED << network, serverSide, pipelined >>

ClientRead ==
    /\ \E n \in ChunkSizes : ReadStdin(n)
    /\ pipelined' = (pipelined \/ acked < actual)
    /\ UNCHANGED << network, serverSide >>

ClientStep ==
    /\ Register \/ WriteStdout
    /\ UNCHANGED << network, serverSide, pipelined >>

ClientEnds ==
    /\ StreamEnds
    /\ UNCHANGED << network, serverSide, pipelined >>

-----------------------------------------------------------------------------
(* The server *)

(* client_data_map_.insert keeps an entry that exists.                     *)
RegisterClient ==
    /\ registered' = TRUE
    /\ UNCHANGED << toClient, cd, stream, truncated, overflowed >>

(* What fits the first fifo_size_ bytes of the array read_buf_ beside the  *)
(* header line; the socket drops the rest.                                 *)
Fitting(body) ==
    LET room == (Smaller(FifoSize, ClientBufferLen) - UploadHeader) \div 2
    IN  SubSeq(body, 1, Smaller(Len(body), room))

(* Deviation: a datagram beyond the expected one is accepted too.          *)
AcceptUploadAhead(m) ==
    LET body == Fitting(m.body)
    IN  /\ m.nr >= cd.expected_client_datagram_nr
        /\ cd' = AfterUpload(cd, body)
        /\ toClient' = Append(toClient,
                              AckDgram(m.nr + 1, GetAvailableSize(cd')))
        /\ stream' = stream \o body
        /\ truncated' = (truncated \/ body # m.body)
        /\ overflowed' = (overflowed \/ UploadShift(cd, body) > 0)
        /\ UNCHANGED registered

(* do_manage_msg, UPLOAD with the expected number.                         *)
AcceptUpload(m) ==
    LET body == Fitting(m.body)
    IN  /\ m.nr = cd.expected_client_datagram_nr
        /\ cd' = AfterUpload(cd, body)
        /\ toClient' = Append(toClient,
                              AckDgram(m.nr + 1, GetAvailableSize(cd')))
        /\ stream' = stream \o body
        /\ truncated' = (truncated \/ body # m.body)
        /\ overflowed' = (overflowed \/ UploadShift(cd, body) > 0)
        /\ UNCHANGED registered

(* Deviation: the repeated datagram is acknowledged again.                 *)
AckAgain(m) ==
    /\ m.nr # cd.expected_client_datagram_nr
    /\ toClient' = Append(toClient, AckDgram(cd.expected_client_datagram_nr,
                                             GetAvailableSize(cd)))
    /\ UNCHANGED serverSide

(* UPLOAD with any other number: nothing is sent, not even an ACK.         *)
DropUpload(m) ==
    /\ m.nr # cd.expected_client_datagram_nr
    /\ UNCHANGED << toClient, serverSide >>

ServerReceive ==
    /\ \E i \in Arriving(toServer) :
          /\ toServer' \in After(toServer, i)
          /\ \/ toServer[i].type = "CLIENT" /\ RegisterClient
             \/ /\ toServer[i].type = "UPLOAD"
                /\ AcceptUpload(toServer[i]) \/ DropUpload(toServer[i])
    /\ UNCHANGED << pc, first, counters, last, history, network, pipelined >>

(* A tick of the mixer.  DATA that finds the client's socket buffer full   *)
(* is dropped.  Beyond MaxAge + 2 it makes no difference how far the       *)
(* client is behind.                                                       *)
Aged(channel) ==
    [i \in DOMAIN channel |->
        IF channel[i].type = "DATA" THEN [channel[i] EXCEPT !.age = @ + 1]
                                    ELSE channel[i]]

DataInFlight == {i \in DOMAIN toClient : toClient[i].type = "DATA"}

Mixer ==
    /\ registered
    /\ \A i \in DataInFlight : toClient[i].age < MaxAge
    /\ cd' = IF RateQueueState(cd) = "ACTIVE"
             THEN AfterMixery(cd, 2 * MixSamples) ELSE cd
    /\ toClient' = IF Cardinality(DataInFlight) = SocketBuffer
                   THEN Aged(toClient)
                   ELSE Append(Aged(toClient),
                               DataDgram(cd.expected_client_datagram_nr,
                                         GetAvailableSize(cd')))
    /\ lag' = Smaller(lag + 1, MaxAge + 2)
    /\ UNCHANGED << pc, first, actual, win, last, toServer, history, network,
                    registered, stream, truncated, overflowed, pipelined >>

-----------------------------------------------------------------------------
Lose ==
    /\ network # "lossless"
    /\ \/ /\ \E i \in DOMAIN toServer : toServer' = Without(toServer, i)
          /\ UNCHANGED toClient
       \/ /\ \E i \in DOMAIN toClient : toClient' = Without(toClient, i)
          /\ UNCHANGED toServer
    /\ UNCHANGED << pc, first, counters, last, history, network, serverSide,
                    pipelined >>

Next ==
    \/ ClientStep
    \/ ClientReceive
    \/ ClientRead
    \/ ClientEnds
    \/ ServerReceive
    \/ Mixer
    \/ Lose

Spec == Init /\ [][Next]_vars

(* Ready handlers run and the mixer timer ticks; nobody need feed stdin.   *)
Fairness ==
    /\ WF_vars(ClientStep) /\ WF_vars(ClientReceive)
    /\ WF_vars(ServerReceive)
    /\ WF_vars(Mixer)

FairSpec == Spec /\ Fairness

-----------------------------------------------------------------------------
Uploads(channel) == {i \in DOMAIN channel : channel[i].type = "UPLOAD"}

TypeOK ==
    /\ pc \in {"start", "receive", "stdout", "stdin", "stopped"}
    /\ first \in BOOLEAN /\ registered \in BOOLEAN
    /\ lag \in 0 .. MaxAge + 2
    /\ actual \in Nat /\ read \in Nat /\ acked \in Nat
    /\ win \in 0 .. Larger(ClientBufferLen, FifoSize)
    /\ last_header \in {"none", "CLIENT", "DATA", "ACK"}
    /\ Len(last_datagram) <= 1
    /\ \A i \in DOMAIN toServer : toServer[i].type \in {"CLIENT", "UPLOAD"}
    /\ \A i \in DOMAIN toClient : toClient[i].type \in {"DATA", "ACK"}
    /\ cd.queue_size = Len(cd.queue) /\ cd.queue_size <= MaxQueueLength

(* Whatever the path loses, repeats and reorders, the samples that enter   *)
(* the FIFO are those of stdin, in order and none twice; and none is       *)
(* skipped as long as every UPLOAD fits the receive buffer of the server.  *)
StreamIntact ==
    /\ \A i \in 2 .. Len(stream) : stream[i - 1] < stream[i]
    /\ ~ truncated => stream = [i \in 1 .. Len(stream) |-> i]

(* The server never expects a datagram the client has not sent, and on a   *)
(* path that keeps order the client is at most two UPLOADs ahead of the    *)
(* last ACK it handled.  It is not one: the second DATA of a session is    *)
(* not taken for a sign that the first UPLOAD was lost (client.cc:457).    *)
AtMostTwoAhead ==
    /\ cd.expected_client_datagram_nr <= actual
    /\ Ordered => actual <= acked + 2

(* A client that waits for each ACK before the next UPLOAD never           *)
(* overflows its FIFO, on a path that keeps order: the window it reads is  *)
(* then never older than its last UPLOAD.                                  *)
OverflowNeedsPipelining == Ordered /\ overflowed => pipelined

(* As long as the client waited for every ACK, a lost UPLOAD can be        *)
(* recovered: what the server waits for is what the client would send      *)
(* again.                                                                  *)
LastIsMissing ==
    /\ ~ pipelined /\ Ordered /\ cd.expected_client_datagram_nr < actual
    => /\ last_datagram[1].type = "UPLOAD"
       /\ last_datagram[1].nr = cd.expected_client_datagram_nr

(* On a path that loses nothing, every sample read from stdin enters the   *)
(* FIFO, whatever the order of ticks, ACKs and reads.                      *)
Progress ==
    network = "lossless" /\ pc # "stopped" /\ cd.expected_client_datagram_nr < actual
        ~> pc = "stopped" \/ cd.expected_client_datagram_nr = actual

(* The client repeats its last UPLOAD, the server has long accepted it and *)
(* stays silent (server.cc:284), and no ACK is under way.                  *)
Wedged ==
    /\ pc \in {"receive", "stopped"}
    /\ last_header = "DATA"
    /\ \A i \in DOMAIN toClient : toClient[i].type = "DATA"
    /\ \A datagrams \in {toServer, last_datagram} :
           \A i \in Uploads(datagrams) :
               datagrams[i].nr # cd.expected_client_datagram_nr

(* Nothing gets such a session going again, on any path: no DATA reaches   *)
(* stdout and nothing is read from stdin, however long the two exchange    *)
(* datagrams.  One lost ACK leads there.                                   *)
WedgedForGood == [][Wedged => Wedged' /\ read' = read]_vars

(* On a path that keeps order the numbers of the uploads behave as the     *)
(* abstract Uplink: accepted one by one, acknowledgements never repeated   *)
(* nor out of order, and the client at most two ahead.                     *)
Link == INSTANCE Uplink
    WITH Ahead <- 2, sent <- actual,
         received <- cd.expected_client_datagram_nr, learned <- acked

ImplementsUplink ==
    /\ Link!UplinkInit
    /\ [][Ordered => Link!UplinkNext]_(Link!uplink)

(* The comment in do_manage_msg: on the second DATA without a sign that    *)
(* the last datagram arrived, it is sent again (client.cc:440-442).        *)
SecondDataResends ==
    [][ClientReceive /\ previous = "DATA" /\ previous' = "DATA"
           => toServer' = toServer \o last_datagram]_vars
=============================================================================
