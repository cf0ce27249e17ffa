-------------------------------- MODULE Client --------------------------------
(***************************************************************************)
(* The UDP half of the client process (client/client.cc).  Its handlers    *)
(* form one chain: receive a datagram, and for DATA write the body to      *)
(* stdout, read stdin, send an UPLOAD; then receive again.  pc says which  *)
(* operation of the chain is under way.  A send and its completion are one *)
(* step: the handlers ignore its outcome, so a send that fails is a        *)
(* datagram lost.                                                          *)
(*                                                                         *)
(* The numbers of DATA datagrams matter only relative to one another.  A   *)
(* datagram carries its age, the number of DATA sent since; lag is the     *)
(* number of DATA sent with a number >= nr_expected_.                      *)
(*                                                                         *)
(* What comes from stdin is a stream of samples 1, 2, 3, ...               *)
(***************************************************************************)
EXTENDS Integers, Sequences, FiniteSets

CONSTANTS
    ClientBufferLen,    \* CLIENT_BUFFER_LEN, in bytes
    ChunkSizes,         \* samples one read of stdin can return
    MaxAge              \* a DATA datagram older than this is not in flight

ASSUME ClientAssumption ==
    /\ ClientBufferLen \in Nat
    /\ ChunkSizes \subseteq Nat \ {0}
    /\ MaxAge \in Nat

VARIABLES
    pc,             \* "start", "receive", "stdout", "stdin" or "stopped"
    first,          \* first_data_dgram_to_be_received
    lag,            \* current_datagram_nr_ of the server - nr_expected_
    actual,         \* actual_dgram_nr_: the number of the next UPLOAD
    win,            \* win_
    last_header,    \* last_header_title_
    last_datagram,  \* last_datagram_, << >> or a sequence of one datagram
    toServer,       \* datagrams on their way to the server
    toClient,       \* datagrams on their way to the client
    read,           \* history: samples read from stdin
    acked,          \* history: the last acknowledged number handled
    previous        \* history: the type of the datagram handled last

counters   == << lag, actual, win >>
last       == << last_header, last_datagram >>
history    == << read, acked, previous >>
clientVars == << pc, first, counters, last, toServer, toClient, history >>

ClientDgram         == [type |-> "CLIENT"]
UploadDgram(nr, s)  == [type |-> "UPLOAD", nr |-> nr, body |-> s]
AckDgram(ack, free) == [type |-> "ACK", ack |-> ack, win |-> free]
DataDgram(ack, free) ==
    [type |-> "DATA", age |-> 0, ack |-> ack, win |-> free]

ClientInit ==
    /\ pc = "start"
    /\ first = TRUE
    /\ lag = 0
    /\ actual = 0
    /\ win = ClientBufferLen
    /\ last_header = "none"
    /\ last_datagram = << >>
    /\ toServer = << >>
    /\ toClient = << >>
    /\ read = 0
    /\ acked = 0
    /\ previous = "none"

(* do_send_clientid_datagram, once the id came over TCP; keepalives are    *)
(* left to module Server.                                                  *)
Register ==
    /\ pc = "start"
    /\ toServer' = Append(toServer, ClientDgram)
    /\ pc' = "receive"
    /\ UNCHANGED << first, counters, last, toClient, history >>

(* The second DATA in a row: the last datagram is sent again and the body  *)
(* of this one is dropped.                                                 *)
ResendLast ==
    /\ toServer' = toServer \o last_datagram
    /\ pc' = IF last_datagram = << >> THEN "stopped" ELSE "receive"
    /\ UNCHANGED << first, lag, actual, last, read, acked >>

(* Deviation: ack is taken for the last number received.                   *)
FirstDataAfterAck(m) ==
    /\ lag' = m.age
    /\ actual' = m.ack + 1
    /\ acked' = m.ack
    /\ last_header' = "CLIENT"
    /\ last_datagram' = << ClientDgram >>
    /\ first' = FALSE
    /\ pc' = "stdout"
    /\ UNCHANGED << toServer, read >>

(* The first DATA of the session.                                          *)
FirstData(m) ==
    /\ lag' = m.age
    /\ actual' = m.ack
    /\ acked' = m.ack
    /\ last_header' = "CLIENT"
    /\ last_datagram' = << ClientDgram >>
    /\ first' = FALSE
    /\ pc' = "stdout"
    /\ UNCHANGED << toServer, read >>

(* Deviation: last_header_title_ is not updated.                           *)
NextDataForgets(m) ==
    /\ IF m.age >= lag THEN pc' = "receive" /\ lag' = lag
                       ELSE pc' = "stdout" /\ lag' = m.age
    /\ UNCHANGED << first, actual, last, toServer, read, acked >>

(* A later DATA: one with a number below nr_expected_ is dropped.          *)
(* nr_max_seen_ is the number of this very datagram, so the condition of   *)
(* do_retransmit never holds, and a gap is skipped.                        *)
NextData(m) ==
    /\ last_header' = "DATA"
    /\ IF m.age >= lag THEN pc' = "receive" /\ lag' = lag
                       ELSE pc' = "stdout" /\ lag' = m.age
    /\ UNCHANGED << first, actual, last_datagram, toServer, read, acked >>

(* do_manage_msg, DATA.                                                    *)
HandleData(m) ==
    /\ m.type = "DATA"
    /\ win' = m.win
    /\ previous' = "DATA"
    /\ IF last_header = "DATA" THEN ResendLast
       ELSE IF first THEN FirstData(m)
       ELSE NextData(m)

(* do_manage_msg, ACK; the acknowledged number is not looked at.           *)
HandleAck(m) ==
    /\ m.type = "ACK"
    /\ win' = m.win
    /\ last_header' = "ACK"
    /\ first' = FALSE
    /\ toServer' = IF first THEN Append(toServer, ClientDgram) ELSE toServer
    /\ pc' = "receive"
    /\ acked' = m.ack
    /\ previous' = "ACK"
    /\ UNCHANGED << lag, actual, last_datagram, read >>

(* The body is on stdout; do_read_from_stdin reads only if there is room.  *)
WriteStdout ==
    /\ pc = "stdout"
    /\ pc' = IF win > 0 THEN "stdin" ELSE "receive"
    /\ UNCHANGED << first, counters, last, toServer, toClient, history >>

(* Deviation: last_datagram_ is not updated.                               *)
ReadStdinForgets(n) ==
    LET upload == UploadDgram(actual, [i \in 1 .. n |-> read + i])
    IN  /\ pc = "stdin"
        /\ 2 * n <= win /\ 2 * n <= ClientBufferLen
        /\ actual' = actual + 1
        /\ toServer' = Append(toServer, upload)
        /\ read' = read + n
        /\ pc' = "receive"
        /\ UNCHANGED << first, lag, win, last, toClient, acked, previous >>

(* At most win_ bytes of stdin become the next UPLOAD.                     *)
ReadStdin(n) ==
    LET upload == UploadDgram(actual, [i \in 1 .. n |-> read + i])
    IN  /\ pc = "stdin"
        /\ 2 * n <= win /\ 2 * n <= ClientBufferLen
        /\ actual' = actual + 1
        /\ last_datagram' = << upload >>
        /\ toServer' = Append(toServer, upload)
        /\ read' = read + n
        /\ pc' = "receive"
        /\ UNCHANGED << first, lag, win, last_header, toClient, acked, previous >>

(* stdout failed or stdin ended: no handler is started any more.           *)
StreamEnds ==
    /\ pc \in {"stdout", "stdin"}
    /\ pc' = "stopped"
    /\ UNCHANGED << first, counters, last, toServer, toClient, history >>
=============================================================================
