------------------------------ MODULE ClientLink ------------------------------
(***************************************************************************)
(* How the client process keeps in touch with the server: the TCP socket,  *)
(* the three timers and the life of its UDP socket (client/client.cc).     *)
(* What the datagrams say is the subject of module Client; here they only  *)
(* move the chain of UDP handlers from stage to stage.                     *)
(*                                                                         *)
(* Time is a number of ticks since the client was constructed.  The        *)
(* handlers that are ready take no time: time passes when none is.  The    *)
(* timers are re-armed with expires_at() + period, so a deadline depends   *)
(* on how often the timer was armed and not on when.                       *)
(*                                                                         *)
(* The TCP socket is never closed.  What connect does with a socket that   *)
(* was connected before is that of Linux (Connect).                        *)
(***************************************************************************)
EXTENDS Integers, FiniteSets

CONSTANTS
    KeepalivePeriod,    \* keepalive_period_, in ticks
    ReconnectPeriod,    \* reconnect_period_
    ConnectionPeriod,   \* connection_period_
    Resets              \* whether the network may reset the TCP connection

ASSUME LinkAssumption ==
    /\ {KeepalivePeriod, ReconnectPeriod, ConnectionPeriod} \subseteq Nat \ {0}
    /\ Resets \in BOOLEAN

Timers == {"keepalive", "reconnect", "connection"}

Period == [t \in Timers |->
    CASE t = "keepalive"  -> KeepalivePeriod
      [] t = "reconnect"  -> ReconnectPeriod
      [] t = "connection" -> ConnectionPeriod]

(* Where the chain of UDP handlers can be: connecting the socket, sending  *)
(* CLIENT, receiving, at a datagram received, at stdout and stdin.         *)
Stages == {"connect", "register", "receive", "DATA", "ACK", "stdio"}

VARIABLES
    now,        \* the clock
    expires,    \* expires[t]: the deadline of timer t, waited for or not
    armed,      \* the timers with a wait under way
    sock,       \* tcp_socket_: "unconnected", "connecting", "connected"
    link,       \* the connection: "none", "syn", "up", "fin", "reset"
    idDue,      \* the id the server wrote on the connection is unread
    reading,    \* read operations on tcp_socket_ under way
    connects,   \* calls of do_async_tcp_connect that are due
    udp,        \* udp_socket_: "open" or "closed"
    chain,      \* chain[s]: chains of UDP handlers at stage s
    first,      \* first_data_dgram_to_be_received
    alarms,     \* expired waits of connection_timer_ whose handler is due
    keepalives, \* the same of keepalive_timer_
    ids,        \* history: ids read
    ended,      \* history: chains that ended
    uploaded,   \* history: the client came back from stdin
    lastData,   \* history: when the last DATA was handled
    late,       \* history: a DATA was handled after the deadline had passed
    alarmed,    \* history: the calls of do_tcp_reconnect
    wasReset    \* history: the network reset the connection

timerVars == << expires, armed >>
tcpVars   == << sock, link, idDue, reading >>
dueVars   == << connects, alarms, keepalives >>
udpVars   == << udp, chain, first >>
histories == << ids, ended, uploaded, lastData, late, alarmed, wasReset >>
vars      == << now, timerVars, tcpVars, dueVars, udpVars, histories >>

Init ==
    /\ now = 0
    /\ expires = Period
    /\ armed = {}
    /\ sock = "unconnected" /\ link = "none"
    /\ idDue = FALSE
    /\ reading = 0
    /\ connects = 1
    /\ alarms = 0 /\ keepalives = 0
    /\ udp = "open"
    /\ chain = [s \in Stages |-> 0]
    /\ first = TRUE
    /\ ids = 0 /\ ended = 0
    /\ uploaded = FALSE
    /\ lastData = 0
    /\ alarmed = 0
    /\ late = FALSE /\ wasReset = FALSE

(* Deviation: the deadline stays where it was.                             *)
ArmAgain(t) ==
    /\ expires' = expires
    /\ armed' = armed \cup {t}

(* Deviation: cancelling comes last and hits the new wait too.             *)
ArmCancels(t) ==
    /\ expires' = [expires EXCEPT ![t] = @ + Period[t]]
    /\ armed' = IF t \in armed THEN armed \ {t} ELSE armed \cup {t}

(* expires_at and async_wait.  A wait that is under way is cancelled; of   *)
(* the three handlers only that of reconnect_timer_ cares (Rearm).         *)
Arm(t) ==
    /\ expires' = [expires EXCEPT ![t] = @ + Period[t]]
    /\ armed' = armed \cup {t}

(* The handler of a cancelled wait of reconnect_timer_ connects too, like  *)
(* that of an expired one.                                                 *)
ArmReconnect(due) ==
    /\ Arm("reconnect")
    /\ connects' = IF "reconnect" \in armed THEN due + 1 ELSE due

(* Deviation: a handler runs but nothing of its stage is under way.        *)
MoveAny(from, to) ==
    chain' = [s \in Stages |->
                 chain[s] + (IF s = to THEN 1 ELSE 0)
                          - (IF s = from THEN 1 ELSE 0)]

Move(from, to) ==
    /\ chain[from] > 0
    /\ chain' = [s \in Stages |->
                    chain[s] + (IF s = to THEN 1 ELSE 0)
                             - (IF s = from THEN 1 ELSE 0)]

-----------------------------------------------------------------------------
(* TCP *)

(* What a call of connect returns at once.  Linux lets a socket that a     *)
(* non-blocking connect has connected report success once more, and fails  *)
(* from then on; a refused or reset one first fails and can then be used.  *)
ConnectStarts   == sock = "unconnected"
ConnectSucceeds == sock = "connecting" /\ link \in {"up", "fin"}
ConnectFails    == ~ ConnectStarts /\ ~ ConnectSucceeds

(* do_async_tcp_connect; a result at once is handled in the same step.     *)
Connect ==
    /\ connects > 0
    /\ \/ /\ ConnectStarts
          /\ sock' = "connecting" /\ link' = "syn"
          /\ connects' = connects - 1
          /\ UNCHANGED << timerVars, idDue, reading >>
       \/ /\ ConnectSucceeds
          /\ sock' = "connected"
          /\ reading' = reading + 1
          /\ connects' = connects - 1
          /\ UNCHANGED << timerVars, link, idDue >>
       \/ /\ ConnectFails
          /\ IF sock = "connecting" /\ link # "syn"
             THEN sock' = "unconnected" /\ link' = "none"
             ELSE UNCHANGED << sock, link >>
          /\ ArmReconnect(connects - 1)
          /\ UNCHANGED << idDue, reading >>
    /\ UNCHANGED << now, alarms, keepalives, udpVars, histories >>

(* Deviation: the timer goes on although the connection is up.             *)
EstablishedRetries ==
    /\ link = "syn"
    /\ link' = "up"
    /\ idDue' = TRUE
    /\ reading' = reading + 1
    /\ ArmReconnect(connects)
    /\ UNCHANGED << now, sock, alarms, keepalives, udpVars, histories >>

(* The server accepts and writes the id (server::do_accept).               *)
Established ==
    /\ link = "syn"
    /\ link' = "up"
    /\ idDue' = TRUE
    /\ reading' = reading + 1
    /\ UNCHANGED << now, timerVars, sock, dueVars, udpVars, histories >>

Refused ==
    /\ link = "syn"
    /\ link' = "none"
    /\ ArmReconnect(connects)
    /\ UNCHANGED << now, sock, idDue, reading, alarms, keepalives, udpVars,
                    histories >>

(* do_read_tcp_message, the line with the id: do_async_udp_connect starts  *)
(* a chain, and reading goes on.                                           *)
ReadId ==
    /\ reading > 0 /\ idDue
    /\ idDue' = FALSE
    /\ ids' = ids + 1
    /\ chain' = [chain EXCEPT !["connect"] = @ + 1]
    /\ UNCHANGED << now, timerVars, sock, link, reading, dueVars, udp, first,
                    ended, uploaded, lastData, late, alarmed, wasReset >>

(* The server ended the connection: nothing is started.                    *)
ReadFails ==
    /\ reading > 0 /\ link = "fin" /\ ~ idDue
    /\ reading' = reading - 1
    /\ UNCHANGED << now, timerVars, sock, link, idDue, dueVars, udpVars,
                    histories >>

(* Deviation: the TCP socket is closed too, so that it can connect again.  *)
AlarmClosesTcp ==
    /\ alarms > 0
    /\ alarms' = alarms - 1
    /\ alarmed' = alarmed + 1
    /\ first' = TRUE
    /\ udp' = "closed"
    /\ sock' = "unconnected" /\ link' = "none" /\ idDue' = FALSE
    /\ reading' = 0
    /\ ArmReconnect(connects)
    /\ UNCHANGED << now, keepalives, chain, ids, ended, uploaded, lastData,
                    late, wasReset >>

(* connection_timer_ expired: do_tcp_reconnect.                            *)
Alarm ==
    /\ alarms > 0
    /\ alarms' = alarms - 1
    /\ alarmed' = alarmed + 1
    /\ first' = TRUE
    /\ udp' = "closed"
    /\ ArmReconnect(connects)
    /\ UNCHANGED << now, tcpVars, keepalives, chain, ids, ended, uploaded,
                    lastData, late, wasReset >>

-----------------------------------------------------------------------------
(* UDP *)

(* async_connect opens the socket if it is closed.                         *)
UdpConnect ==
    /\ Move("connect", "register")
    /\ udp' = "open"
    /\ UNCHANGED << now, timerVars, tcpVars, dueVars, first, histories >>

(* do_send_keepalive_dgram: it is sent and the timer armed, or it failed   *)
(* and the keepalives end.                                                 *)
SendKeepalive ==
    \/ udp = "open" /\ Arm("keepalive")
    \/ UNCHANGED timerVars

(* do_send_clientid_datagram; on a closed socket it tries for ever.        *)
Register ==
    /\ udp = "open"
    /\ Move("register", "receive")
    /\ SendKeepalive
    /\ UNCHANGED << now, tcpVars, dueVars, udp, first, histories >>

Keepalive ==
    /\ keepalives > 0
    /\ keepalives' = keepalives - 1
    /\ SendKeepalive
    /\ UNCHANGED << now, tcpVars, connects, alarms, udpVars, histories >>

(* A datagram arrives.  A receive on a closed socket fails and is started  *)
(* again at once, for ever.                                                *)
Arrive(type) ==
    /\ udp = "open"
    /\ type = "ACK" => uploaded
    /\ Move("receive", type)
    /\ UNCHANGED << now, timerVars, tcpVars, dueVars, udp, first, histories >>

(* A datagram whose header is invalid, or is one only the server has a     *)
(* branch for: the handler returns and starts nothing, now or later.       *)
HandleOther ==
    /\ udp = "open"
    /\ chain["receive"] > 0
    /\ chain' = [chain EXCEPT !["receive"] = @ - 1]
    /\ ended' = ended + 1
    /\ UNCHANGED << now, timerVars, tcpVars, dueVars, udp, first, ids, uploaded,
                    lastData, late, alarmed, wasReset >>

(* do_manage_msg, DATA, with monitor_connection: its body goes to stdout,  *)
(* or it is dropped and the last datagram may be sent again.               *)
HandleData ==
    /\ Arm("connection")
    /\ late' = (late \/ now > expires["connection"])
    /\ lastData' = now
    /\ \/ Move("DATA", "stdio") /\ first' = FALSE
       \/ Move("DATA", "receive") /\ first' = first
    /\ UNCHANGED << now, tcpVars, dueVars, udp, ids, ended, uploaded, alarmed,
                    wasReset >>

(* Deviation: it also goes on receiving.                                   *)
HandleAckForks ==
    /\ chain["ACK"] > 0
    /\ chain' = [chain EXCEPT !["ACK"] = @ - 1, !["receive"] = @ + 1,
                              !["register"] = IF first THEN @ + 1 ELSE @]
    /\ first' = FALSE
    /\ UNCHANGED << now, timerVars, tcpVars, dueVars, udp, histories >>

(* do_manage_msg, ACK: before the first DATA of a connection the client    *)
(* registers again, with a second do_send_keepalive_dgram.                 *)
HandleAck ==
    /\ Move("ACK", IF first THEN "register" ELSE "receive")
    /\ first' = FALSE
    /\ UNCHANGED << now, timerVars, tcpVars, dueVars, udp, histories >>

(* The body is written, stdin was read or need not be, and an UPLOAD sent. *)
(* Until then nothing is received; stdin may take any time.                *)
Resume ==
    /\ Move("stdio", "receive")
    /\ uploaded' = TRUE
    /\ UNCHANGED << now, timerVars, tcpVars, dueVars, udp, first, ids, ended,
                    lastData, late, alarmed, wasReset >>

(* stdin or stdout ended.                                                  *)
StreamEnds ==
    /\ chain["stdio"] > 0
    /\ chain' = [chain EXCEPT !["stdio"] = @ - 1]
    /\ ended' = ended + 1
    /\ UNCHANGED << now, timerVars, tcpVars, dueVars, udp, first, ids, uploaded,
                    lastData, late, alarmed, wasReset >>

-----------------------------------------------------------------------------
(* Time *)

(* A wait expires: its handler is due and cannot be cancelled any more.    *)
Expire(t) ==
    /\ t \in armed /\ expires[t] <= now
    /\ armed' = armed \ {t}
    /\ connects'   = IF t = "reconnect"  THEN connects + 1   ELSE connects
    /\ alarms'     = IF t = "connection" THEN alarms + 1     ELSE alarms
    /\ keepalives' = IF t = "keepalive"  THEN keepalives + 1 ELSE keepalives
    /\ UNCHANGED << now, expires, tcpVars, udpVars, histories >>

Quiet ==
    /\ connects = 0 /\ alarms = 0 /\ keepalives = 0
    /\ \A t \in armed : now < expires[t]
    /\ \A s \in {"connect", "DATA", "ACK"} : chain[s] = 0
    /\ udp = "open" => chain["register"] = 0

Tick ==
    /\ Quiet
    /\ now' = now + 1
    /\ UNCHANGED << timerVars, tcpVars, dueVars, udpVars, histories >>

-----------------------------------------------------------------------------
(* The server closes the connection, or ends.                              *)
Fin ==
    /\ link = "up"
    /\ link' = "fin"
    /\ UNCHANGED << now, timerVars, sock, idDue, reading, dueVars, udpVars,
                    histories >>

(* The network resets it: what was not read is lost, and reading fails.    *)
Reset ==
    /\ Resets
    /\ link \in {"up", "fin"}
    /\ link' = "reset"
    /\ idDue' = FALSE
    /\ reading' = 0
    /\ wasReset' = TRUE
    /\ UNCHANGED << now, timerVars, sock, dueVars, udpVars, ids, ended,
                    uploaded, lastData, late, alarmed >>

Handle ==
    \/ ReadId
    \/ ReadFails
    \/ UdpConnect
    \/ Register
    \/ HandleData
    \/ HandleAck

Expiry == \E t \in Timers : Expire(t)

Environment ==
    \/ Established
    \/ Refused
    \/ \E type \in {"DATA", "ACK"} : Arrive(type)
    \/ HandleOther
    \/ Resume
    \/ StreamEnds
    \/ Fin
    \/ Reset

Next ==
    \/ Connect
    \/ Alarm
    \/ Keepalive
    \/ Handle
    \/ Expiry
    \/ Tick
    \/ Environment

Spec == Init /\ [][Next]_vars

(* The io_service runs what is ready, a connect ends in one way or the     *)
(* other, and time does not stand still.                                   *)
Fairness ==
    /\ WF_vars(Connect) /\ WF_vars(Alarm) /\ WF_vars(Keepalive)
    /\ WF_vars(Handle) /\ WF_vars(Expiry)
    /\ WF_vars(Established \/ Refused)
    /\ SF_vars(Tick)

FairSpec == Spec /\ Fairness

-----------------------------------------------------------------------------
TypeOK ==
    /\ now \in Nat /\ lastData \in Nat
    /\ expires \in [Timers -> Nat]
    /\ armed \subseteq Timers
    /\ sock \in {"unconnected", "connecting", "connected"}
    /\ link \in {"none", "syn", "up", "fin", "reset"}
    /\ {connects, alarms, keepalives, reading, ids, ended, alarmed}
           \subseteq Nat
    /\ udp \in {"open", "closed"}
    /\ chain \in [Stages -> Nat]
    /\ {idDue, first, uploaded, late, wasReset} \subseteq BOOLEAN

(* The client takes the server for gone only after a whole period without  *)
(* DATA, although the deadline does not depend on when DATA came: as long  *)
(* as every DATA was handled before the deadline it moved (client.cc:110). *)
AlarmMeansSilence ==
    [][Expire("connection") /\ ~ late => now - lastData >= ConnectionPeriod]_vars

(* The comment on connection_timer_: it measures the time since the last   *)
(* communication over UDP (client.hh:184).                                 *)
TimerMeasuresSilence ==
    [][Expire("connection") => now - lastData >= ConnectionPeriod]_vars

(* DATA that ceases to come, for whatever reason, is noticed in the end.   *)
SilenceNoticed == "connection" \in armed ~> alarmed > 0

(* The comments on do_tcp_reconnect: it tries again to connect to the      *)
(* server over TCP (client.hh:103), which renews a connection that broke   *)
(* (client.cc:174-175).  So an attempt that is made after it, for a        *)
(* connection the server ended, starts a new one.                          *)
ReconnectConnects ==
    [][alarmed > 0 /\ link = "fin" /\ Connect => link' = "syn"]_vars

(* What do_tcp_reconnect does instead, unless the network resets the TCP   *)
(* connection: it is the end of the session.  The UDP socket that it       *)
(* closed is never opened again, because the TCP socket, which it did not  *)
(* close, never gets a second id.                                          *)
AlarmIsFinal == alarmed > 0 /\ ~ wasReset => udp = "closed" /\ ids = 1

(* One chain of UDP handlers per id read, wherever alarms, late datagrams  *)
(* and repeated registrations find it, unless it ended with its streams or *)
(* a datagram without a branch (client.cc:372): two handlers never share   *)
(* read_buf_ (until a reset connection was made again: the old chain lives *)
(* on).                                                                    *)
ChainPerId ==
    /\ chain["connect"] + chain["register"] + chain["receive"]
         + chain["DATA"] + chain["ACK"] + chain["stdio"] + ended = ids
    /\ ~ wasReset => ids <= 1

(* There is one attempt to connect at a time, or a wait for the next, and  *)
(* so ReconnectPeriod between attempts; until do_tcp_reconnect is called a *)
(* second time (a DATA that was received before the first call re-armed    *)
(* connection_timer_).  From then on every attempt that fails cancels the  *)
(* wait of the other, whose handler connects at once (client.cc:98-101).   *)
OneConnectLoop ==
    connects + Cardinality(armed \cap {"reconnect"})
             + (IF link = "syn" THEN 1 ELSE 0) <= 1
    \/ alarmed > 1

(* raport_buffer_ is read by one operation at a time until an alarm makes  *)
(* the client connect the socket it is connected with: from then on there  *)
(* may be two.                                                             *)
OneReader == reading <= 2 /\ (reading = 2 => alarmed > 0)
=============================================================================
