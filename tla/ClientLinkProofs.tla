--------------------------- MODULE ClientLinkProofs ---------------------------
(***************************************************************************)
(* Proofs about ClientLink, for any periods of the three timers, any       *)
(* number of datagrams, alarms and resets and however long the client      *)
(* runs: every invariant and the step property its runs check.             *)
(***************************************************************************)
EXTENDS ClientLink, FiniteSetTheorems, TLAPS

Bit(condition) == IF condition THEN 1 ELSE 0

Waiting == Bit("reconnect" \in armed)

-----------------------------------------------------------------------------
(* The inductive invariant, in parts.                                      *)

(* Every id read started one chain, and those that ended were counted.     *)
Chains ==
    chain["connect"] + chain["register"] + chain["receive"]
        + chain["DATA"] + chain["ACK"] + chain["stdio"] + ended = ids

(* Which connection a socket can have; only a reset lets it get another,   *)
(* and every connection brings one id.                                     *)
Connection ==
    /\ link = "syn" => sock = "connecting"
    /\ sock = "unconnected" => link = "none"
    /\ sock = "connected" => link \in {"up", "fin", "reset"}
    /\ idDue => link \in {"up", "fin"}
    /\ link = "reset" => wasReset
    /\ ~ wasReset => ids + Bit(idDue) = Bit(link \in {"up", "fin"})

(* Until the first alarm the client connects one at a time and then not at *)
(* all; the first alarm adds one attempt, to a client that was connected.  *)
Attempts ==
    /\ alarmed = 0 => connects + Waiting + Bit(link # "none") <= 1
    /\ alarmed = 1 => connects + Waiting + Bit(link = "syn") <= 1
    /\ alarmed = 0 /\ (ids > 0 \/ idDue) => link \in {"up", "fin", "reset"}

Readers ==
    /\ link \in {"none", "syn", "reset"} => reading = 0
    /\ sock = "connecting" => reading <= 1
    /\ sock = "connected" => alarmed > 0
    /\ reading <= 2

(* Only a client that received DATA can find that it ceased.               *)
Silenced ==
    /\ "connection" \in armed \/ alarms > 0 \/ alarmed > 0
           => ids > 0 /\ (~ wasReset => chain["connect"] = 0)
    /\ alarmed > 0 /\ ~ wasReset => udp = "closed"

(* A deadline that no DATA missed is a period after the last one.          *)
Deadline ==
    "connection" \in armed /\ ~ late
        => lastData + ConnectionPeriod <= expires["connection"]

Inv ==
    TypeOK /\ Chains /\ Connection /\ Attempts /\ Readers /\ Silenced /\ Deadline

-----------------------------------------------------------------------------
LEMMA Periods ==
    /\ Period \in [Timers -> Nat]
    /\ Period["connection"] = ConnectionPeriod
    /\ ConnectionPeriod \in Nat
BY LinkAssumption DEF Period, Timers

LEMMA ArmTyped ==
    ASSUME TypeOK, NEW t \in Timers, Arm(t)
    PROVE  /\ expires' \in [Timers -> Nat] /\ armed' \subseteq Timers
           /\ armed' = armed \cup {t}
           /\ \A u \in Timers \ {t} : expires'[u] = expires[u]
           /\ expires'[t] = expires[t] + Period[t]
<1>1. expires \in [Timers -> Nat] /\ armed \subseteq Timers
  BY DEF TypeOK
<1>2. expires[t] + Period[t] \in Nat
  BY <1>1, Periods
<1> QED
  BY <1>1, <1>2 DEF Arm

(* Arming reconnect_timer_ adds one attempt, now or later.                 *)
LEMMA ArmReconnectTyped ==
    ASSUME TypeOK, NEW n \in Nat, ArmReconnect(n)
    PROVE  /\ expires' \in [Timers -> Nat] /\ armed' \subseteq Timers
           /\ expires'["connection"] = expires["connection"]
           /\ "connection" \in armed' <=> "connection" \in armed
           /\ connects' \in Nat
           /\ connects' + Waiting' = n + Waiting + 1
<1>1. Arm("reconnect") /\ "reconnect" \in Timers /\ "connection" \in Timers
  BY DEF ArmReconnect, Timers
<1>2. /\ expires' \in [Timers -> Nat] /\ armed' \subseteq Timers
      /\ armed' = armed \cup {"reconnect"}
      /\ expires'["connection"] = expires["connection"]
  BY <1>1, ArmTyped
<1>3. connects' = IF "reconnect" \in armed THEN n + 1 ELSE n
  BY DEF ArmReconnect
<1> QED
  BY <1>2, <1>3 DEF Waiting, Bit

LEMMA SendKeepaliveTyped ==
    ASSUME TypeOK, SendKeepalive
    PROVE  /\ expires' \in [Timers -> Nat] /\ armed' \subseteq Timers
           /\ expires'["connection"] = expires["connection"]
           /\ "connection" \in armed' <=> "connection" \in armed
           /\ Waiting' = Waiting
<1>1. CASE Arm("keepalive")
  <2>1. "keepalive" \in Timers /\ "connection" \in Timers
    BY DEF Timers
  <2> QED
    BY <1>1, <2>1, ArmTyped DEF Waiting
<1>2. CASE UNCHANGED timerVars
  BY <1>2 DEF timerVars, TypeOK, Waiting
<1> QED
  BY <1>1, <1>2 DEF SendKeepalive

LEMMA MoveTyped ==
    ASSUME TypeOK, NEW from \in Stages, NEW to \in Stages, from # to,
           Move(from, to)
    PROVE  /\ chain' \in [Stages -> Nat]
           /\ chain[from] > 0 /\ chain'[from] = chain[from] - 1
           /\ chain'[to] = chain[to] + 1
           /\ \A s \in Stages \ {from, to} : chain'[s] = chain[s]
<1>1. /\ chain \in [Stages -> Nat] /\ chain[from] \in Nat /\ chain[from] > 0
      /\ chain[to] \in Nat
      /\ chain' = [s \in Stages |->
                      chain[s] + (IF s = to THEN 1 ELSE 0)
                               - (IF s = from THEN 1 ELSE 0)]
  BY DEF TypeOK, Move
<1>2. \A s \in Stages :
          chain'[s] = chain[s] + (IF s = to THEN 1 ELSE 0)
                               - (IF s = from THEN 1 ELSE 0)
  BY <1>1
<1>3. \A s \in Stages : chain[s] \in Nat
  BY <1>1
<1>4. chain'[from] = chain[from] - 1 /\ chain'[from] \in Nat
  BY <1>1, <1>2, <1>3
<1>5. chain'[to] = chain[to] + 1 /\ chain'[to] \in Nat
  BY <1>1, <1>2, <1>3
<1>6. \A s \in Stages \ {from, to} : chain'[s] = chain[s]
  BY <1>2, <1>3
<1>7. chain' \in [Stages -> Nat]
  BY <1>1, <1>3, <1>4, <1>5, <1>6
<1> QED
  BY <1>1, <1>4, <1>5, <1>6, <1>7

LEMMA CardWaiting ==
    Cardinality(armed \cap {"reconnect"}) = Waiting
<1>1. CASE "reconnect" \in armed
  <2>1. armed \cap {"reconnect"} = {"reconnect"}
    BY <1>1
  <2>2. Cardinality({"reconnect"}) = 1
    BY FS_Singleton
  <2> QED
    BY <1>1, <2>1, <2>2 DEF Waiting, Bit
<1>2. CASE "reconnect" \notin armed
  <2>1. armed \cap {"reconnect"} = {}
    BY <1>2
  <2>2. Cardinality({}) = 0
    BY FS_EmptySet
  <2> QED
    BY <1>2, <2>1, <2>2 DEF Waiting, Bit
<1> QED
  BY <1>1, <1>2

-----------------------------------------------------------------------------
(* Types *)

LEMMA TypesStep == TypeOK /\ Next => TypeOK'
<1> SUFFICES ASSUME TypeOK, Next PROVE TypeOK'
  OBVIOUS
<1> USE DEF timerVars, tcpVars, dueVars, udpVars, histories
<1>1. /\ connects \in Nat /\ alarms \in Nat /\ keepalives \in Nat
      /\ reading \in Nat /\ ids \in Nat /\ ended \in Nat /\ alarmed \in Nat
      /\ chain \in [Stages -> Nat] /\ now \in Nat
  BY DEF TypeOK
<1>2. CASE Connect
  <2>1. connects - 1 \in Nat
    BY <1>1, <1>2 DEF Connect
  <2>2. CASE UNCHANGED timerVars
    BY <1>1, <1>2, <2>1, <2>2, ArmReconnectTyped DEF Connect, TypeOK
  <2>3. CASE ArmReconnect(connects - 1)
    <3>1. /\ expires' \in [Timers -> Nat] /\ armed' \subseteq Timers
          /\ connects' \in Nat
      BY <2>1, <2>3, ArmReconnectTyped
    <3> QED
      BY <1>1, <1>2, <3>1 DEF Connect, TypeOK
  <2> QED
    BY <1>2, <2>2, <2>3 DEF Connect
<1>3. CASE Alarm
  <2>1. /\ expires' \in [Timers -> Nat] /\ armed' \subseteq Timers
        /\ connects' \in Nat
    BY <1>1, <1>3, ArmReconnectTyped DEF Alarm
  <2> QED
    BY <1>1, <1>3, <2>1 DEF Alarm, TypeOK
<1>4. CASE Keepalive
  <2>1. expires' \in [Timers -> Nat] /\ armed' \subseteq Timers
    BY <1>4, SendKeepaliveTyped DEF Keepalive
  <2> QED
    BY <1>1, <1>4, <2>1 DEF Keepalive, TypeOK
<1>5. CASE ReadId
  <2>1. chain' \in [Stages -> Nat]
    BY <1>1, <1>5 DEF ReadId, Stages
  <2>2. {idDue', first', uploaded', late', wasReset'} \subseteq BOOLEAN
    BY <1>5 DEF ReadId, TypeOK
  <2>3. ids' \in Nat
    BY <1>1, <1>5 DEF ReadId
  <2> QED
    BY <1>1, <1>5, <2>1, <2>2, <2>3 DEF ReadId, TypeOK
<1>6. CASE ReadFails
  BY <1>1, <1>6 DEF ReadFails, TypeOK
<1>7. CASE UdpConnect
  <2>1. chain' \in [Stages -> Nat]
    BY <1>7, MoveTyped DEF UdpConnect, Stages
  <2> QED
    BY <1>7, <2>1 DEF UdpConnect, TypeOK
<1>8. CASE Register
  <2>1. chain' \in [Stages -> Nat]
    BY <1>8, MoveTyped DEF Register, Stages
  <2>2. expires' \in [Timers -> Nat] /\ armed' \subseteq Timers
    BY <1>8, SendKeepaliveTyped DEF Register
  <2> QED
    BY <1>8, <2>1, <2>2 DEF Register, TypeOK
<1>9. CASE HandleData
  <2>1. chain' \in [Stages -> Nat]
    BY <1>9, MoveTyped DEF HandleData, Stages
  <2>2. expires' \in [Timers -> Nat] /\ armed' \subseteq Timers
    BY <1>9, ArmTyped DEF HandleData, Timers
  <2>3. late' \in BOOLEAN /\ lastData' \in Nat /\ first' \in BOOLEAN
    BY <1>1, <1>9 DEF HandleData, TypeOK
  <2> QED
    BY <1>9, <2>1, <2>2, <2>3 DEF HandleData, TypeOK
<1>10. CASE HandleAck
  <2>1. chain' \in [Stages -> Nat]
    BY <1>10, MoveTyped DEF HandleAck, Stages
  <2> QED
    BY <1>10, <2>1 DEF HandleAck, TypeOK
<1>11. CASE Expiry
  <2>1. PICK t \in Timers : Expire(t)
    BY <1>11 DEF Expiry
  <2>2. connects' \in Nat /\ alarms' \in Nat /\ keepalives' \in Nat
    BY <1>1, <2>1 DEF Expire
  <2> QED
    BY <2>1, <2>2 DEF Expire, TypeOK
<1>12. CASE Tick
  BY <1>1, <1>12 DEF Tick, TypeOK
<1>13. CASE Established \/ Refused
  <2>1. CASE Established
    BY <1>1, <2>1 DEF Established, TypeOK
  <2>2. CASE Refused
    <3>1. /\ expires' \in [Timers -> Nat] /\ armed' \subseteq Timers
          /\ connects' \in Nat
      BY <1>1, <2>2, ArmReconnectTyped DEF Refused
    <3> QED
      BY <1>1, <2>2, <3>1 DEF Refused, TypeOK
  <2> QED
    BY <1>13, <2>1, <2>2
<1>14. CASE \E type \in {"DATA", "ACK"} : Arrive(type)
  <2>1. chain' \in [Stages -> Nat]
    BY <1>14, MoveTyped DEF Arrive, Stages
  <2> QED
    BY <1>14, <2>1 DEF Arrive, TypeOK
<1>15. CASE Resume
  <2>1. chain' \in [Stages -> Nat]
    BY <1>15, MoveTyped DEF Resume, Stages
  <2> QED
    BY <1>15, <2>1 DEF Resume, TypeOK
<1>16. CASE StreamEnds \/ HandleOther
  <2>1. chain' \in [Stages -> Nat]
    BY <1>1, <1>16 DEF StreamEnds, HandleOther, Stages
  <2> QED
    BY <1>1, <1>16, <2>1 DEF StreamEnds, HandleOther, TypeOK
<1>17. CASE Fin \/ Reset
  <2>1. CASE Fin
    BY <1>1, <2>1 DEF Fin, TypeOK
  <2>2. CASE Reset
    <3>1. {idDue', first', uploaded', late', wasReset'} \subseteq BOOLEAN
      BY <2>2 DEF Reset, TypeOK
    <3> QED
      BY <1>1, <2>2, <3>1 DEF Reset, TypeOK
  <2> QED
    BY <1>17, <2>1, <2>2
<1> QED
  BY <1>2, <1>3, <1>4, <1>5, <1>6, <1>7, <1>8, <1>9, <1>10, <1>11, <1>12,
     <1>13, <1>14, <1>15, <1>16, <1>17 DEF Next, Handle, Environment

-----------------------------------------------------------------------------
(* Chains *)

LEMMA MoveKeepsChains ==
    ASSUME TypeOK, Chains, NEW from \in Stages, NEW to \in Stages, from # to,
           Move(from, to), UNCHANGED << ids, ended >>
    PROVE  Chains'
<1>1. /\ chain'[from] = chain[from] - 1 /\ chain'[to] = chain[to] + 1
      /\ \A s \in Stages \ {from, to} : chain'[s] = chain[s]
      /\ \A s \in Stages : chain[s] \in Nat
  BY MoveTyped DEF TypeOK
<1>2. ids \in Nat /\ ended \in Nat
  BY DEF TypeOK
<1> DEFINE D(s) == Bit(s = to) - Bit(s = from)
<1>3. \A s \in Stages : chain'[s] = chain[s] + D(s) /\ D(s) \in Int
  BY <1>1 DEF Bit
<1>4. D("connect") + D("register") + D("receive") + D("DATA") + D("ACK")
          + D("stdio") = 0
  BY DEF Stages, Bit
<1> HIDE DEF D
<1>5. {"connect", "register", "receive", "DATA", "ACK", "stdio"} = Stages
  BY DEF Stages
<1>6. chain["connect"] + chain["register"] + chain["receive"]
          + chain["DATA"] + chain["ACK"] + chain["stdio"] + ended = ids
  BY DEF Chains
<1>7. chain'["connect"] + chain'["register"] + chain'["receive"]
          + chain'["DATA"] + chain'["ACK"] + chain'["stdio"] + ended = ids
  <2>1. /\ chain'["connect"] = chain["connect"] + D("connect") /\ D("connect") \in Int
        /\ chain["connect"] \in Nat
        /\ chain'["register"] = chain["register"] + D("register") /\ D("register") \in Int
        /\ chain["register"] \in Nat
        /\ chain'["receive"] = chain["receive"] + D("receive") /\ D("receive") \in Int
        /\ chain["receive"] \in Nat
        /\ chain'["DATA"] = chain["DATA"] + D("DATA") /\ D("DATA") \in Int
        /\ chain["DATA"] \in Nat
        /\ chain'["ACK"] = chain["ACK"] + D("ACK") /\ D("ACK") \in Int
        /\ chain["ACK"] \in Nat
        /\ chain'["stdio"] = chain["stdio"] + D("stdio") /\ D("stdio") \in Int
        /\ chain["stdio"] \in Nat
    BY <1>1, <1>3, <1>5
  <2> QED
    BY <1>2, <1>4, <1>6, <2>1
<1> QED
  BY <1>7 DEF Chains

LEMMA ChainsStep == TypeOK /\ Chains /\ Next => Chains'
<1> SUFFICES ASSUME TypeOK, Chains, Next PROVE Chains'
  OBVIOUS
<1> USE DEF udpVars, histories
<1>1. /\ ids \in Nat /\ ended \in Nat
      /\ chain \in [Stages -> Nat]
  BY DEF TypeOK
<1>2. CASE UNCHANGED << chain, ids, ended >>
  BY <1>2 DEF Chains
<1>3. CASE ReadId
  <2>1. /\ chain' = [chain EXCEPT !["connect"] = @ + 1]
        /\ ids' = ids + 1 /\ ended' = ended
    BY <1>3 DEF ReadId
  <2>2. /\ chain'["connect"] = chain["connect"] + 1
        /\ \A s \in Stages \ {"connect"} : chain'[s] = chain[s]
        /\ \A s \in Stages : chain[s] \in Nat
    BY <1>1, <2>1 DEF Stages
  <2> QED
    BY <1>1, <2>1, <2>2 DEF Chains, Stages
<1>4. ASSUME NEW e \in {"stdio", "receive"},
             chain' = [chain EXCEPT ![e] = @ - 1],
             ids' = ids, ended' = ended + 1
      PROVE  Chains'
  <2>1. /\ chain'[e] = chain[e] - 1
        /\ \A s \in Stages \ {e} : chain'[s] = chain[s]
        /\ \A s \in Stages : chain[s] \in Nat
    BY <1>1, <1>4 DEF Stages
  <2>2. CASE e = "stdio"
    BY <1>1, <1>4, <2>1, <2>2 DEF Chains, Stages
  <2>3. CASE e = "receive"
    BY <1>1, <1>4, <2>1, <2>3 DEF Chains, Stages
  <2> QED
    BY <2>2, <2>3
<1>5. CASE \E from, to \in Stages :
               from # to /\ Move(from, to) /\ UNCHANGED << ids, ended >>
  BY <1>5, MoveKeepsChains
<1>6. CASE UdpConnect \/ Register \/ HandleData \/ HandleAck
           \/ (\E type \in {"DATA", "ACK"} : Arrive(type)) \/ Resume
  BY <1>5, <1>6
     DEF UdpConnect, Register, HandleData, HandleAck, Arrive, Resume, Stages
<1>7. CASE Connect \/ Alarm \/ Keepalive \/ ReadFails \/ Expiry \/ Tick
           \/ Established \/ Refused \/ Fin \/ Reset
  BY <1>2, <1>7
     DEF Connect, Alarm, Keepalive, ReadFails, Expiry, Expire, Tick,
         Established, Refused, Fin, Reset
<1>8. CASE StreamEnds \/ HandleOther
  BY <1>4, <1>8 DEF StreamEnds, HandleOther
<1> QED
  BY <1>3, <1>6, <1>7, <1>8 DEF Next, Handle, Environment

-----------------------------------------------------------------------------
(* The connection *)

LEMMA ConnectionStep == TypeOK /\ Connection /\ Next => Connection'
<1> SUFFICES ASSUME TypeOK, Connection, Next PROVE Connection'
  OBVIOUS
<1> USE DEF tcpVars, histories
<1>1. /\ ids \in Nat /\ idDue \in BOOLEAN /\ wasReset \in BOOLEAN
      /\ link \in {"none", "syn", "up", "fin", "reset"}
      /\ sock \in {"unconnected", "connecting", "connected"}
  BY DEF TypeOK
<1>2. CASE UNCHANGED << sock, link, idDue, ids, wasReset >>
  BY <1>2 DEF Connection
<1>3. CASE Connect
  <2>1. UNCHANGED << idDue, ids, wasReset >>
    BY <1>3 DEF Connect
  <2>2. CASE ConnectStarts /\ sock' = "connecting" /\ link' = "syn"
    <3>1. link = "none" /\ sock = "unconnected"
      BY <2>2 DEF ConnectStarts, Connection
    <3> QED
      BY <2>1, <2>2, <3>1 DEF Connection
  <2>3. CASE ConnectSucceeds /\ sock' = "connected" /\ link' = link
    BY <2>1, <2>3 DEF ConnectSucceeds, Connection
  <2>4. CASE /\ ConnectFails /\ sock = "connecting" /\ link # "syn"
             /\ sock' = "unconnected" /\ link' = "none"
    <3>1. link \in {"none", "reset"}
      BY <1>1, <2>4 DEF ConnectFails, ConnectStarts, ConnectSucceeds
    <3>2. ~ wasReset => link = "none"
      BY <3>1 DEF Connection
    <3>3. idDue = FALSE
      BY <1>1, <3>1 DEF Connection
    <3> QED
      BY <2>1, <2>4, <3>1, <3>2, <3>3 DEF Connection, Bit
  <2>5. CASE UNCHANGED << sock, link >>
    BY <1>2, <2>1, <2>5
  <2> QED
    BY <1>3, <2>2, <2>3, <2>4, <2>5 DEF Connect
<1>4. CASE ReadId
  <2>1. /\ idDue = TRUE /\ idDue' = FALSE /\ ids' = ids + 1
        /\ UNCHANGED << sock, link, wasReset >>
    BY <1>1, <1>4 DEF ReadId
  <2> QED
    BY <1>1, <2>1 DEF Connection, Bit
<1>5. CASE Established
  <2>1. /\ idDue' = TRUE /\ link = "syn" /\ link' = "up"
        /\ UNCHANGED << sock, ids, wasReset >>
    BY <1>5 DEF Established
  <2>2. idDue = FALSE
    BY <1>1, <2>1 DEF Connection
  <2> QED
    BY <1>1, <2>1, <2>2 DEF Connection, Bit
<1>6. CASE Refused
  <2>1. /\ link = "syn" /\ link' = "none"
        /\ UNCHANGED << sock, ids, idDue, wasReset >>
    BY <1>6 DEF Refused
  <2> QED
    BY <1>1, <2>1 DEF Connection, Bit
<1>7. CASE Fin
  <2>1. /\ link = "up" /\ link' = "fin"
        /\ UNCHANGED << sock, ids, idDue, wasReset >>
    BY <1>7 DEF Fin
  <2> QED
    BY <1>1, <2>1 DEF Connection, Bit
<1>8. CASE Reset
  <2>1. /\ link \in {"up", "fin"} /\ link' = "reset"
        /\ idDue' = FALSE /\ wasReset' = TRUE
        /\ UNCHANGED << sock, ids >>
    BY <1>8 DEF Reset
  <2> QED
    BY <1>1, <2>1 DEF Connection, Bit
<1>9. CASE Alarm \/ Keepalive \/ ReadFails \/ UdpConnect \/ Register
           \/ HandleData \/ HandleAck \/ Expiry \/ Tick
           \/ (\E type \in {"DATA", "ACK"} : Arrive(type)) \/ Resume
           \/ StreamEnds \/ HandleOther
  BY <1>2, <1>9
     DEF Alarm, Keepalive, ReadFails, UdpConnect, Register, HandleData,
         HandleAck, Expiry, Expire, Tick, Arrive, HandleOther, Resume,
         StreamEnds
<1> QED
  BY <1>3, <1>4, <1>5, <1>6, <1>7, <1>8, <1>9 DEF Next, Handle, Environment

-----------------------------------------------------------------------------
(* Attempts to connect *)

LEMMA BitBounds == /\ \A c : Bit(c) \in {0, 1}
                   /\ Waiting \in {0, 1}
BY DEF Bit, Waiting

LEMMA AttemptsStep ==
    TypeOK /\ Connection /\ Attempts /\ Silenced /\ Next => Attempts'
<1> SUFFICES ASSUME TypeOK, Connection, Attempts, Silenced, Next
             PROVE  Attempts'
  OBVIOUS
<1> USE DEF tcpVars, dueVars, timerVars, udpVars, histories
<1>1. /\ connects \in Nat /\ alarmed \in Nat /\ alarms \in Nat /\ ids \in Nat
      /\ idDue \in BOOLEAN /\ chain \in [Stages -> Nat]
      /\ link \in {"none", "syn", "up", "fin", "reset"}
  BY DEF TypeOK
<1>2. Waiting \in {0, 1} /\ \A c : Bit(c) \in {0, 1}
  BY BitBounds
<1>3. CASE UNCHANGED << connects, Waiting, alarmed, ids, link, idDue >>
  BY <1>3 DEF Attempts
<1>4. CASE Connect
  <2>1. UNCHANGED << alarmed, ids, idDue >> /\ connects > 0
    BY <1>4 DEF Connect
  <2>2. alarmed = 0 => link = "none" /\ connects = 1 /\ Waiting = 0
    BY <1>1, <1>2, <2>1 DEF Attempts, Bit
  <2>3. alarmed = 1 => link # "syn" /\ connects = 1 /\ Waiting = 0
    BY <1>1, <1>2, <2>1 DEF Attempts, Bit
  <2>4. CASE ConnectStarts /\ link' = "syn" /\ connects' = connects - 1
             /\ UNCHANGED timerVars
    <3>1. Waiting' = Waiting
      BY <2>4 DEF Waiting
    <3> QED
      BY <1>1, <2>1, <2>2, <2>3, <2>4, <3>1 DEF Attempts, Bit
  <2>5. CASE ConnectSucceeds /\ link' = link /\ connects' = connects - 1
             /\ UNCHANGED timerVars
    <3>1. Waiting' = Waiting /\ link \in {"up", "fin"}
      BY <2>5 DEF Waiting, ConnectSucceeds
    <3> QED
      BY <1>1, <2>1, <2>2, <2>3, <2>5, <3>1 DEF Attempts, Bit
  <2>6. CASE ConnectFails /\ ArmReconnect(connects - 1)
             /\ (link' = "none" \/ link' = link)
    <3>1. connects' \in Nat /\ connects' + Waiting' = connects - 1 + Waiting + 1
      BY <1>1, <2>1, <2>6, ArmReconnectTyped
    <3>2. connects' + Waiting' = connects + Waiting
      BY <1>1, <1>2, <3>1
    <3>3. /\ alarmed = 0 => connects' + Waiting' = 1 /\ link' = "none"
          /\ alarmed = 1 => connects' + Waiting' = 1 /\ link' # "syn"
      BY <2>2, <2>3, <2>6, <3>2
    <3>4. /\ alarmed = 0 => Bit(link' # "none") = 0
          /\ alarmed = 1 => Bit(link' = "syn") = 0
      BY <3>3 DEF Bit
    <3>5. alarmed = 0 => ~ (ids > 0 \/ idDue)
      BY <2>2 DEF Attempts
    <3> QED
      BY <2>1, <3>3, <3>4, <3>5 DEF Attempts
  <2> QED
    BY <1>4, <2>4, <2>5, <2>6 DEF Connect
<1>5. CASE Alarm
  <2>1. /\ alarmed' = alarmed + 1 /\ alarms > 0 /\ link' = link
        /\ ArmReconnect(connects)
    BY <1>5 DEF Alarm
  <2>2. /\ connects' \in Nat /\ connects' + Waiting' = connects + Waiting + 1
        /\ Waiting' \in {0, 1}
    BY <1>1, <2>1, ArmReconnectTyped DEF Waiting, Bit
  <2>3. ids > 0
    BY <2>1 DEF Silenced
  <2>4. CASE alarmed = 0
    <3>1. link \in {"up", "fin", "reset"}
      BY <2>3, <2>4 DEF Attempts
    <3>2. connects = 0 /\ Waiting = 0
      BY <1>1, <1>2, <2>4, <3>1 DEF Attempts, Bit
    <3>3. alarmed' = 1 /\ connects' + Waiting' = 1
      <4>1. connects' + Waiting' = 0 + 0 + 1
        BY <2>2, <3>2
      <4> QED
        BY <2>1, <2>4, <4>1
    <3>4. Bit(link' = "syn") = 0
      BY <2>1, <3>1 DEF Bit
    <3> QED
      BY <3>3, <3>4 DEF Attempts
  <2>5. CASE alarmed # 0
    BY <1>1, <2>1, <2>5 DEF Attempts
  <2> QED
    BY <2>4, <2>5
<1>6. CASE ReadId
  <2>1. /\ idDue = TRUE /\ UNCHANGED << connects, armed, alarmed, link >>
    BY <1>1, <1>6 DEF ReadId
  <2>2. Waiting' = Waiting /\ link \in {"up", "fin"}
    BY <2>1 DEF Waiting, Connection
  <2> QED
    BY <2>1, <2>2 DEF Attempts
<1>7. CASE Established
  <2>1. /\ link = "syn" /\ link' = "up"
        /\ UNCHANGED << connects, armed, alarmed, ids >>
    BY <1>7 DEF Established
  <2>2. Waiting' = Waiting
    BY <2>1 DEF Waiting
  <2> QED
    BY <1>1, <1>2, <2>1, <2>2 DEF Attempts, Bit
<1>8. CASE Refused
  <2>1. /\ link = "syn" /\ link' = "none" /\ ArmReconnect(connects)
        /\ UNCHANGED << alarmed, ids, idDue >>
    BY <1>8 DEF Refused
  <2>2. /\ connects' \in Nat /\ connects' + Waiting' = connects + Waiting + 1
        /\ Waiting' \in {0, 1}
    BY <1>1, <2>1, ArmReconnectTyped DEF Waiting, Bit
  <2>3. alarmed = 0 => ~ (ids > 0 \/ idDue)
    BY <2>1 DEF Attempts
  <2>4. /\ Bit(link # "none") = 1 /\ Bit(link = "syn") = 1
        /\ Bit(link' # "none") = 0 /\ Bit(link' = "syn") = 0
    BY <2>1 DEF Bit
  <2>5. alarmed \in {0, 1} => connects = 0 /\ Waiting = 0
    BY <1>1, <1>2, <2>4 DEF Attempts
  <2>6. alarmed \in {0, 1} => connects' + Waiting' = 1
    <3> SUFFICES ASSUME alarmed \in {0, 1} PROVE connects' + Waiting' = 1
      OBVIOUS
    <3>1. connects' + Waiting' = 0 + 0 + 1
      BY <2>2, <2>5
    <3> QED
      BY <3>1
  <2> QED
    BY <2>1, <2>3, <2>4, <2>6 DEF Attempts
<1>9. CASE Fin \/ Reset
  <2>1. /\ link \in {"up", "fin"} /\ link' \in {"fin", "reset"}
        /\ UNCHANGED << connects, armed, alarmed, ids >>
    BY <1>9 DEF Fin, Reset
  <2>2. Waiting' = Waiting
    BY <2>1 DEF Waiting
  <2> QED
    BY <1>1, <1>2, <2>1, <2>2 DEF Attempts, Bit
<1>10. CASE Expiry
  <2>1. PICK t \in Timers : Expire(t)
    BY <1>10 DEF Expiry
  <2>2. UNCHANGED << alarmed, ids, link, idDue >>
    BY <2>1 DEF Expire
  <2>3. connects' + Waiting' = connects + Waiting
    <3>1. CASE t = "reconnect"
      <4>1. /\ "reconnect" \in armed /\ "reconnect" \notin armed'
            /\ connects' = connects + 1
        BY <2>1, <3>1 DEF Expire
      <4>2. Waiting = 1 /\ Waiting' = 0
        BY <4>1 DEF Waiting, Bit
      <4> QED
        BY <1>1, <4>1, <4>2
    <3>2. CASE t # "reconnect"
      <4>1. ("reconnect" \in armed') = ("reconnect" \in armed)
            /\ connects' = connects
        BY <2>1, <3>2 DEF Expire
      <4>2. Waiting' = Waiting
        BY <4>1 DEF Waiting
      <4> QED
        BY <4>1, <4>2
    <3> QED
      BY <3>1, <3>2
  <2>4. connects' \in Nat /\ Waiting' \in {0, 1}
    BY <1>1, <2>1 DEF Expire, Waiting, Bit
  <2>5. /\ alarmed = 0 => connects + Waiting + Bit(link # "none") <= 1
        /\ alarmed = 1 => connects + Waiting + Bit(link = "syn") <= 1
    BY DEF Attempts
  <2>6. /\ alarmed = 0 => connects' + Waiting' + Bit(link # "none") <= 1
        /\ alarmed = 1 => connects' + Waiting' + Bit(link = "syn") <= 1
    BY <2>3, <2>5
  <2> QED
    BY <2>2, <2>6 DEF Attempts
<1>11. CASE HandleData
  <2>1. Waiting' = Waiting
    BY <1>11, ArmTyped DEF HandleData, Waiting, Timers
  <2> QED
    BY <1>3, <1>11, <2>1 DEF HandleData
<1>12. CASE Keepalive \/ Register
  BY <1>3, <1>12, SendKeepaliveTyped DEF Keepalive, Register
<1>13. CASE ReadFails \/ UdpConnect \/ HandleAck \/ Tick
            \/ (\E type \in {"DATA", "ACK"} : Arrive(type)) \/ Resume
            \/ StreamEnds \/ HandleOther
  <2>1. UNCHANGED << connects, armed, alarmed, ids, link, idDue >>
    BY <1>13
       DEF ReadFails, UdpConnect, HandleAck, Tick, Arrive, HandleOther,
           Resume, StreamEnds
  <2> QED
    BY <1>3, <2>1 DEF Waiting
<1> QED
  BY <1>4, <1>5, <1>6, <1>7, <1>8, <1>9, <1>10, <1>11, <1>12, <1>13
     DEF Next, Handle, Environment

-----------------------------------------------------------------------------
(* Readers *)

LEMMA ReadersStep ==
    TypeOK /\ Connection /\ Attempts /\ Readers /\ Next => Readers'
<1> SUFFICES ASSUME TypeOK, Connection, Attempts, Readers, Next
             PROVE  Readers'
  OBVIOUS
<1> USE DEF tcpVars, dueVars, histories
<1>1. /\ connects \in Nat /\ alarmed \in Nat /\ reading \in Nat
      /\ link \in {"none", "syn", "up", "fin", "reset"}
      /\ sock \in {"unconnected", "connecting", "connected"}
  BY DEF TypeOK
<1>2. CASE UNCHANGED << sock, link, reading, alarmed >>
  BY <1>2 DEF Readers
<1>3. CASE Connect
  <2>1. connects > 0 /\ alarmed' = alarmed
    BY <1>3 DEF Connect
  <2>2. CASE ConnectStarts /\ sock' = "connecting" /\ link' = "syn"
             /\ reading' = reading
    <3>1. reading = 0
      BY <2>2 DEF ConnectStarts, Connection, Readers
    <3> QED
      BY <2>2, <3>1 DEF Readers
  <2>3. CASE ConnectSucceeds /\ sock' = "connected" /\ link' = link
             /\ reading' = reading + 1
    <3>1. link \in {"up", "fin"} /\ sock = "connecting"
      BY <2>3 DEF ConnectSucceeds
    <3>2. reading <= 1
      BY <3>1 DEF Readers
    <3>3. Bit(link # "none") = 1 /\ Waiting \in {0, 1}
      BY <3>1 DEF Bit, Waiting
    <3>4. alarmed # 0
      BY <1>1, <2>1, <3>3 DEF Attempts
    <3> QED
      BY <1>1, <2>1, <2>3, <3>1, <3>2, <3>4 DEF Readers
  <2>4. CASE ConnectFails /\ sock = "connecting" /\ link # "syn"
             /\ sock' = "unconnected" /\ link' = "none" /\ reading' = reading
    <3>1. link \in {"none", "reset"}
      BY <1>1, <2>4 DEF ConnectFails, ConnectStarts, ConnectSucceeds
    <3> QED
      BY <2>1, <2>4, <3>1 DEF Readers
  <2>5. CASE UNCHANGED << sock, link, reading >>
    BY <1>2, <2>1, <2>5
  <2> QED
    BY <1>3, <2>2, <2>3, <2>4, <2>5 DEF Connect
<1>4. CASE Established
  <2>1. /\ link = "syn" /\ link' = "up" /\ reading' = reading + 1
        /\ UNCHANGED << sock, alarmed >>
    BY <1>4 DEF Established
  <2>2. reading = 0 /\ sock = "connecting"
    BY <2>1 DEF Readers, Connection
  <2> QED
    BY <2>1, <2>2 DEF Readers
<1>5. CASE Refused
  <2>1. /\ link = "syn" /\ link' = "none"
        /\ UNCHANGED << sock, reading, alarmed >>
    BY <1>5 DEF Refused
  <2> QED
    BY <2>1 DEF Readers
<1>6. CASE ReadFails
  <2>1. /\ reading > 0 /\ reading' = reading - 1
        /\ UNCHANGED << sock, link, alarmed >>
    BY <1>6 DEF ReadFails
  <2> QED
    BY <1>1, <2>1 DEF Readers
<1>7. CASE Alarm
  <2>1. alarmed' > 0 /\ UNCHANGED << sock, link, reading >>
    BY <1>1, <1>7 DEF Alarm
  <2> QED
    BY <2>1 DEF Readers
<1>8. CASE Fin
  <2>1. link = "up" /\ link' = "fin" /\ UNCHANGED << sock, reading, alarmed >>
    BY <1>8 DEF Fin
  <2> QED
    BY <2>1 DEF Readers
<1>9. CASE Reset
  <2>1. reading' = 0 /\ UNCHANGED << sock, alarmed >>
    BY <1>9 DEF Reset
  <2> QED
    BY <2>1 DEF Readers
<1>10. CASE ReadId \/ Keepalive \/ UdpConnect \/ Register \/ HandleData
            \/ HandleAck \/ Expiry \/ Tick \/ Resume \/ StreamEnds
            \/ HandleOther
            \/ (\E type \in {"DATA", "ACK"} : Arrive(type))
  BY <1>2, <1>10
     DEF ReadId, Keepalive, UdpConnect, Register, HandleData, HandleAck,
         Expiry, Expire, Tick, Arrive, HandleOther, Resume, StreamEnds
<1> QED
  BY <1>3, <1>4, <1>5, <1>6, <1>7, <1>8, <1>9, <1>10
     DEF Next, Handle, Environment

-----------------------------------------------------------------------------
(* Silence *)

(* With one id there is one chain: when a handler of it is due elsewhere,  *)
(* nothing connects or registers.                                          *)
LEMMA OneChain ==
    ASSUME TypeOK, Chains, Connection, ~ wasReset,
           NEW s \in Stages \ {"connect"}, chain[s] > 0
    PROVE  ids = 1 /\ chain["connect"] = 0
<1>1. /\ \A u \in Stages : chain[u] \in Nat
      /\ ended \in Nat /\ ids \in Nat
  BY DEF TypeOK
<1>2. /\ chain["connect"] \in Nat /\ chain["register"] \in Nat
      /\ chain["receive"] \in Nat /\ chain["DATA"] \in Nat
      /\ chain["ACK"] \in Nat /\ chain["stdio"] \in Nat
  BY <1>1 DEF Stages
<1>3. Bit(idDue) \in {0, 1} /\ Bit(link \in {"up", "fin"}) \in {0, 1}
  BY DEF Bit
<1>4. ids <= 1
  BY <1>1, <1>3 DEF Connection
<1>5. chain[s] + chain["connect"] <= ids
  <2>1. s \in {"register", "receive", "DATA", "ACK", "stdio"}
    BY DEF Stages
  <2> QED
    BY <1>1, <1>2, <2>1 DEF Chains
<1>6. chain[s] \in Nat
  BY <1>1
<1> QED
  BY <1>1, <1>2, <1>4, <1>5, <1>6

LEMMA SilencedStep ==
    TypeOK /\ Chains /\ Connection /\ Silenced /\ Next => Silenced'
<1> SUFFICES ASSUME TypeOK, Chains, Connection, Silenced, Next
             PROVE  Silenced'
  OBVIOUS
<1> USE DEF tcpVars, dueVars, timerVars, udpVars, histories
<1> DEFINE Noticed == "connection" \in armed \/ alarms > 0 \/ alarmed > 0
<1>1. /\ alarms \in Nat /\ alarmed \in Nat /\ ids \in Nat
      /\ chain \in [Stages -> Nat] /\ wasReset \in BOOLEAN
      /\ "connect" \in Stages /\ chain["connect"] \in Nat
  BY DEF TypeOK, Stages
<1>2. ASSUME Noticed' => Noticed, alarmed' = alarmed, ids' = ids,
             wasReset' = wasReset, udp' = udp,
             chain'["connect"] = chain["connect"]
      PROVE  Silenced'
  BY <1>2 DEF Silenced
<1>3. CASE Connect
  <2>1. \/ UNCHANGED timerVars
        \/ connects - 1 \in Nat /\ ArmReconnect(connects - 1)
    BY <1>3 DEF Connect, TypeOK
  <2>2. ("connection" \in armed)' = ("connection" \in armed)
    BY <2>1, ArmReconnectTyped
  <2> QED
    BY <1>2, <1>3, <2>2 DEF Connect
<1>4. CASE Refused
  <2>1. ("connection" \in armed)' = ("connection" \in armed)
    BY <1>4, ArmReconnectTyped DEF Refused, TypeOK
  <2> QED
    BY <1>2, <1>4, <2>1 DEF Refused
<1>5. CASE Alarm
  <2>1. /\ alarms > 0 /\ alarmed' = alarmed + 1 /\ udp' = "closed"
        /\ UNCHANGED << ids, wasReset, chain >>
    BY <1>5 DEF Alarm
  <2> QED
    BY <1>1, <2>1 DEF Silenced
<1>6. CASE Keepalive \/ Register
  <2>1. ("connection" \in armed)' = ("connection" \in armed)
    BY <1>6, SendKeepaliveTyped DEF Keepalive, Register
  <2>2. chain'["connect"] = chain["connect"]
    BY <1>6, MoveTyped DEF Keepalive, Register, Stages
  <2>3. UNCHANGED << alarms, alarmed, ids, wasReset, udp >>
    BY <1>6 DEF Keepalive, Register
  <2> QED
    BY <1>2, <2>1, <2>2, <2>3
<1>7. CASE ReadId
  <2>1. /\ idDue /\ ids' = ids + 1
        /\ UNCHANGED << armed, alarms, alarmed, wasReset, udp >>
    BY <1>7 DEF ReadId
  <2>2. ~ wasReset => ids = 0
    BY <1>1, <2>1 DEF Connection, Bit
  <2>3. ~ wasReset => ~ Noticed
    BY <2>2 DEF Silenced
  <2> QED
    BY <1>1, <2>1, <2>3 DEF Silenced
<1>8. CASE UdpConnect
  <2>1. /\ chain["connect"] > 0 /\ udp' = "open"
        /\ UNCHANGED << armed, alarms, alarmed, ids, wasReset >>
    BY <1>8 DEF UdpConnect, Move
  <2>2. Noticed => wasReset
    BY <1>1, <2>1 DEF Silenced
  <2> QED
    BY <2>1, <2>2 DEF Silenced
<1>9. CASE HandleData
  <2>1. /\ Move("DATA", "stdio") \/ Move("DATA", "receive")
        /\ UNCHANGED << alarms, alarmed, ids, wasReset, udp >>
    BY <1>9 DEF HandleData
  <2>2. /\ "DATA" \in Stages \ {"connect"} /\ "stdio" \in Stages
        /\ "receive" \in Stages
    BY DEF Stages
  <2>3. chain["DATA"] > 0 /\ chain'["connect"] = chain["connect"]
    BY <1>1, <2>1, <2>2, MoveTyped
  <2>4. ~ wasReset => chain["connect"] = 0
    BY <2>2, <2>3, OneChain
  <2>5. ids > 0
    <3>1. \A u \in Stages : chain[u] \in Nat
      BY <1>1
    <3>2. /\ chain["register"] \in Nat /\ chain["receive"] \in Nat
          /\ chain["DATA"] \in Nat /\ chain["ACK"] \in Nat
          /\ chain["stdio"] \in Nat /\ ended \in Nat
      BY <3>1 DEF Stages, TypeOK
    <3> QED
      BY <1>1, <2>3, <3>2 DEF Chains
  <2> QED
    BY <2>1, <2>3, <2>4, <2>5 DEF Silenced
<1>10. CASE HandleAck
  <2>1. chain'["connect"] = chain["connect"]
    BY <1>10, MoveTyped DEF HandleAck, Stages
  <2> QED
    BY <1>2, <1>10, <2>1 DEF HandleAck
<1>11. CASE Resume \/ \E type \in {"DATA", "ACK"} : Arrive(type)
  <2>1. chain'["connect"] = chain["connect"]
    BY <1>11, MoveTyped DEF Resume, Arrive, Stages
  <2>2. UNCHANGED << armed, alarms, alarmed, ids, wasReset, udp >>
    BY <1>11 DEF Resume, Arrive
  <2> QED
    BY <1>2, <2>1, <2>2
<1>12. CASE StreamEnds \/ HandleOther
  <2>1. chain'["connect"] = chain["connect"]
    BY <1>1, <1>12 DEF StreamEnds, HandleOther, Stages
  <2>2. UNCHANGED << armed, alarms, alarmed, ids, wasReset, udp >>
    BY <1>12 DEF StreamEnds, HandleOther
  <2> QED
    BY <1>2, <2>1, <2>2
<1>13. CASE Expiry
  <2>1. PICK t \in Timers : Expire(t)
    BY <1>13 DEF Expiry
  <2>2. Noticed' => Noticed
    BY <1>1, <2>1 DEF Expire
  <2>3. UNCHANGED << alarmed, ids, wasReset, udp, chain >>
    BY <2>1 DEF Expire
  <2> QED
    BY <1>2, <2>2, <2>3
<1>14. CASE Reset
  <2>1. wasReset' = TRUE /\ UNCHANGED << armed, alarms, alarmed, ids >>
    BY <1>14 DEF Reset
  <2> QED
    BY <2>1 DEF Silenced
<1>15. CASE ReadFails \/ Tick \/ Established \/ Fin
  <2>1. UNCHANGED << armed, alarms, alarmed, ids, wasReset, udp, chain >>
    BY <1>15 DEF ReadFails, Tick, Established, Fin
  <2> QED
    BY <1>2, <2>1
<1> QED
  BY <1>3, <1>4, <1>5, <1>6, <1>7, <1>8, <1>9, <1>10, <1>11, <1>12, <1>13,
     <1>14, <1>15 DEF Next, Handle, Environment

-----------------------------------------------------------------------------
(* The deadline *)

LEMMA DeadlineStep == TypeOK /\ Deadline /\ Next => Deadline'
<1> SUFFICES ASSUME TypeOK, Deadline, Next PROVE Deadline'
  OBVIOUS
<1> USE DEF tcpVars, dueVars, timerVars, udpVars, histories
<1>1. /\ "connection" \in Timers /\ expires["connection"] \in Nat
      /\ now \in Nat /\ lastData \in Nat /\ ConnectionPeriod \in Nat
      /\ connects \in Nat
  BY Periods DEF TypeOK, Timers
<1>2. ASSUME "connection" \in armed' => "connection" \in armed,
             expires'["connection"] = expires["connection"],
             late' = late, lastData' = lastData
      PROVE  Deadline'
  BY <1>2 DEF Deadline
<1>3. CASE Connect
  <2>1. \/ UNCHANGED timerVars
        \/ connects - 1 \in Nat /\ ArmReconnect(connects - 1)
    BY <1>1, <1>3 DEF Connect
  <2>2. /\ "connection" \in armed' => "connection" \in armed
        /\ expires'["connection"] = expires["connection"]
    BY <2>1, ArmReconnectTyped
  <2> QED
    BY <1>2, <1>3, <2>2 DEF Connect
<1>4. CASE Refused \/ Alarm
  <2>1. ArmReconnect(connects) /\ UNCHANGED << late, lastData >>
    BY <1>4 DEF Refused, Alarm
  <2>2. /\ "connection" \in armed' => "connection" \in armed
        /\ expires'["connection"] = expires["connection"]
    BY <1>1, <2>1, ArmReconnectTyped
  <2> QED
    BY <1>2, <2>1, <2>2
<1>5. CASE Keepalive \/ Register
  <2>1. SendKeepalive /\ UNCHANGED << late, lastData >>
    BY <1>5 DEF Keepalive, Register
  <2>2. /\ "connection" \in armed' => "connection" \in armed
        /\ expires'["connection"] = expires["connection"]
    BY <2>1, SendKeepaliveTyped
  <2> QED
    BY <1>2, <2>1, <2>2
<1>6. CASE HandleData
  <2>1. /\ Arm("connection") /\ late' = (late \/ now > expires["connection"])
        /\ lastData' = now
    BY <1>6 DEF HandleData
  <2>2. expires'["connection"] = expires["connection"] + ConnectionPeriod
    BY <1>1, <2>1, ArmTyped, Periods
  <2>3. ~ late' => now <= expires["connection"]
    <3>1. ~ late' => ~ (now > expires["connection"])
      BY <2>1, Zenon
    <3> QED
      BY <1>1, <3>1
  <2> QED
    BY <1>1, <2>1, <2>2, <2>3 DEF Deadline
<1>7. CASE Expiry
  <2>1. PICK t \in Timers : Expire(t)
    BY <1>7 DEF Expiry
  <2>2. "connection" \in armed' => "connection" \in armed
    BY <2>1 DEF Expire
  <2> QED
    BY <1>2, <2>1, <2>2 DEF Expire
<1>8. CASE ReadId \/ ReadFails \/ UdpConnect \/ HandleAck \/ Tick
           \/ Established \/ (\E type \in {"DATA", "ACK"} : Arrive(type))
           \/ Resume \/ StreamEnds \/ HandleOther \/ Fin \/ Reset
  <2>1. UNCHANGED << expires, armed, late, lastData >>
    BY <1>8 DEF ReadId, ReadFails, UdpConnect, HandleAck, Tick, Established,
                Arrive, HandleOther, Resume, StreamEnds, Fin, Reset
  <2> QED
    BY <1>2, <2>1
<1> QED
  BY <1>3, <1>4, <1>5, <1>6, <1>7, <1>8 DEF Next, Handle, Environment

-----------------------------------------------------------------------------
LEMMA InitInv == Init => Inv
<1> SUFFICES ASSUME Init PROVE Inv
  OBVIOUS
<1> USE DEF Init
<1>1. TypeOK
  <2>1. chain \in [Stages -> Nat]
    BY DEF Stages
  <2>2. {idDue, first, uploaded, late, wasReset} \subseteq BOOLEAN
    BY Zenon
  <2>3. expires \in [Timers -> Nat]
    BY Periods
  <2> QED
    BY <2>1, <2>2, <2>3 DEF TypeOK
<1>2. Chains
  BY DEF Chains, Stages
<1>3. Connection /\ Attempts
  BY DEF Connection, Attempts, Waiting, Bit
<1>4. Readers /\ Silenced /\ Deadline
  BY DEF Readers, Silenced, Deadline
<1> QED
  BY <1>1, <1>2, <1>3, <1>4 DEF Inv

LEMMA Stuttering == Inv /\ UNCHANGED vars => Inv'
<1> SUFFICES ASSUME Inv, UNCHANGED vars PROVE Inv'
  OBVIOUS
<1>1. /\ UNCHANGED << now, expires, armed, sock, link, idDue, reading,
                      connects, alarms, keepalives, udp, chain, first >>
      /\ UNCHANGED << ids, ended, uploaded, lastData, late, alarmed, wasReset >>
  BY DEF vars, timerVars, tcpVars, dueVars, udpVars, histories
<1>2. TypeOK' /\ Chains' /\ Connection'
  BY <1>1 DEF Inv, TypeOK, Chains, Connection
<1>3. Attempts' /\ Readers' /\ Silenced' /\ Deadline'
  BY <1>1 DEF Inv, Attempts, Waiting, Readers, Silenced, Deadline
<1> QED
  BY <1>2, <1>3 DEF Inv

(* The inductive invariant holds in every state of every behaviour.        *)
THEOREM Invariance == Spec => []Inv
<1>1. Inv /\ [Next]_vars => Inv'
  BY TypesStep, ChainsStep, ConnectionStep, AttemptsStep, ReadersStep,
     SilencedStep, DeadlineStep, Stuttering DEF Inv
<1> QED
  BY InitInv, <1>1, PTL DEF Spec

(* Every variable keeps its type, for any periods.                         *)
THEOREM TypeCorrect == Spec => []TypeOK
<1>1. Inv => TypeOK
  BY DEF Inv
<1> QED
  BY <1>1, Invariance, PTL

LEMMA OneIdAtMost == Inv /\ ~ wasReset => ids <= 1
<1> SUFFICES ASSUME Inv, ~ wasReset PROVE ids <= 1
  OBVIOUS
<1>1. ids \in Nat /\ ids + Bit(idDue) = Bit(link \in {"up", "fin"})
  BY DEF Inv, TypeOK, Connection
<1>2. Bit(idDue) \in {0, 1} /\ Bit(link \in {"up", "fin"}) \in {0, 1}
  BY DEF Bit
<1> QED
  BY <1>1, <1>2

(* One chain of UDP handlers per id, and without a reset at most one, over *)
(* any number of alarms, registrations and datagrams (client.cc:132-183).  *)
THEOREM OneChainPerId == Spec => []ChainPerId
<1>1. Inv => ChainPerId
  BY OneIdAtMost DEF Inv, Chains, ChainPerId
<1> QED
  BY <1>1, Invariance, PTL

(* Without a reset do_tcp_reconnect ends the session for good: the socket  *)
(* stays closed and no second id comes (client.cc:195-211).                *)
THEOREM AlarmFinal == Spec => []AlarmIsFinal
<1>1. Inv => AlarmIsFinal
  <2> SUFFICES ASSUME Inv, alarmed > 0, ~ wasReset
               PROVE  udp = "closed" /\ ids = 1
    BY DEF AlarmIsFinal
  <2>1. udp = "closed" /\ ids > 0 /\ ids \in Nat
    BY DEF Inv, Silenced, TypeOK
  <2> QED
    BY <2>1, OneIdAtMost
<1> QED
  BY <1>1, Invariance, PTL

(* The report buffer has at most two readers, and one until do_tcp_        *)
(* reconnect was called (client.cc:132-183, 195-211).                      *)
THEOREM OneReaderAtATime == Spec => []OneReader
<1>1. Inv => OneReader
  <2> SUFFICES ASSUME Inv PROVE OneReader
    OBVIOUS
  <2>1. Readers /\ TypeOK
    BY DEF Inv
  <2>2. sock = "unconnected" => link = "none"
    BY DEF Inv, Connection
  <2> QED
    BY <2>1, <2>2 DEF Readers, OneReader, TypeOK
<1> QED
  BY <1>1, Invariance, PTL

(* There is one attempt to connect at a time until do_tcp_reconnect was    *)
(* called twice (client.cc:75-106, 195-211).                               *)
THEOREM OneLoop == Spec => []OneConnectLoop
<1>1. Inv => OneConnectLoop
  <2> SUFFICES ASSUME Inv, ~ (alarmed > 1) PROVE OneConnectLoop
    BY DEF OneConnectLoop
  <2>1. /\ connects \in Nat /\ alarmed \in {0, 1} /\ Waiting \in {0, 1}
        /\ Bit(link = "syn") \in {0, 1} /\ Bit(link # "none") \in {0, 1}
        /\ Bit(link = "syn") <= Bit(link # "none")
    BY DEF Inv, TypeOK, Waiting, Bit
  <2>2. connects + Waiting + Bit(link = "syn") <= 1
    BY <2>1 DEF Inv, Attempts
  <2>3. connects + Cardinality(armed \cap {"reconnect"})
                 + (IF link = "syn" THEN 1 ELSE 0) <= 1
    BY <2>2, CardWaiting DEF Bit
  <2> QED
    BY <2>3 DEF OneConnectLoop
<1> QED
  BY <1>1, Invariance, PTL

(* As long as no DATA missed its deadline, connection_timer_ expires only  *)
(* a whole period after the last DATA (client.cc:108-130, 195-211).        *)
THEOREM SilenceMeant == Spec => AlarmMeansSilence
<1>1. Inv /\ [Next]_vars
          => [Expire("connection") /\ ~ late
                  => now - lastData >= ConnectionPeriod]_vars
  <2> SUFFICES ASSUME Inv, Expire("connection"), ~ late
               PROVE  now - lastData >= ConnectionPeriod
    OBVIOUS
  <2>1. "connection" \in armed /\ expires["connection"] <= now
    BY DEF Expire
  <2>2. /\ now \in Nat /\ lastData \in Nat /\ ConnectionPeriod \in Nat
        /\ expires["connection"] \in Nat
    BY Periods DEF Inv, TypeOK, Timers
  <2>3. lastData + ConnectionPeriod <= expires["connection"]
    BY <2>1 DEF Inv, Deadline
  <2> QED
    BY <2>1, <2>2, <2>3
<1> QED
  BY <1>1, Invariance, PTL DEF Spec, AlarmMeansSilence
=============================================================================
