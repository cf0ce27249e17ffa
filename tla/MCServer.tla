------------------------------- MODULE MCServer -------------------------------
(* Bounded instances of Server for TLC.                                    *)
EXTENDS Server

LOCAL INSTANCE FiniteSetsExt

CONSTANTS
    Scenes,         \* who takes part: "pair" and "single"
    MaxNr,          \* bound on the mixer ticks
    MaxUploads,     \* bound on the UPLOAD numbers of the first of a pair
    MaxInFlight,    \* bound on the datagrams in flight
    MaxWrites,      \* bound on the writes under way on a connection
    MaxResends,     \* bound on the retransmitted datagrams
    MaxIds          \* bound on the connections accepted

VARIABLE scene      \* the scene of this behaviour

(* In "pair" the peers take part once each and send what class client     *)
(* sends.  In "single" one of them does, but it also comes back, asks for  *)
(* retransmissions and sends stray datagrams, and the server may be        *)
(* stopped.  All but the first of a pair upload once.                      *)
Lead == CHOOSE p \in Peers : TRUE

MayUpload(p, number) ==
    number < (IF scene = "pair" /\ p = Lead THEN MaxUploads ELSE 1)

(* The peers differ in nothing, so the same one may always be the first.   *)
MayConnect(p) ==
    /\ clientid < FirstId + MaxIds
    /\ IF scene = "pair" THEN idOf[p] = 0 /\ (p # Lead => idOf[Lead] # 0)
                         ELSE p = Lead

(* Uploads alternate between the largest and the smallest size.            *)
SizeOf(number) == IF number % 2 = 0 THEN Max(UploadSizes) ELSE Min(UploadSizes)

MCEnvironment ==
    \/ /\ Cardinality(net) < MaxInFlight
       /\ \E p \in Peers :
             \/ SendClient(p)
             \/ SendKeepalive(p)
             \/ /\ scene = "single" /\ p = Lead
                /\ \/ SendStray(p)
                   \/ \E number \in 0 .. nr : SendRetransmit(p, number)
             \/ \E number \in 0 .. MaxUploads - 1 :
                    /\ MayUpload(p, number)
                    /\ SendUpload(p, number, SizeOf(number))
    \/ \E p \in Peers : Break(p)
    \/ \E m \in net : Lose(m)

MCTick ==
    \/ nr < MaxNr /\ Mixer
    \/ (\A id \in connections : writes[id] < MaxWrites) /\ Raport

MCNext ==
    \/ Handle
    \/ Complete
    \/ MCTick
    \/ \E p \in Peers : MayConnect(p) /\ Accept(p)
    \/ scene = "single" /\ Stop
    \/ MCEnvironment

(* What RETRANSMIT adds is bounded as a constraint on the next state.      *)
Bounded == resends' + resent' <= MaxResends

MCInit == Init /\ scene \in Scenes

MCSpec == MCInit /\ [][MCNext /\ Bounded /\ UNCHANGED scene]_<< vars, scene >>

MCFairSpec == MCSpec /\ Fairness
=============================================================================
