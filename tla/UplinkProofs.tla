----------------------------- MODULE UplinkProofs -----------------------------
(***************************************************************************)
(* What the abstract Uplink keeps, however far a client may be ahead.      *)
(***************************************************************************)
EXTENDS Uplink, TLAPS

(* Nothing is accepted that was not sent, nothing is learned that was not  *)
(* accepted, and the client is at most Ahead beyond what it learned.       *)
InStep ==
    /\ sent \in Nat /\ received \in Nat /\ learned \in Nat
    /\ learned <= received
    /\ received <= sent
    /\ sent <= learned + Ahead

(* The invariant of Uplink, for every number of UPLOADs the client may be  *)
(* ahead; module Session shows the program keeps to it with two.           *)
THEOREM UplinkInStep ==
    ASSUME Ahead \in Nat
    PROVE  UplinkSpec => []InStep
<1>1. UplinkInit => InStep
  BY DEF UplinkInit, InStep
<1>2. InStep /\ [UplinkNext]_uplink => InStep'
  <2> SUFFICES ASSUME InStep, [UplinkNext]_uplink PROVE InStep'
    OBVIOUS
  <2>1. CASE Send
    BY <2>1 DEF Send, InStep
  <2>2. CASE Accept
    BY <2>2 DEF Accept, InStep
  <2>3. CASE Learn
    <3>1. /\ learned' \in learned + 1 .. received
          /\ sent' = sent /\ received' = received
      BY <2>3 DEF Learn
    <3>2. learned \in Nat /\ received \in Nat
      BY DEF InStep
    <3>3. learned' \in Nat /\ learned <= learned' /\ learned' <= received
      BY <3>1, <3>2
    <3>4. /\ sent \in Nat /\ received <= sent /\ sent <= learned + Ahead
      BY DEF InStep
    <3>5. sent <= learned' + Ahead
      <4>1. \A a, b, c, d \in Nat : a <= b + d /\ b <= c => a <= c + d
        OBVIOUS
      <4> QED
        BY <3>2, <3>3, <3>4, <4>1
    <3> QED
      BY <3>1, <3>2, <3>3, <3>4, <3>5 DEF InStep
  <2>4. CASE UNCHANGED uplink
    BY <2>4 DEF uplink, InStep
  <2> QED
    BY <2>1, <2>2, <2>3, <2>4 DEF UplinkNext
<1> QED
  BY <1>1, <1>2, PTL DEF UplinkSpec
=============================================================================
