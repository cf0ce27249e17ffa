----------------------------- MODULE MixerProofs -----------------------------
(***************************************************************************)
(* Proofs about Mixer, for any number of inputs, any queues and any        *)
(* interval.  The only hypothesis is the one the code leaves to the        *)
(* options: IntervalCovered, that -H is above what -i consumes.  The types *)
(* need not even that.                                                     *)
(***************************************************************************)
EXTENDS Mixer, FiniteSetTheorems, SequenceTheorems, WellFoundedInduction,
        TLAPS

(* Induction over the natural numbers, from the library's theorem that     *)
(* they have no infinite descent.                                          *)
LEMMA Induction ==
    ASSUME NEW B, 0 \in B, \A n \in Nat : n \in B => n + 1 \in B
    PROVE  Nat \subseteq B
<1> DEFINE T == {n \in Nat : n \notin B}
<1>1. SUFFICES ASSUME T # {} PROVE FALSE
  OBVIOUS
<1>2. PICK x \in T : \A y \in T : ~ (<< y, x >> \in OpToRel(<, Nat))
  BY <1>1, WFMin, NatLessThanWellFounded
<1>3. x - 1 \in Nat /\ x - 1 < x
  OBVIOUS
<1>4. x - 1 \notin T
  BY <1>2, <1>3 DEF OpToRel
<1> QED
  BY <1>3, <1>4

(* The sum is taken over the set one element after the other.  For the     *)
(* subsets of at most n elements that defines a function, by induction.    *)
LEMMA SumInt ==
    ASSUME NEW queues, NEW inputs, IsFiniteSet(inputs), NEW pos,
           \A i \in inputs : queues[i][pos] \in Int
    PROVE  SumAt(queues, inputs, pos) \in Int
<1> DEFINE First(s) == CHOOSE x \in s : TRUE
           Small(n) == {s \in SUBSET inputs : Cardinality(s) <= n}
           Step(s, f) == IF s = {} THEN 0
                         ELSE queues[First(s)][pos] + f[s \ {First(s)}]
           iter == CHOOSE f : f = [s \in SUBSET inputs |-> Step(s, f)]
<1>1. \A s \in SUBSET inputs : IsFiniteSet(s) /\ Cardinality(s) \in Nat
  BY FS_Subset, FS_CardinalityType
<1>2. \A n \in Nat : \A s \in Small(n + 1) :
          /\ s # {} => First(s) \in inputs /\ s \ {First(s)} \in Small(n)
          /\ s \in Small(n) => s \in Small(n + 1)
  <2>1. ASSUME NEW s \in SUBSET inputs, s # {}
        PROVE  /\ First(s) \in inputs
               /\ s \ {First(s)} \in SUBSET inputs
               /\ Cardinality(s \ {First(s)}) = Cardinality(s) - 1
    BY <1>1, <2>1, FS_RemoveElement
  <2> HIDE DEF First
  <2> QED
    BY <1>1, <2>1
<1>3. \A n \in Nat : Small(n) \subseteq Small(n + 1)
  BY <1>1
<1>4. \A s \in Small(0) : s = {}
  BY <1>1, FS_EmptySet
<1>5. \A s \in SUBSET inputs : \E n \in Nat : s \in Small(n)
  BY <1>1
<1>6. \E n \in Nat : Small(n) = SUBSET inputs
  <2>1. \A s \in SUBSET inputs : Cardinality(s) <= Cardinality(inputs)
    BY FS_Subset
  <2> QED
    BY <1>1, <2>1
<1> HIDE DEF First, Small
<1>7. iter = [s \in SUBSET inputs |-> Step(s, iter)]
  <2> DEFINE B == {n \in Nat : \E f : f = [s \in Small(n) |-> Step(s, f)]}
  <2>1. 0 \in B
    <3> DEFINE f == [s \in Small(0) |-> 0]
    <3>1. f = [s \in Small(0) |-> Step(s, f)]
      BY <1>4
    <3> QED
      BY <3>1
  <2>2. ASSUME NEW n \in Nat, n \in B PROVE n + 1 \in B
    <3>1. PICK f : f = [s \in Small(n) |-> Step(s, f)]
      BY <2>2
    <3> DEFINE g == [s \in Small(n + 1) |-> Step(s, f)]
    <3>2. \A s \in Small(n) : f[s] = Step(s, f)
      BY <3>1
    <3>3. \A s \in Small(n) : g[s] = f[s]
      BY <1>3, <3>2
    <3>4. \A s \in Small(n + 1) : Step(s, f) = Step(s, g)
      BY <1>2, <3>3
    <3>5. g = [s \in Small(n + 1) |-> Step(s, g)]
      BY <3>4
    <3> HIDE DEF g, Step
    <3> QED
      BY <3>5
  <2> HIDE DEF B
  <2>3. Nat \subseteq B
    BY <2>1, <2>2, Induction
  <2>4. PICK n \in Nat : Small(n) = SUBSET inputs
    BY <1>6
  <2>5. \E f : f = [s \in Small(n) |-> Step(s, f)]
    BY <2>3 DEF B
  <2> HIDE DEF Step
  <2> QED
    BY <2>4, <2>5
<1>8. iter[inputs] \in Int
  <2>1. PICK it : it = iter
    OBVIOUS
  <2> HIDE DEF iter
  <2> DEFINE B == {n \in Nat : \A s \in Small(n) : it[s] \in Int}
  <2>2. \A n \in Nat : Small(n) \subseteq SUBSET inputs
    BY DEF Small
  <2>3. \A s \in SUBSET inputs : it[s] = Step(s, it)
    BY <1>7, <2>1
  <2>4. 0 \in B
    <3>1. ASSUME NEW s \in Small(0) PROVE it[s] = 0
      <4>1. s = {} /\ s \in SUBSET inputs
        BY <1>4, <2>2
      <4> QED
        BY <2>3, <4>1
    <3> QED
      BY <3>1
  <2>5. ASSUME NEW n \in Nat, n \in B PROVE n + 1 \in B
    <3>1. ASSUME NEW s \in Small(n + 1) PROVE it[s] \in Int
      <4>1. s \in SUBSET inputs
        BY <2>2
      <4>2. it[s] = Step(s, it)
        BY <2>3, <4>1
      <4>3. CASE s # {}
        <5>1. queues[First(s)][pos] \in Int /\ it[s \ {First(s)}] \in Int
          BY <1>2, <2>5, <4>3
        <5> QED
          BY <4>2, <4>3, <5>1
      <4> QED
        BY <4>2, <4>3
    <3> QED
      BY <3>1
  <2> HIDE DEF B
  <2>6. Nat \subseteq B
    BY <2>4, <2>5, Induction
  <2>7. PICK n \in Nat : inputs \in Small(n)
    BY <1>5
  <2> QED
    BY <2>1, <2>6, <2>7 DEF B
<1> QED
  BY <1>8 DEF SumAt, MapThenSumSet, MapThenFoldSet, First, Step, iter

(* The types hold whoever calls the mixer and however short the queues     *)
(* are: an iteration that would read outside a queue writes no sample, and *)
(* what is written fits 16 bits whatever the sum is (mixer.cc:53-57).      *)
THEOREM TypeCorrect == Spec => []TypeOK
<1>1. Init => TypeOK
  <2>1. \A q \in Queues, f \in {2, 4} : f * Len(q) \in Nat
    BY MixerAssumption
  <2>2. InitLoop => len \in [Inputs -> Nat]
    BY <2>1 DEF InitLoop
  <2>3. << >> \in Seq(ShrtMin .. ShrtMax)
    OBVIOUS
  <2> QED
    BY <2>2, <2>3 DEF Init, InitLoop, TypeOK
<1>2. ASSUME TypeOK, Iterate PROVE TypeOK'
  <2>1. CASE Crash
    BY <1>2, <2>1 DEF Iterate, Crash, TypeOK
  <2>2. CASE Take /\ ~ \E i \in set : ReadsOutside(i)
    <3>1. ASSUME NEW i \in set PROVE data[i][iteration + 1] \in Int
      <4>1. data[i] \in Seq(ShrtMin .. ShrtMax) /\ iteration \in Nat
        BY <1>2, MixerAssumption DEF TypeOK
      <4>2. iteration + 1 \in 1 .. Len(data[i])
        BY <2>2, <4>1 DEF ReadsOutside
      <4>3. data[i][iteration + 1] \in ShrtMin .. ShrtMax
        BY <4>1, <4>2, ElementOfSeq
      <4> QED
        BY <4>3, MixerAssumption DEF ShrtMin
    <3>2. IsFiniteSet(set)
      BY <1>2, FS_Subset, MixerAssumption DEF TypeOK
    <3>3. SumAt(data, set, iteration + 1) \in Int
      BY <3>1, <3>2, SumInt
    <3>4. Clamp(SumAt(data, set, iteration + 1)) \in ShrtMin .. ShrtMax
      BY <3>3, MixerAssumption DEF Clamp, ShrtMin
    <3>5. out' \in Seq(ShrtMin .. ShrtMax)
      BY <1>2, <2>2, <3>4, AppendProperties DEF Take, TypeOK
    <3>6. /\ consumed' \in [Inputs -> Nat]
          /\ set' \in SUBSET Inputs
          /\ iteration' \in Nat
          /\ status' = status
      BY <1>2, <2>2 DEF Take, TypeOK
    <3> QED
      BY <1>2, <3>5, <3>6 DEF Iterate, TypeOK
  <2> QED
    BY <1>2, <2>1, <2>2 DEF Iterate
<1>3. ASSUME TypeOK, Finish PROVE TypeOK'
  BY <1>3 DEF Finish, TypeOK
<1>4. ASSUME TypeOK, UNCHANGED vars PROVE TypeOK'
  BY <1>4 DEF vars, TypeOK
<1> QED
  BY <1>1, <1>2, <1>3, <1>4, PTL DEF Spec, Next

-----------------------------------------------------------------------------
(* The sample the mixer has to write at a position.                        *)
Mixed(k) == Clamp(SumAt(data, {i \in Inputs : k <= Len(data[i])}, k))

(* Who is still in the set: with an honest caller exactly the inputs that  *)
(* have a next sample, with the server as caller all of them, and then     *)
(* they have all reached this far.                                         *)
HonestSet == set = {i \in Inputs : iteration < Len(data[i])}
ServerSet == set = Inputs /\ \A i \in Inputs : iteration <= Len(data[i])

Typed == /\ data \in [Inputs -> Queues]
         /\ consumed \in [Inputs -> Nat]
         /\ iteration \in Nat
         /\ 2 * iteration <= RequestedLength + 1

Inv == /\ Typed
       /\ \/ HonestCaller /\ HonestSet
          \/ ServerCaller /\ ServerSet
       /\ ConsumedExact
       /\ out = [k \in 1 .. iteration |-> Mixed(k)]
       /\ ReadsInside
       /\ status = "done" => 2 * iteration >= RequestedLength

-----------------------------------------------------------------------------
LEMMA LengthNat ==
    /\ RequestedLength \in Nat
    /\ data \in [Inputs -> Queues] => \A i \in Inputs : Len(data[i]) \in Nat
<1>1. RequestedLength \in Nat
  <2>1. Multiplier * TxInterval \in Nat /\ 4 * TxInterval \in Nat
    BY MixerAssumption
  <2> QED
    BY <2>1, MixerAssumption DEF RequestedLength
<1>2. ASSUME data \in [Inputs -> Queues], NEW i \in Inputs
      PROVE  Len(data[i]) \in Nat
  <2>1. data[i] \in Seq(ShrtMin .. ShrtMax)
    BY <1>2, MixerAssumption
  <2> QED
    BY <2>1
<1> QED
  BY <1>1, <1>2

LEMMA InitInv == Init => Inv
<1> SUFFICES ASSUME InitLoop, HonestCaller \/ ServerCaller PROVE Inv
  BY DEF Init
<1>1. Typed
  BY LengthNat DEF InitLoop, Typed
<1>2. \A i \in Inputs : Len(data[i]) \in Nat
  BY LengthNat DEF InitLoop
<1>3. HonestCaller => HonestSet
  <2>1. ASSUME HonestCaller, NEW i \in Inputs PROVE 0 < Len(data[i])
    <3>1. data[i] \in Seq(ShrtMin .. ShrtMax) /\ data[i] # << >>
      BY <2>1, MixerAssumption DEF HonestCaller, InitLoop
    <3> QED
      BY <3>1
  <2> QED
    BY <2>1 DEF InitLoop, HonestSet
<1>4. ServerCaller => ServerSet
  BY <1>2 DEF InitLoop, ServerSet
<1>5. ConsumedExact
  BY <1>2 DEF InitLoop, ConsumedExact
<1>6. out = [k \in 1 .. iteration |-> Mixed(k)]
  BY DEF InitLoop
<1> QED
  BY <1>1, <1>3, <1>4, <1>5, <1>6 DEF Inv, InitLoop, ReadsInside

(* While the interval is not covered, every input of the set has a sample  *)
(* at the position that is read.                                           *)
LEMMA SetReadsInside ==
    ASSUME IntervalCovered, Inv, 2 * iteration < RequestedLength
    PROVE  /\ \A i \in Inputs : i \in set <=> iteration < Len(data[i])
           /\ \A i \in set : ~ ReadsOutside(i)
           /\ HonestCaller /\ HonestSet =>
                  \A i \in set : IsLast(i) <=> ~ (iteration + 1 < Len(data[i]))
           /\ ServerCaller /\ ServerSet => \A i \in set : ~ IsLast(i)
<1>1. /\ iteration \in Nat /\ RequestedLength \in Nat /\ High \in Nat
      /\ \A i \in Inputs : Len(data[i]) \in Nat
  BY LengthNat, MixerAssumption DEF Inv, Typed
<1>2. CASE HonestCaller /\ HonestSet
  <2>1. \A i \in Inputs : i \in set <=> iteration < Len(data[i])
    BY <1>2 DEF HonestSet
  <2>2. ASSUME NEW i \in set
        PROVE  /\ ~ ReadsOutside(i)
               /\ IsLast(i) <=> ~ (iteration + 1 < Len(data[i]))
    <3>1. i \in Inputs /\ iteration < Len(data[i]) /\ Len(data[i]) \in Nat
      BY <1>1, <1>2 DEF HonestSet
    <3>2. len[i] = 2 * Len(data[i])
      BY <1>2, <3>1 DEF HonestCaller
    <3> QED
      BY <1>1, <3>1, <3>2 DEF ReadsOutside, IsLast
  <2>3. ServerCaller /\ ServerSet => \A i \in set : ~ IsLast(i)
    <3>1. ASSUME ServerCaller, NEW i \in set PROVE FALSE
      <4>1. i \in Inputs /\ Len(data[i]) \in Nat /\ iteration < Len(data[i])
        BY <1>1, <1>2 DEF HonestSet
      <4>2. len[i] = 2 * Len(data[i]) /\ len[i] = 2 * (2 * Len(data[i]))
        BY <1>2, <3>1, <4>1 DEF HonestCaller, ServerCaller
      <4> QED
        BY <1>1, <4>1, <4>2
    <3> QED
      BY <3>1
  <2> QED
    BY <2>1, <2>2, <2>3
<1>3. CASE ServerCaller /\ ServerSet
  <2>1. ASSUME NEW i \in Inputs
        PROVE  iteration < Len(data[i]) /\ len[i] = 2 * (2 * Len(data[i]))
    <3>1. 2 * Len(data[i]) >= High - 1 /\ len[i] = 2 * (2 * Len(data[i]))
      BY <1>3 DEF ServerCaller
    <3> QED
      BY <1>1, <3>1 DEF IntervalCovered
  <2>2. \A i \in Inputs : i \in set <=> iteration < Len(data[i])
    BY <1>3, <2>1 DEF ServerSet
  <2>3. ASSUME NEW i \in set PROVE ~ ReadsOutside(i) /\ ~ IsLast(i)
    <3>1. i \in Inputs /\ Len(data[i]) \in Nat
      BY <1>1, <1>3 DEF ServerSet
    <3>2. iteration < Len(data[i]) /\ len[i] = 2 * (2 * Len(data[i]))
      BY <2>1, <3>1
    <3> QED
      BY <1>1, <3>1, <3>2 DEF ReadsOutside, IsLast
  <2>4. HonestCaller => \A i \in set : FALSE
    <3>1. ASSUME HonestCaller, NEW i \in set PROVE FALSE
      <4>1. i \in Inputs /\ Len(data[i]) \in Nat
        BY <1>1, <1>3 DEF ServerSet
      <4>2. len[i] = 2 * Len(data[i]) /\ len[i] = 2 * (2 * Len(data[i]))
            /\ iteration < Len(data[i])
        BY <2>1, <3>1, <4>1 DEF HonestCaller
      <4> QED
        BY <1>1, <4>1, <4>2
    <3> QED
      BY <3>1
  <2> QED
    BY <2>2, <2>3, <2>4
<1> QED
  BY <1>2, <1>3 DEF Inv

(* One iteration of the loop.                                              *)
LEMMA IterateInv == ASSUME IntervalCovered, Inv, Iterate PROVE Inv'
<1>1. /\ status = "running" /\ 2 * iteration < RequestedLength
      /\ data' = data /\ len' = len
  BY DEF Iterate
<1>2. /\ \A i \in Inputs : i \in set <=> iteration < Len(data[i])
      /\ \A i \in set : ~ ReadsOutside(i)
      /\ HonestCaller /\ HonestSet =>
             \A i \in set : IsLast(i) <=> ~ (iteration + 1 < Len(data[i]))
      /\ ServerCaller /\ ServerSet => \A i \in set : ~ IsLast(i)
  BY <1>1, SetReadsInside
<1>3. Take
  BY <1>2 DEF Iterate
<1>4. /\ iteration \in Nat /\ RequestedLength \in Nat
      /\ \A i \in Inputs : Len(data[i]) \in Nat
      /\ consumed \in [Inputs -> Nat]
      /\ iteration' = iteration + 1 /\ status' = "running"
  BY <1>1, <1>3, LengthNat DEF Inv, Typed, Take
<1>5. Typed'
  <2>1. consumed' \in [Inputs -> Nat]
    BY <1>3, <1>4 DEF Take
  <2>2. 2 * (iteration + 1) <= RequestedLength + 1
    BY <1>1, <1>4
  <2> QED
    BY <1>1, <1>4, <2>1, <2>2 DEF Inv, Typed
<1>6. ASSUME HonestCaller /\ HonestSet
      PROVE  HonestCaller' /\ HonestSet'
  <2>1. HonestCaller'
    BY <1>1, <1>6 DEF HonestCaller
  <2>2. \A i \in Inputs : i \in set' <=> iteration + 1 < Len(data[i])
    BY <1>2, <1>3, <1>4, <1>6 DEF Take
  <2>3. set' \subseteq Inputs
    BY <1>3, <1>6 DEF Take, HonestSet
  <2>4. HonestSet'
    BY <1>1, <1>4, <2>2, <2>3 DEF HonestSet
  <2> QED
    BY <2>1, <2>4
<1>7. ASSUME ServerCaller /\ ServerSet
      PROVE  ServerCaller' /\ ServerSet'
  <2>1. ServerCaller'
    BY <1>1, <1>7 DEF ServerCaller
  <2>2. set' = Inputs
    BY <1>2, <1>3, <1>7 DEF Take, ServerSet
  <2>3. \A i \in Inputs : iteration + 1 <= Len(data[i])
    BY <1>2, <1>4, <1>7 DEF ServerSet
  <2>4. ServerSet'
    BY <1>1, <1>4, <2>2, <2>3 DEF ServerSet
  <2> QED
    BY <2>1, <2>4
<1>8. ConsumedExact'
  <2>1. ASSUME NEW i \in Inputs
        PROVE  consumed'[i] = IF iteration + 1 <= Len(data[i])
                              THEN 2 * (iteration + 1) ELSE 2 * Len(data[i])
    <3>1. /\ consumed[i] = IF iteration <= Len(data[i]) THEN 2 * iteration
                                                      ELSE 2 * Len(data[i])
          /\ Len(data[i]) \in Nat
      BY <1>4 DEF Inv, ConsumedExact
    <3>2. CASE i \in set
      <4>1. iteration < Len(data[i])
        BY <1>2, <3>2
      <4>2. consumed'[i] = consumed[i] + 2
        BY <1>3, <3>2 DEF Take
      <4> QED
        BY <1>4, <3>1, <4>1, <4>2
    <3>3. CASE i \notin set
      <4>1. ~ (iteration < Len(data[i]))
        BY <1>2, <3>3
      <4>2. consumed'[i] = consumed[i]
        BY <1>3, <3>3 DEF Take
      <4> QED
        BY <1>4, <3>1, <4>1, <4>2
    <3> QED
      BY <3>2, <3>3
  <2> QED
    BY <1>1, <1>4, <2>1 DEF ConsumedExact
<1>9. out' = [k \in 1 .. iteration + 1 |-> Mixed(k)]
  <2> DEFINE S == {Mixed(k) : k \in 1 .. iteration + 1}
             done == [k \in 1 .. iteration |-> Mixed(k)]
             all  == [k \in 1 .. iteration + 1 |-> Mixed(k)]
  <2>1. set = {i \in Inputs : iteration + 1 <= Len(data[i])}
    <3>1. set \subseteq Inputs
      BY DEF Inv, HonestSet, ServerSet
    <3> QED
      BY <1>2, <1>4, <3>1
  <2>2. out' = Append(done, Mixed(iteration + 1))
    BY <1>3, <2>1 DEF Inv, Take, Mixed
  <2>3. /\ done \in Seq(S) /\ Len(done) = iteration
        /\ all \in Seq(S) /\ Len(all) = iteration + 1
        /\ Mixed(iteration + 1) \in S
    <3>1. iteration \in Nat /\ iteration + 1 \in Nat
          /\ iteration + 1 \in 1 .. iteration + 1
      BY <1>4
    <3>2. \A k \in 1 .. iteration + 1 : Mixed(k) \in S
      OBVIOUS
    <3>3. \A k \in 1 .. iteration : k \in 1 .. iteration + 1
      BY <3>1
    <3> HIDE DEF S
    <3>4. done \in Seq(S) /\ Len(done) = iteration
      BY <3>1, <3>2, <3>3
    <3>5. all \in Seq(S) /\ Len(all) = iteration + 1
      BY <3>1, <3>2
    <3> QED
      BY <3>1, <3>2, <3>4, <3>5
  <2>4. /\ \A k \in 1 .. iteration : done[k] = Mixed(k)
        /\ \A k \in 1 .. iteration + 1 : all[k] = Mixed(k)
    OBVIOUS
  <2> HIDE DEF S, done, all
  <2>5. /\ Append(done, Mixed(iteration + 1)) \in Seq(S)
        /\ Len(Append(done, Mixed(iteration + 1))) = iteration + 1
    BY <2>3, AppendProperties
  <2>6. /\ \A k \in 1 .. iteration :
               Append(done, Mixed(iteration + 1))[k] = done[k]
        /\ Append(done, Mixed(iteration + 1))[iteration + 1]
               = Mixed(iteration + 1)
    BY <2>3, AppendProperties
  <2>7. \A k \in 1 .. iteration + 1 :
            Append(done, Mixed(iteration + 1))[k] = all[k]
    <3>1. \A k \in 1 .. iteration + 1 : k \in 1 .. iteration \/ k = iteration + 1
      BY <1>4
    <3>2. iteration + 1 \in 1 .. iteration + 1
      BY <1>4
    <3> QED
      BY <2>4, <2>6, <3>1, <3>2
  <2>8. Append(done, Mixed(iteration + 1)) = all
    BY <2>3, <2>5, <2>7, SeqEqual
  <2> QED
    BY <2>2, <2>8 DEF all
<1>10. (out = [k \in 1 .. iteration |-> Mixed(k)])'
  BY <1>1, <1>4, <1>9 DEF Mixed
<1>11. ReadsInside' /\ (status' = "done" => 2 * iteration' >= RequestedLength)
  BY <1>4 DEF ReadsInside
<1> QED
  BY <1>5, <1>6, <1>7, <1>8, <1>10, <1>11 DEF Inv

(* Inv holds in every reachable state.                                     *)
THEOREM Invariance == ASSUME IntervalCovered PROVE Spec => []Inv
<1>1. Init => Inv
  BY InitInv
<1>2. Inv /\ [Next]_vars => Inv'
  <2> SUFFICES ASSUME Inv, [Next]_vars PROVE Inv'
    OBVIOUS
  <2>1. CASE Iterate
    BY <2>1, IterateInv
  <2>2. CASE Finish
    <3>1. 2 * iteration >= RequestedLength
      BY <2>2, LengthNat DEF Finish, Inv, Typed
    <3> QED
      BY <2>2, <3>1 DEF Finish, Inv, Typed, HonestCaller, HonestSet,
          ServerCaller, ServerSet, ConsumedExact, ReadsInside, Mixed
  <2>3. CASE UNCHANGED vars
    BY <2>3 DEF vars, Inv, Typed, HonestCaller, HonestSet,
        ServerCaller, ServerSet, ConsumedExact, ReadsInside, Mixed
  <2> QED
    BY <2>1, <2>2, <2>3 DEF Next
<1> QED
  BY <1>1, <1>2, PTL DEF Spec

-----------------------------------------------------------------------------
(* The mixer never reads outside a queue, whoever calls it, as long as the *)
(* queues of the server cover an interval.                                 *)
THEOREM NeverReadsOutside ==
    ASSUME IntervalCovered PROVE Spec => []ReadsInside
<1>1. Inv => ReadsInside
  BY DEF Inv
<1> QED
  BY <1>1, Invariance, PTL

(* What the server pops afterwards is what was mixed.                      *)
THEOREM ConsumedIsExact ==
    ASSUME IntervalCovered PROVE Spec => []ConsumedExact
<1>1. Inv => ConsumedExact
  BY DEF Inv
<1> QED
  BY <1>1, Invariance, PTL

(* The output is the clamped sum, sample by sample, over the interval.     *)
THEOREM OutputIsCorrect ==
    ASSUME IntervalCovered PROVE Spec => []OutputIsClampedSum
<1>1. Inv => OutputIsClampedSum
  <2> SUFFICES ASSUME Inv PROVE OutputIsClampedSum
    OBVIOUS
  <2>1. /\ iteration \in Nat /\ RequestedLength \in Nat
        /\ 2 * iteration <= RequestedLength + 1
        /\ out = [k \in 1 .. iteration |-> Mixed(k)]
        /\ status = "done" => 2 * iteration >= RequestedLength
    BY LengthNat DEF Inv, Typed
  <2>2. Len(out) = iteration
    BY <2>1
  <2>3. \A k \in 1 .. Len(out) : out[k] = Mixed(k)
    BY <2>1, <2>2
  <2>4. status = "done" => iteration = (RequestedLength + 1) \div 2
    BY <2>1
  <2> QED
    BY <2>2, <2>3, <2>4 DEF OutputIsClampedSum, Mixed
<1> QED
  BY <1>1, Invariance, PTL

(* The mixer never writes beyond the fifo_size_ bytes of write_buf_, as    *)
(* long as -H, which is at most -F, is above the interval.                 *)
THEOREM WritesStayInside ==
    ASSUME IntervalCovered PROVE Spec => []WritesInside
<1>1. Inv => WritesInside
  <2> SUFFICES ASSUME Inv PROVE WritesInside
    OBVIOUS
  <2>1. /\ iteration \in Nat /\ RequestedLength \in Nat
        /\ 2 * iteration <= RequestedLength + 1
        /\ out = [k \in 1 .. iteration |-> Mixed(k)]
    BY LengthNat DEF Inv, Typed
  <2>2. Len(out) = iteration
    BY <2>1
  <2>3. RequestedLength + 1 <= FifoSize
    BY <2>1, MixerAssumption DEF IntervalCovered
  <2> QED
    BY <2>1, <2>2, <2>3, MixerAssumption DEF WritesInside
<1> QED
  BY <1>1, Invariance, PTL

(* What is consumed of one queue of the server is what is consumed of all  *)
(* of them.  server::mixer counts on it: it pops inputs[0].consumed of     *)
(* every queue, since next is not incremented there (server.cc:535-542).   *)
THEOREM ServerConsumesAlike ==
    ASSUME IntervalCovered
    PROVE  Spec => [](ServerCaller =>
                          \A i \in Inputs : consumed[i] = 2 * iteration)
<1>1. Inv /\ ServerCaller => \A i \in Inputs : consumed[i] = 2 * iteration
  <2> SUFFICES ASSUME Inv, ServerCaller, NEW i \in Inputs
               PROVE  consumed[i] = 2 * iteration
    OBVIOUS
  <2>1. Len(data[i]) \in Nat
    BY LengthNat DEF Inv, Typed
  <2>2. ~ HonestCaller
    <3> SUFFICES ASSUME HonestCaller PROVE FALSE
      OBVIOUS
    <3>1. data[i] \in Seq(ShrtMin .. ShrtMax) /\ data[i] # << >>
      BY MixerAssumption DEF HonestCaller, Inv, Typed
    <3>2. Len(data[i]) > 0
      BY <3>1
    <3>3. len[i] = 2 * Len(data[i]) /\ len[i] = 2 * (2 * Len(data[i]))
      BY DEF HonestCaller, ServerCaller
    <3> QED
      BY <2>1, <3>2, <3>3
  <2>3. iteration <= Len(data[i])
    BY <2>2 DEF Inv, ServerSet
  <2> QED
    BY <2>3 DEF Inv, ConsumedExact
<1> QED
  BY <1>1, Invariance, PTL
=============================================================================
