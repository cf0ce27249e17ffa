---------------------------- MODULE ReportsProofs ----------------------------
(***************************************************************************)
(* Proofs about Reports, for a connection that holds any number of cells,  *)
(* reads of any size, reports of any length and any number of them.        *)
(***************************************************************************)
EXTENDS Reports, SequenceTheorems, WellFoundedInduction, TLAPS

(* Induction over the natural numbers, from the library's theorem that     *)
(* they have no infinite descent, and over the length of a sequence.       *)
LEMMA Induction ==
    ASSUME NEW B, 0 \in B, \A n \in Nat : n \in B => n + 1 \in B
    PROVE  Nat \subseteq B
<1> DEFINE T == {n \in Nat : n \notin B}
<1>1. SUFFICES ASSUME T # {} PROVE FALSE
  OBVIOUS
<1>2. PICK x \in T : \A y \in T : ~ (<< y, x >> \in OpToRel(<, Nat))
  BY <1>1, WFMin, NatLessThanWellFounded
<1>3. x - 1 \in Nat /\ x - 1 < x
  OBVIOUS
<1>4. x - 1 \notin T
  BY <1>2, <1>3 DEF OpToRel
<1> QED
  BY <1>3, <1>4

LEMMA SeqInduction ==
    ASSUME NEW S, NEW B, << >> \in B,
           \A s \in Seq(S), e \in S : s \in B => Append(s, e) \in B
    PROVE  Seq(S) \subseteq B
<1> DEFINE N == {n \in Nat : \A s \in Seq(S) : Len(s) = n => s \in B}
<1>1. 0 \in N
  OBVIOUS
<1>2. ASSUME NEW n \in Nat, n \in N PROVE n + 1 \in N
  <2>1. SUFFICES ASSUME NEW s \in Seq(S), Len(s) = n + 1 PROVE s \in B
    OBVIOUS
  <2>2. s # << >>
    BY <2>1
  <2>3. PICK r \in Seq(S), e \in S : s = Append(r, e)
    BY <2>2, SequenceEmptyOrAppend
  <2>4. Len(r) = n
    BY <2>1, <2>3, AppendProperties
  <2> QED
    BY <1>2, <2>3, <2>4
<1> HIDE DEF N
<1>3. Nat \subseteq N
  BY <1>1, <1>2, Induction
<1> QED
  BY <1>3, LenProperties DEF N

-----------------------------------------------------------------------------
(* One sequence after the other *)

LEMMA AtMostOne ==
    ASSUME NEW n
    PROVE  /\ n = 1 => n <= 1 /\ \A i \in 1 .. n : i = 1
           /\ n \in Nat \ {0} /\ n <= 1 => n = 1
           /\ n \in Nat \ {0} => 1 \in 1 .. n
OBVIOUS

LEMMA Singleton ==
    ASSUME NEW e
    PROVE  << e >> # << >> /\ Len(<< e >>) = 1 /\ << e >>[1] = e
<1>1. Len(<< e >>) = 1 /\ Len(<< >>) = 0 /\ << e >>[1] = e
  OBVIOUS
<1> QED
  BY <1>1

(* What FlattenSeq builds, the first i sequences at i.                     *)
Joined(seqs) == CHOOSE flatten : flatten = [i \in 1 .. Len(seqs) |->
                    IF i = 1 THEN seqs[i] ELSE flatten[i - 1] \o seqs[i]]

LEMMA FlattenJoins ==
    ASSUME NEW seqs
    PROVE  FlattenSeq(seqs) = IF Len(seqs) = 0 THEN seqs
                              ELSE Joined(seqs)[Len(seqs)]
BY DEF FlattenSeq, Joined

LEMMA JoinedIs ==
    ASSUME NEW S, NEW seqs \in Seq(Seq(S))
    PROVE  Joined(seqs) = [i \in 1 .. Len(seqs) |->
               IF i = 1 THEN seqs[i] ELSE Joined(seqs)[i - 1] \o seqs[i]]
<1> DEFINE Step(i, f) == IF i = 1 THEN seqs[i] ELSE f[i - 1] \o seqs[i]
           B == {n \in Nat : \E f : f = [i \in 1 .. n |-> Step(i, f)]}
<1>1. 0 \in B
  <2> DEFINE f == [i \in 1 .. 0 |-> << >>]
  <2>1. f = [i \in 1 .. 0 |-> Step(i, f)]
    OBVIOUS
  <2> QED
    BY <2>1
<1>2. ASSUME NEW n \in Nat, n \in B PROVE n + 1 \in B
  <2>1. PICK f : f = [i \in 1 .. n |-> Step(i, f)]
    BY <1>2
  <2> DEFINE g == [i \in 1 .. n + 1 |-> Step(i, f)]
  <2>2. \A i \in 1 .. n : f[i] = Step(i, f)
    BY <2>1
  <2>3. \A i \in 1 .. n : g[i] = f[i]
    BY <2>2
  <2>4. \A i \in 1 .. n + 1 : i = 1 \/ i - 1 \in 1 .. n
    OBVIOUS
  <2>5. \A i \in 1 .. n + 1 : Step(i, f) = Step(i, g)
    <3> HIDE DEF g
    <3> QED
      BY <2>3, <2>4
  <2>6. g = [i \in 1 .. n + 1 |-> Step(i, g)]
    BY <2>5
  <2> HIDE DEF g, Step
  <2> QED
    BY <2>6
<1> HIDE DEF B
<1>3. Nat \subseteq B
  BY <1>1, <1>2, Induction
<1>4. \E f : f = [i \in 1 .. Len(seqs) |-> Step(i, f)]
  BY <1>3, LenProperties DEF B
<1> QED
  BY <1>4 DEF Joined

LEMMA FlattenAppend ==
    ASSUME NEW S, NEW seqs \in Seq(Seq(S)), NEW s \in Seq(S)
    PROVE  FlattenSeq(Append(seqs, s)) = FlattenSeq(seqs) \o s
<1> DEFINE longer == Append(seqs, s)
<1>1. /\ longer \in Seq(Seq(S)) /\ Len(longer) = Len(seqs) + 1
      /\ \A i \in 1 .. Len(seqs) : longer[i] = seqs[i]
      /\ longer[Len(seqs) + 1] = s
      /\ Len(seqs) \in Nat
  BY AppendProperties, LenProperties
<1> HIDE DEF longer
<1>2. PICK J : J = Joined(longer)
  OBVIOUS
<1>3. PICK K : K = Joined(seqs)
  OBVIOUS
<1>4. \A i \in 1 .. Len(seqs) + 1 :
          J[i] = IF i = 1 THEN longer[i] ELSE J[i - 1] \o longer[i]
  <2>1. J = [i \in 1 .. Len(longer) |->
                IF i = 1 THEN longer[i] ELSE J[i - 1] \o longer[i]]
    BY <1>1, <1>2, JoinedIs
  <2> QED
    BY <1>1, <2>1
<1>5. \A i \in 1 .. Len(seqs) :
          K[i] = IF i = 1 THEN seqs[i] ELSE K[i - 1] \o seqs[i]
  <2>1. K = [i \in 1 .. Len(seqs) |->
                IF i = 1 THEN seqs[i] ELSE K[i - 1] \o seqs[i]]
    BY <1>3, JoinedIs
  <2> QED
    BY <2>1
<1>6. \A i \in 1 .. Len(seqs) : J[i] = K[i]
  <2> DEFINE B == {n \in Nat : n + 1 \in 1 .. Len(seqs) => J[n + 1] = K[n + 1]}
  <2>1. 0 \in B
    BY <1>1, <1>4, <1>5
  <2>2. ASSUME NEW n \in Nat, n \in B PROVE n + 1 \in B
    <3>1. SUFFICES ASSUME (n + 1) + 1 \in 1 .. Len(seqs)
                   PROVE  J[(n + 1) + 1] = K[(n + 1) + 1]
      OBVIOUS
    <3>2. PICK k : k = (n + 1) + 1
      OBVIOUS
    <3>3. /\ k \in 1 .. Len(seqs) /\ k \in 1 .. Len(seqs) + 1 /\ k # 1
          /\ k - 1 = n + 1 /\ n + 1 \in 1 .. Len(seqs)
      <4>1. Len(seqs) \in Nat
        BY <1>1
      <4> QED
        BY <3>1, <3>2, <4>1
    <3>4. J[n + 1] = K[n + 1]
      BY <2>2, <3>3
    <3>5. J[k] = J[k - 1] \o longer[k] /\ K[k] = K[k - 1] \o seqs[k]
      BY <1>4, <1>5, <3>3
    <3>6. longer[k] = seqs[k]
      BY <1>1, <3>3
    <3> QED
      BY <3>2, <3>3, <3>4, <3>5, <3>6
  <2> HIDE DEF B
  <2>3. Nat \subseteq B
    BY <2>1, <2>2, Induction
  <2>4. ASSUME NEW i \in 1 .. Len(seqs) PROVE J[i] = K[i]
    <3>1. i - 1 \in B /\ (i - 1) + 1 = i
      BY <1>1, <2>3
    <3> QED
      BY <3>1 DEF B
  <2> QED
    BY <2>4
<1>7. FlattenSeq(longer) = J[Len(seqs) + 1]
  BY <1>1, <1>2, FlattenJoins
<1>8. CASE seqs = << >>
  BY <1>1, <1>4, <1>7, <1>8, FlattenJoins, ConcatEmptySeq DEF longer
<1>9. CASE seqs # << >>
  <2>1. Len(seqs) # 0
    BY <1>9
  <2>2. FlattenSeq(seqs) = K[Len(seqs)]
    BY <1>3, <2>1, FlattenJoins
  <2>3. /\ Len(seqs) + 1 \in 1 .. Len(seqs) + 1 /\ Len(seqs) + 1 # 1
        /\ (Len(seqs) + 1) - 1 = Len(seqs) /\ Len(seqs) \in 1 .. Len(seqs)
    BY <1>1, <2>1
  <2>4. J[Len(seqs) + 1] = J[Len(seqs)] \o s
    BY <1>1, <1>4, <2>3
  <2> QED
    BY <1>6, <1>7, <2>2, <2>3, <2>4 DEF longer
<1> QED
  BY <1>8, <1>9

LEMMA FlattenEmpty == FlattenSeq(<< >>) = << >>
BY FlattenJoins

LEMMA FlattenType ==
    ASSUME NEW S, NEW seqs \in Seq(Seq(S))
    PROVE  FlattenSeq(seqs) \in Seq(S)
<1> DEFINE B == {q \in Seq(Seq(S)) : FlattenSeq(q) \in Seq(S)}
<1>1. << >> \in B
  BY FlattenEmpty, EmptySeq
<1>2. ASSUME NEW q \in Seq(Seq(S)), NEW s \in Seq(S), q \in B
      PROVE  Append(q, s) \in B
  BY <1>2, FlattenAppend, ConcatProperties, AppendProperties
<1> HIDE DEF B
<1>3. Seq(Seq(S)) \subseteq B
  BY <1>1, <1>2, SeqInduction
<1> QED
  BY <1>3 DEF B

LEMMA FlattenOne ==
    ASSUME NEW S, NEW s \in Seq(S)
    PROVE  FlattenSeq(<< s >>) = s
<1>1. << >> \in Seq(Seq(S)) /\ Append(<< >>, s) = << s >>
  OBVIOUS
<1>2. FlattenSeq(Append(<< >>, s)) = FlattenSeq(<< >>) \o s
  BY <1>1, FlattenAppend
<1> QED
  BY <1>1, <1>2, FlattenEmpty, ConcatEmptySeq

LEMMA AppendToConcat ==
    ASSUME NEW S, NEW s \in Seq(S), NEW t \in Seq(S), NEW e \in S
    PROVE  s \o Append(t, e) = Append(s \o t, e)
<1>1. << e >> \in Seq(S) /\ s \o t \in Seq(S)
  BY ConcatProperties
<1> QED
  BY <1>1, AppendIsConcat, ConcatAssociative

(* Concatenation may be grouped either way; stated by name, so that it can *)
(* be used for three given sequences only.                                 *)
Regroups(s, t, u) == (s \o t) \o u = s \o (t \o u)

LEMMA Regrouped ==
    ASSUME NEW S, NEW s \in Seq(S), NEW t \in Seq(S), NEW u \in Seq(S)
    PROVE  Regroups(s, t, u)
BY ConcatAssociative DEF Regroups

LEMMA FunctionIsSeq ==
    ASSUME NEW S, NEW n \in Nat, NEW f \in [1 .. n -> S]
    PROVE  f \in Seq(S) /\ Len(f) = n
OBVIOUS

LEMMA FlattenConcat ==
    ASSUME NEW S, NEW p \in Seq(Seq(S)), NEW q \in Seq(Seq(S))
    PROVE  FlattenSeq(p \o q) = FlattenSeq(p) \o FlattenSeq(q)
<1> DEFINE B == {r \in Seq(Seq(S)) :
                     FlattenSeq(p \o r) = FlattenSeq(p) \o FlattenSeq(r)}
<1>1. << >> \in B
  BY FlattenEmpty, FlattenType, ConcatEmptySeq
<1>2. ASSUME NEW r \in Seq(Seq(S)), NEW s \in Seq(S), r \in B
      PROVE  Append(r, s) \in B
  <2>1. p \o r \in Seq(Seq(S)) /\ Append(r, s) \in Seq(Seq(S))
    BY ConcatProperties, AppendProperties
  <2>2. FlattenSeq(p \o Append(r, s)) = FlattenSeq(p \o r) \o s
    <3>1. p \o Append(r, s) = Append(p \o r, s)
      BY AppendToConcat
    <3>2. FlattenSeq(Append(p \o r, s)) = FlattenSeq(p \o r) \o s
      BY <2>1, FlattenAppend
    <3> QED
      BY <3>1, <3>2
  <2>3. FlattenSeq(Append(r, s)) = FlattenSeq(r) \o s
    BY FlattenAppend
  <2>4. FlattenSeq(p) \in Seq(S) /\ FlattenSeq(r) \in Seq(S)
    BY FlattenType
  <2>5. FlattenSeq(p) \o (FlattenSeq(r) \o s) = (FlattenSeq(p) \o FlattenSeq(r)) \o s
    <3>1. PICK a : a = FlattenSeq(p)
      OBVIOUS
    <3>2. PICK b : b = FlattenSeq(r)
      OBVIOUS
    <3>3. a \in Seq(S) /\ b \in Seq(S)
      BY <2>4, <3>1, <3>2
    <3>4. Regroups(a, b, s)
      BY <3>3, Regrouped
    <3> QED
      BY <3>1, <3>2, <3>4 DEF Regroups
  <2> QED
    BY <1>2, <2>1, <2>2, <2>3, <2>5
<1> HIDE DEF B
<1>3. Seq(Seq(S)) \subseteq B
  BY <1>1, <1>2, SeqInduction
<1> QED
  BY <1>3 DEF B

-----------------------------------------------------------------------------
(* The texts of a stretch of the stream *)

Cell == [kind : {"newline", "id", "text", "garbage"}, report : Nat, at : Nat]

LEMMA CellsAre ==
    /\ Newline \in Cell /\ Id \in Cell /\ Garbage \in Cell
    /\ Newline # Id /\ Garbage # Id /\ Garbage # Newline
    /\ \A r, l \in Nat : Text(r, l) \in Cell /\ Text(r, l) # Id
    /\ TextOf(Newline) = << >> /\ TextOf(Id) = << >>
    /\ \A r, l \in Nat : TextOf(Text(r, l)) = << Text(r, l) >>
BY DEF Cell, Newline, Id, Garbage, Text, TextOf

LEMMA CellsJoined ==
    ASSUME NEW s \in Seq(Cell), NEW t \in Seq(Cell)
    PROVE  /\ s \o t \in Seq(Cell) /\ Len(s \o t) = Len(s) + Len(t)
           /\ Len(s) \in Nat /\ Len(t) \in Nat
BY ConcatProperties, LenProperties

LEMMA CellsAppended ==
    ASSUME NEW s \in Seq(Cell), NEW c \in Cell
    PROVE  /\ Append(s, c) \in Seq(Cell)
           /\ Len(Append(s, c)) = Len(s) + 1
           /\ \A i \in 1 .. Len(s) : Append(s, c)[i] = s[i]
           /\ Append(s, c)[Len(s) + 1] = c
BY AppendProperties

LEMMA CellsConcat ==
    ASSUME NEW s \in Seq(Cell), NEW t \in Seq(Cell), NEW u \in Seq(Cell)
    PROVE  (s \o t) \o u = s \o (t \o u)
BY ConcatAssociative

LEMMA CellsRange ==
    ASSUME NEW s \in Seq(Cell), NEW t \in Seq(Cell)
    PROVE  Range(s \o t) = Range(s) \cup Range(t)
BY RangeConcatenation

LEMMA CellsFront ==
    ASSUME NEW s \in Seq(Cell), NEW t \in Seq(Cell), NEW m \in 1 .. Len(s)
    PROVE  SubSeq(s \o t, 1, m) = SubSeq(s, 1, m)
<1>1. 1 \in 1 .. Len(s)
  BY LenProperties
<1> QED
  BY <1>1, SubSeqOfConcat1

LEMMA CellsFirst ==
    ASSUME NEW s \in Seq(Cell), NEW t \in Seq(Cell), Len(s) \in Nat \ {0}
    PROVE  s \o t # << >> /\ (s \o t)[1] = s[1]
<1>1. /\ Len(s \o t) = Len(s) + Len(t) /\ Len(s) \in Nat /\ Len(t) \in Nat
      /\ \A i \in 1 .. Len(s) + Len(t) :
             (s \o t)[i] = IF i <= Len(s) THEN s[i] ELSE t[i - Len(s)]
  BY ConcatProperties, LenProperties
<1>2. 1 \in 1 .. Len(s) + Len(t) /\ 1 <= Len(s) /\ Len(s) + Len(t) # 0
  BY <1>1
<1> QED
  BY <1>1, <1>2

LEMMA TextOfType ==
    ASSUME NEW c \in Cell
    PROVE  TextOf(c) \in Seq(Cell)
BY DEF TextOf

LEMMA TextsEmpty == Texts(<< >>) = << >>
<1>1. [i \in DOMAIN << >> |-> TextOf(<< >>[i])] = << >>
  OBVIOUS
<1> QED
  BY <1>1, FlattenEmpty DEF Texts

(* What TLA+ calls map, over a sequence.                                   *)
LEMMA Mapped ==
    ASSUME NEW s \in Seq(Cell)
    PROVE  [i \in DOMAIN s |-> TextOf(s[i])] \in Seq(Seq(Cell))
<1>1. s \in [1 .. Len(s) -> Cell] /\ Len(s) \in Nat /\ DOMAIN s = 1 .. Len(s)
  BY LenProperties
<1>2. \A i \in 1 .. Len(s) : TextOf(s[i]) \in Seq(Cell)
  BY <1>1, TextOfType
<1> QED
  BY <1>1, <1>2

LEMMA TextsType ==
    ASSUME NEW s \in Seq(Cell)
    PROVE  Texts(s) \in Seq(Cell)
BY Mapped, FlattenType DEF Texts

LEMMA TextsOne ==
    ASSUME NEW c \in Cell
    PROVE  Texts(<< c >>) = TextOf(c)
<1>1. [i \in DOMAIN << c >> |-> TextOf(<< c >>[i])] = << TextOf(c) >>
  OBVIOUS
<1> QED
  BY <1>1, TextOfType, FlattenOne DEF Texts

LEMMA TextsConcat ==
    ASSUME NEW s \in Seq(Cell), NEW t \in Seq(Cell)
    PROVE  Texts(s \o t) = Texts(s) \o Texts(t)
<1> DEFINE Map(q) == [i \in DOMAIN q |-> TextOf(q[i])]
<1>1. /\ s \o t \in Seq(Cell) /\ Len(s \o t) = Len(s) + Len(t)
      /\ Len(s) \in Nat /\ Len(t) \in Nat
      /\ \A i \in 1 .. Len(s) + Len(t) :
             (s \o t)[i] = IF i <= Len(s) THEN s[i] ELSE t[i - Len(s)]
  BY ConcatProperties, LenProperties
<1>2. \A q \in Seq(Cell) : /\ Map(q) \in Seq(Seq(Cell)) /\ Len(Map(q)) = Len(q)
                           /\ \A i \in 1 .. Len(q) : Map(q)[i] = TextOf(q[i])
  <2>1. TAKE q \in Seq(Cell)
  <2>2. Map(q) \in Seq(Seq(Cell))
    BY Mapped
  <2>3. DOMAIN q = 1 .. Len(q) /\ DOMAIN Map(q) = DOMAIN q /\ Len(q) \in Nat
    BY LenProperties
  <2>4. Len(Map(q)) = Len(q)
    BY <2>2, <2>3, LenProperties
  <2> QED
    BY <2>2, <2>3, <2>4
<1> HIDE DEF Map
<1>3. /\ Map(s) \o Map(t) \in Seq(Seq(Cell))
      /\ Len(Map(s) \o Map(t)) = Len(s) + Len(t)
      /\ \A i \in 1 .. Len(s) + Len(t) : (Map(s) \o Map(t))[i] =
             IF i <= Len(s) THEN Map(s)[i] ELSE Map(t)[i - Len(s)]
  <2>1. Map(s) \in Seq(Seq(Cell)) /\ Map(t) \in Seq(Seq(Cell))
    BY <1>2
  <2>2. Len(Map(s)) = Len(s) /\ Len(Map(t)) = Len(t)
    BY <1>2
  <2>3. /\ Map(s) \o Map(t) \in Seq(Seq(Cell))
        /\ Len(Map(s) \o Map(t)) = Len(Map(s)) + Len(Map(t))
        /\ \A i \in 1 .. Len(Map(s)) + Len(Map(t)) : (Map(s) \o Map(t))[i] =
               IF i <= Len(Map(s)) THEN Map(s)[i] ELSE Map(t)[i - Len(Map(s))]
    BY <2>1, ConcatProperties
  <2> QED
    BY <2>2, <2>3
<1>4. ASSUME NEW i \in 1 .. Len(s) + Len(t)
      PROVE  Map(s \o t)[i] = (Map(s) \o Map(t))[i]
  <2>1. Map(s \o t)[i] = TextOf((s \o t)[i])
    BY <1>1, <1>2
  <2>2. CASE i <= Len(s)
    BY <1>1, <1>2, <1>3, <2>1, <2>2
  <2>3. CASE ~ (i <= Len(s))
    <3>1. i - Len(s) \in 1 .. Len(t)
      BY <1>1, <2>3
    <3> QED
      BY <1>1, <1>2, <1>3, <2>1, <2>3, <3>1
  <2> QED
    BY <2>2, <2>3
<1>5. Map(s \o t) = Map(s) \o Map(t)
  <2>1. Map(s \o t) \in Seq(Seq(Cell)) /\ Len(Map(s \o t)) = Len(s) + Len(t)
    BY <1>1, <1>2
  <2> QED
    BY <1>3, <1>4, <2>1, SeqEqual
<1>6. Texts(s \o t) = FlattenSeq(Map(s \o t)) /\ Texts(s) = FlattenSeq(Map(s))
      /\ Texts(t) = FlattenSeq(Map(t))
  BY DEF Texts, Map
<1>7. FlattenSeq(Map(s) \o Map(t)) = FlattenSeq(Map(s)) \o FlattenSeq(Map(t))
  BY <1>2, FlattenConcat
<1> QED
  BY <1>5, <1>6, <1>7

LEMMA TextsAppend ==
    ASSUME NEW s \in Seq(Cell), NEW c \in Cell
    PROVE  Texts(Append(s, c)) = Texts(s) \o TextOf(c)
<1>1. << c >> \in Seq(Cell) /\ Append(s, c) = s \o << c >>
  BY AppendIsConcat
<1>2. Texts(s \o << c >>) = Texts(s) \o Texts(<< c >>)
  BY <1>1, TextsConcat
<1> QED
  BY <1>1, <1>2, TextsOne

LEMMA TextsOfId == Texts(<< Id, Newline >>) = << >>
<1>1. << Id >> \in Seq(Cell) /\ Append(<< Id >>, Newline) = << Id, Newline >>
  <2>1. /\ << Id >> \in Seq(Cell) /\ Len(<< Id >>) = 1 /\ << Id >>[1] = Id
        /\ << Id, Newline >> \in Seq(Cell) /\ Len(<< Id, Newline >>) = 2
        /\ << Id, Newline >>[1] = Id /\ << Id, Newline >>[2] = Newline
    BY CellsAre
  <2>2. PICK s : s = << Id >>
    OBVIOUS
  <2>3. PICK t : t = << Id, Newline >>
    OBVIOUS
  <2>4. /\ Append(s, Newline) \in Seq(Cell) /\ Len(Append(s, Newline)) = 2
        /\ Append(s, Newline)[1] = Id /\ Append(s, Newline)[2] = Newline
    <3>1. s \in Seq(Cell) /\ Len(s) = 1 /\ s[1] = Id /\ Newline \in Cell
      BY <2>1, <2>2, CellsAre
    <3>2. /\ Append(s, Newline) \in Seq(Cell)
          /\ Len(Append(s, Newline)) = Len(s) + 1
          /\ \A i \in 1 .. Len(s) : Append(s, Newline)[i] = s[i]
          /\ Append(s, Newline)[Len(s) + 1] = Newline
      BY <3>1, CellsAppended
    <3> QED
      BY <3>1, <3>2
  <2>5. \A i \in 1 .. 2 : i = 1 \/ i = 2
    OBVIOUS
  <2>6. Append(s, Newline) = t
    BY <2>1, <2>3, <2>4, <2>5, SeqEqual
  <2> QED
    BY <2>1, <2>2, <2>3, <2>6
<1>2. Texts(<< Id >>) = << >>
  BY TextsOne, CellsAre
<1>3. Texts(Append(<< Id >>, Newline)) = Texts(<< Id >>) \o TextOf(Newline)
  BY <1>1, CellsAre, TextsAppend
<1>4. << >> \o << >> = << >>
  BY EmptySeq, ConcatEmptySeq
<1> QED
  BY <1>1, <1>2, <1>3, <1>4, CellsAre

(* The texts of a sequence are among its cells.                            *)
LEMMA TextsAmong ==
    ASSUME NEW s \in Seq(Cell)
    PROVE  \A t \in Range(Texts(s)) : t \in Range(s) /\ TextOf(t) = << t >>
<1> DEFINE B == {q \in Seq(Cell) :
                     \A t \in Range(Texts(q)) : t \in Range(q) /\ TextOf(t) = << t >>}
<1>1. << >> \in B
  BY TextsEmpty, EmptySeq DEF Range
<1>2. ASSUME NEW q \in Seq(Cell), NEW c \in Cell, q \in B
      PROVE  Append(q, c) \in B
  <2>1. << c >> \in Seq(Cell) /\ Append(q, c) \in Seq(Cell)
    BY AppendProperties
  <2>2. Texts(Append(q, c)) = Texts(q) \o TextOf(c)
    BY TextsAppend
  <2>3. Range(Texts(Append(q, c))) = Range(Texts(q)) \cup Range(TextOf(c))
    <3>1. Texts(q) \in Seq(Cell) /\ TextOf(c) \in Seq(Cell)
      BY TextsType, TextOfType
    <3> QED
      BY <2>2, <3>1, CellsRange
  <2>4. Range(Append(q, c)) = Range(q) \cup Range(<< c >>)
    <3>1. Append(q, c) = q \o << c >>
      BY AppendIsConcat
    <3> QED
      BY <2>1, <3>1, CellsRange
  <2>5. \A t \in Range(TextOf(c)) : t \in Range(<< c >>) /\ TextOf(t) = << t >>
    BY DEF TextOf, Range
  <2> QED
    BY <1>2, <2>1, <2>3, <2>4, <2>5
<1> HIDE DEF B
<1>3. Seq(Cell) \subseteq B
  BY <1>1, <1>2, SeqInduction
<1> QED
  BY <1>3 DEF B

-----------------------------------------------------------------------------
(* Texts in the order the reports give them *)

Sorted(s) == \A i, j \in 1 .. Len(s) : i < j => Before(s[i], s[j])

LEMMA SortedParts ==
    ASSUME NEW s \in Seq(Cell), NEW t \in Seq(Cell), Sorted(s \o t)
    PROVE  /\ Sorted(s) /\ Sorted(t)
           /\ \A x \in Range(s), y \in Range(t) : Before(x, y)
<1>1. /\ Len(s \o t) = Len(s) + Len(t) /\ Len(s) \in Nat /\ Len(t) \in Nat
      /\ \A i \in 1 .. Len(s) + Len(t) :
             (s \o t)[i] = IF i <= Len(s) THEN s[i] ELSE t[i - Len(s)]
  BY ConcatProperties, LenProperties
<1>2. \A i \in 1 .. Len(s) : (s \o t)[i] = s[i] /\ i \in 1 .. Len(s \o t)
  BY <1>1
<1>3. \A i \in 1 .. Len(t) : /\ (s \o t)[Len(s) + i] = t[i]
                             /\ Len(s) + i \in 1 .. Len(s \o t)
  <2>1. TAKE i \in 1 .. Len(t)
  <2>2. Len(s) + i \in 1 .. Len(s) + Len(t) /\ ~ (Len(s) + i <= Len(s))
        /\ (Len(s) + i) - Len(s) = i
    BY <1>1
  <2> QED
    BY <1>1, <2>2
<1>4. Sorted(s)
  BY <1>2 DEF Sorted
<1>5. Sorted(t)
  <2>1. SUFFICES ASSUME NEW i \in 1 .. Len(t), NEW j \in 1 .. Len(t), i < j
                 PROVE  Before(t[i], t[j])
    BY DEF Sorted
  <2>2. Len(s) + i < Len(s) + j
    BY <1>1, <2>1
  <2> QED
    BY <1>3, <2>2 DEF Sorted
<1>6. ASSUME NEW x \in Range(s), NEW y \in Range(t) PROVE Before(x, y)
  <2>1. PICK i \in 1 .. Len(s) : x = s[i]
    BY RangeEquality
  <2>2. PICK j \in 1 .. Len(t) : y = t[j]
    BY RangeEquality
  <2>3. i < Len(s) + j
    BY <1>1
  <2> QED
    BY <1>2, <1>3, <2>1, <2>2, <2>3 DEF Sorted
<1> QED
  BY <1>4, <1>5, <1>6

LEMMA SortedConcat ==
    ASSUME NEW s \in Seq(Cell), NEW t \in Seq(Cell), Sorted(s), Sorted(t),
           \A x \in Range(s), y \in Range(t) : Before(x, y)
    PROVE  Sorted(s \o t)
<1>1. /\ Len(s \o t) = Len(s) + Len(t) /\ Len(s) \in Nat /\ Len(t) \in Nat
      /\ \A i \in 1 .. Len(s) + Len(t) :
             (s \o t)[i] = IF i <= Len(s) THEN s[i] ELSE t[i - Len(s)]
  BY ConcatProperties, LenProperties
<1>2. SUFFICES ASSUME NEW i \in 1 .. Len(s) + Len(t),
                      NEW j \in 1 .. Len(s) + Len(t), i < j
               PROVE  Before((s \o t)[i], (s \o t)[j])
  BY <1>1 DEF Sorted
<1>3. CASE j <= Len(s)
  <2>1. i \in 1 .. Len(s) /\ j \in 1 .. Len(s) /\ i <= Len(s)
    BY <1>1, <1>2, <1>3
  <2> QED
    BY <1>1, <1>2, <1>3, <2>1 DEF Sorted
<1>4. CASE i <= Len(s) /\ ~ (j <= Len(s))
  <2>1. i \in 1 .. Len(s) /\ j - Len(s) \in 1 .. Len(t)
    BY <1>1, <1>4
  <2>2. s[i] \in Range(s) /\ t[j - Len(s)] \in Range(t)
    BY <2>1, RangeEquality
  <2> QED
    BY <1>1, <1>4, <2>2
<1>5. CASE ~ (i <= Len(s))
  <2>1. /\ i - Len(s) \in 1 .. Len(t) /\ j - Len(s) \in 1 .. Len(t)
        /\ i - Len(s) < j - Len(s) /\ ~ (j <= Len(s))
    BY <1>1, <1>2, <1>5
  <2> QED
    BY <1>1, <1>5, <2>1 DEF Sorted
<1> QED
  BY <1>3, <1>4, <1>5

(* Losing a stretch keeps the order.                                       *)
LEMMA SortedWithout ==
    ASSUME NEW s \in Seq(Cell), NEW t \in Seq(Cell), NEW u \in Seq(Cell),
           Sorted(s \o (t \o u))
    PROVE  Sorted(s \o u)
<1>1. t \o u \in Seq(Cell)
  BY ConcatProperties
<1>2. /\ Sorted(s) /\ Sorted(t \o u)
      /\ \A x \in Range(s), y \in Range(t \o u) : Before(x, y)
  BY <1>1, SortedParts
<1>3. Sorted(u)
  BY <1>2, SortedParts
<1>4. Range(u) \subseteq Range(t \o u)
  BY RangeConcatenation
<1> QED
  BY <1>2, <1>3, <1>4, SortedConcat

(* The texts of cells that come in order are in order.                     *)
LEMMA TextsSorted ==
    ASSUME NEW s \in Seq(Cell),
           \A i, j \in 1 .. Len(s) : /\ i < j
                                     /\ TextOf(s[i]) # << >> /\ TextOf(s[j]) # << >>
                                     => Before(s[i], s[j])
    PROVE  Sorted(Texts(s))
<1> DEFINE Rising(q) == \A i, j \in 1 .. Len(q) :
                            /\ i < j /\ TextOf(q[i]) # << >> /\ TextOf(q[j]) # << >>
                            => Before(q[i], q[j])
           B == {q \in Seq(Cell) : Rising(q) => Sorted(Texts(q))}
<1>1. << >> \in B
  BY TextsEmpty, EmptySeq DEF Sorted
<1>2. ASSUME NEW q \in Seq(Cell), NEW c \in Cell, q \in B
      PROVE  Append(q, c) \in B
  <2>1. /\ Append(q, c) \in Seq(Cell) /\ Len(Append(q, c)) = Len(q) + 1
        /\ \A i \in 1 .. Len(q) : Append(q, c)[i] = q[i]
        /\ Append(q, c)[Len(q) + 1] = c /\ Len(q) \in Nat
    BY AppendProperties, LenProperties
  <2>2. SUFFICES ASSUME Rising(Append(q, c)) PROVE Sorted(Texts(Append(q, c)))
    BY <2>1
  <2>3. Rising(q)
    BY <2>1, <2>2
  <2>4. Sorted(Texts(q))
    BY <1>2, <2>3
  <2>5. Texts(Append(q, c)) = Texts(q) \o TextOf(c)
    BY TextsAppend
  <2>6. Texts(q) \in Seq(Cell) /\ TextOf(c) \in Seq(Cell)
    BY TextsType, TextOfType
  <2>7. CASE TextOf(c) = << >>
    BY <2>4, <2>5, <2>6, <2>7, ConcatEmptySeq
  <2>8. CASE TextOf(c) # << >>
    <3>1. TextOf(c) = << c >>
      BY <2>8 DEF TextOf
    <3>2. Sorted(<< c >>)
      BY DEF Sorted
    <3>3. ASSUME NEW x \in Range(Texts(q)), NEW y \in Range(<< c >>)
          PROVE  Before(x, y)
      <4>1. x \in Range(q) /\ TextOf(x) = << x >> /\ y = c
        BY TextsAmong DEF Range
      <4>2. PICK i \in 1 .. Len(q) : x = q[i]
        BY <4>1, RangeEquality
      <4>3. i < Len(q) + 1 /\ i \in 1 .. Len(q) + 1 /\ Len(q) + 1 \in 1 .. Len(q) + 1
        BY <2>1
      <4> QED
        BY <2>1, <2>2, <2>8, <4>1, <4>2, <4>3
    <3> QED
      BY <2>4, <2>5, <2>6, <3>1, <3>2, <3>3, SortedConcat
  <2> QED
    BY <2>7, <2>8
<1> HIDE DEF B
<1>3. Seq(Cell) \subseteq B
  BY <1>1, <1>2, SeqInduction
<1> QED
  BY <1>3 DEF B

-----------------------------------------------------------------------------
(* Texts behind what they stand behind in their reports *)

Placed(rs, cells) ==
    \A k \in 2 .. Len(cells) : TextOf(cells[k]) # << >> =>
        /\ cells[k].report \in 1 .. Len(rs)
        /\ cells[k].at \in 2 .. Len(rs[cells[k].report])
        /\ cells[k - 1] = rs[cells[k].report][cells[k].at - 1]

LEMMA PlacedParts ==
    ASSUME NEW rs, NEW s \in Seq(Cell), NEW t \in Seq(Cell), Placed(rs, s \o t)
    PROVE  Placed(rs, s) /\ Placed(rs, t)
<1>1. /\ Len(s \o t) = Len(s) + Len(t) /\ Len(s) \in Nat /\ Len(t) \in Nat
      /\ \A i \in 1 .. Len(s) + Len(t) :
             (s \o t)[i] = IF i <= Len(s) THEN s[i] ELSE t[i - Len(s)]
  BY ConcatProperties, LenProperties
<1>2. PICK c : c = s \o t
  OBVIOUS
<1>3. ASSUME NEW k \in 2 .. Len(s)
      PROVE  k \in 2 .. Len(c) /\ c[k] = s[k] /\ c[k - 1] = s[k - 1]
  <2>1. /\ k \in 1 .. Len(s) + Len(t) /\ k <= Len(s) /\ k \in 2 .. Len(s) + Len(t)
        /\ k - 1 \in 1 .. Len(s) + Len(t) /\ k - 1 <= Len(s)
    BY <1>1
  <2> QED
    BY <1>1, <1>2, <2>1
<1>4. ASSUME NEW k \in 2 .. Len(t)
      PROVE  /\ Len(s) + k \in 2 .. Len(c) /\ c[Len(s) + k] = t[k]
             /\ c[(Len(s) + k) - 1] = t[k - 1]
  <2>1. PICK j : j = Len(s) + k
    OBVIOUS
  <2>2. /\ j \in 1 .. Len(s) + Len(t) /\ ~ (j <= Len(s)) /\ j - Len(s) = k
        /\ j - 1 \in 1 .. Len(s) + Len(t) /\ ~ (j - 1 <= Len(s))
        /\ (j - 1) - Len(s) = k - 1 /\ j \in 2 .. Len(s) + Len(t)
    BY <1>1, <2>1
  <2> QED
    BY <1>1, <1>2, <2>1, <2>2
<1>5. Placed(rs, s)
  BY <1>2, <1>3 DEF Placed
<1>6. Placed(rs, t)
  <2>1. SUFFICES ASSUME NEW k \in 2 .. Len(t), TextOf(t[k]) # << >>
                 PROVE  /\ t[k].report \in 1 .. Len(rs)
                        /\ t[k].at \in 2 .. Len(rs[t[k].report])
                        /\ t[k - 1] = rs[t[k].report][t[k].at - 1]
    BY DEF Placed
  <2>2. PICK j : j = Len(s) + k
    OBVIOUS
  <2>3. j \in 2 .. Len(c) /\ c[j] = t[k] /\ c[j - 1] = t[k - 1]
    BY <1>4, <2>2
  <2>4. TextOf(c[j]) # << >>
    BY <2>1, <2>3
  <2>5. /\ c[j].report \in 1 .. Len(rs)
        /\ c[j].at \in 2 .. Len(rs[c[j].report])
        /\ c[j - 1] = rs[c[j].report][c[j].at - 1]
    BY <1>2, <2>3, <2>4 DEF Placed
  <2> QED
    BY <2>3, <2>5
<1> QED
  BY <1>5, <1>6

LEMMA PlacedConcat ==
    ASSUME NEW rs, NEW s \in Seq(Cell), NEW t \in Seq(Cell),
           Placed(rs, s), Placed(rs, t), t = << >> \/ TextOf(t[1]) = << >>
    PROVE  Placed(rs, s \o t)
<1>1. /\ Len(s \o t) = Len(s) + Len(t) /\ Len(s) \in Nat /\ Len(t) \in Nat
      /\ \A i \in 1 .. Len(s) + Len(t) :
             (s \o t)[i] = IF i <= Len(s) THEN s[i] ELSE t[i - Len(s)]
  BY ConcatProperties, LenProperties
<1>2. PICK c : c = s \o t
  OBVIOUS
<1>3. SUFFICES ASSUME NEW k \in 2 .. Len(s) + Len(t), TextOf(c[k]) # << >>
               PROVE  /\ c[k].report \in 1 .. Len(rs)
                      /\ c[k].at \in 2 .. Len(rs[c[k].report])
                      /\ c[k - 1] = rs[c[k].report][c[k].at - 1]
  BY <1>1, <1>2 DEF Placed
<1>4. CASE k <= Len(s)
  <2>1. /\ k \in 2 .. Len(s) /\ k \in 1 .. Len(s) + Len(t)
        /\ k - 1 \in 1 .. Len(s) + Len(t) /\ k - 1 <= Len(s)
    BY <1>1, <1>4
  <2>2. c[k] = s[k] /\ c[k - 1] = s[k - 1]
    BY <1>1, <1>2, <1>4, <2>1
  <2> QED
    BY <1>3, <2>1, <2>2 DEF Placed
<1>5. CASE ~ (k <= Len(s))
  <2>1. PICK j : j = k - Len(s)
    OBVIOUS
  <2>2. /\ j \in 1 .. Len(t) /\ k \in 1 .. Len(s) + Len(t)
        /\ k - 1 \in 1 .. Len(s) + Len(t)
    BY <1>1, <1>5, <2>1
  <2>3. c[k] = t[j]
    BY <1>1, <1>2, <1>5, <2>1, <2>2
  <2>4. j # 1
    <3>1. SUFFICES ASSUME j = 1 PROVE FALSE
      OBVIOUS
    <3>2. t # << >>
      BY <2>2, <3>1, EmptySeq
    <3> QED
      BY <1>3, <2>3, <3>1, <3>2
  <2>5. /\ j \in 2 .. Len(t) /\ ~ (k - 1 <= Len(s)) /\ (k - 1) - Len(s) = j - 1
    BY <1>1, <1>5, <2>1, <2>2, <2>4
  <2>6. c[k - 1] = t[j - 1]
    BY <1>1, <1>2, <2>2, <2>5
  <2> QED
    BY <1>3, <2>3, <2>5, <2>6 DEF Placed
<1> QED
  BY <1>4, <1>5

(* Another report changes nothing in those there are.                      *)
LEMMA PlacedLater ==
    ASSUME NEW rs \in Seq(Seq(Cell)), NEW R \in Seq(Cell),
           NEW s \in Seq(Cell), Placed(rs, s)
    PROVE  Placed(Append(rs, R), s)
<1>1. PICK q : q = Append(rs, R)
  OBVIOUS
<1>2. /\ Len(q) = Len(rs) + 1 /\ Len(rs) \in Nat
      /\ \A i \in 1 .. Len(rs) : q[i] = rs[i]
  BY <1>1, AppendProperties, LenProperties
<1>3. \A i \in 1 .. Len(rs) : i \in 1 .. Len(q)
  BY <1>2
<1> QED
  BY <1>1, <1>2, <1>3 DEF Placed

(* Cells without a text are in place wherever they are.                    *)
LEMMA TextsNone ==
    ASSUME NEW s \in Seq(Cell), Texts(s) = << >>
    PROVE  \A i \in 1 .. Len(s) : TextOf(s[i]) = << >>
<1> DEFINE B == {q \in Seq(Cell) : Texts(q) = << >> =>
                     \A i \in 1 .. Len(q) : TextOf(q[i]) = << >>}
<1>1. << >> \in B
  BY EmptySeq
<1>2. ASSUME NEW q \in Seq(Cell), NEW c \in Cell, q \in B
      PROVE  Append(q, c) \in B
  <2>1. /\ Append(q, c) \in Seq(Cell) /\ Len(Append(q, c)) = Len(q) + 1
        /\ \A i \in 1 .. Len(q) : Append(q, c)[i] = q[i]
        /\ Append(q, c)[Len(q) + 1] = c /\ Len(q) \in Nat
    BY AppendProperties, LenProperties
  <2>2. SUFFICES ASSUME Texts(Append(q, c)) = << >>
                 PROVE  \A i \in 1 .. Len(q) + 1 : TextOf(Append(q, c)[i]) = << >>
    BY <2>1
  <2>3. PICK a : a = Texts(q)
    OBVIOUS
  <2>4. PICK b : b = TextOf(c)
    OBVIOUS
  <2>5. a \in Seq(Cell) /\ b \in Seq(Cell) /\ a \o b = << >>
    BY <2>2, <2>3, <2>4, TextsType, TextOfType, TextsAppend
  <2>6. Len(a) + Len(b) = 0 /\ Len(a) \in Nat /\ Len(b) \in Nat
    BY <2>5, CellsJoined, EmptySeq
  <2>7. a = << >> /\ b = << >>
    <3>1. Len(a) = 0 /\ Len(b) = 0
      BY <2>6
    <3> QED
      BY <2>5, <3>1, EmptySeq
  <2>8. \A i \in 1 .. Len(q) : TextOf(q[i]) = << >>
    BY <1>2, <2>3, <2>7
  <2>9. \A i \in 1 .. Len(q) + 1 : i \in 1 .. Len(q) \/ i = Len(q) + 1
    BY <2>1
  <2> QED
    BY <2>1, <2>4, <2>7, <2>8, <2>9
<1> HIDE DEF B
<1>3. Seq(Cell) \subseteq B
  BY <1>1, <1>2, SeqInduction
<1> QED
  BY <1>3 DEF B

LEMMA PlacedNone ==
    ASSUME NEW rs, NEW s \in Seq(Cell), Texts(s) = << >>
    PROVE  Placed(rs, s) /\ (s = << >> \/ TextOf(s[1]) = << >>)
<1>1. \A i \in 1 .. Len(s) : TextOf(s[i]) = << >>
  BY TextsNone
<1>2. Len(s) \in Nat
  BY LenProperties
<1>3. \A k \in 2 .. Len(s) : k \in 1 .. Len(s)
  BY <1>2
<1>4. Placed(rs, s)
  BY <1>1, <1>3 DEF Placed
<1>5. ASSUME s # << >> PROVE TextOf(s[1]) = << >>
  <2>1. Len(s) \in Nat \ {0}
    BY <1>2, <1>5, EmptySeq
  <2>2. 1 \in 1 .. Len(s)
    BY <2>1, AtMostOne
  <2> QED
    BY <1>1, <2>2
<1> QED
  BY <1>4, <1>5

-----------------------------------------------------------------------------
(* The inductive invariant.  Between the server's report and the client's  *)
(* terminal everything is in three places: the buffer, the stream, and the *)
(* part of the report that a write has not sent.                           *)

Write == {w \in [next : Nat, last : Nat, dangling : BOOLEAN] :
              w.next \in 1 .. w.last}

Types ==
    /\ raport \in Seq(Cell \ {Id}) /\ writes \in Seq(Write)
    /\ wire \in Seq(Cell) /\ Len(wire) <= SendBuffer
    /\ memory \in Seq(Cell) /\ size \in 0 .. Len(memory)
    /\ dropped \in 0 .. Len(memory)
    /\ output \in Seq(Cell) /\ reports \in Seq(Seq(Cell))
    /\ whole \in BOOLEAN /\ alone \in BOOLEAN /\ fresh \in BOOLEAN

Unread == SubSeq(memory, 1, size) \o wire

(* The id comes first and once.                                            *)
IdFirst ==
    /\ ids \in 0 .. 1
    /\ \A k \in 1 .. Len(Unread) : Unread[k] = Id => k = 1 /\ ids = 0

OneWrite == alone =>
    /\ Len(writes) <= 1
    /\ \A i \in 1 .. Len(writes) : /\ ~ writes[i].dangling
                                   /\ writes[i].last = Len(raport)

Left    == IF writes = << >> THEN << >> ELSE ToCome(writes[1])
Pending == Unread \o Left

Reported(t) == t.report \in 1 .. Len(reports) /\ t \in Range(reports[t.report])

Ordered == alone /\ fresh =>
    /\ Sorted(printed \o Texts(Pending))
    /\ \A t \in Range(printed \o Texts(Pending)) : Reported(t)
    /\ Placed(reports, output) /\ Placed(reports, Pending)

Complete ==
    /\ alone /\ whole =>
           size = 0 /\ (Pending # << >> => Pending[1] \in {Newline, Id})
    /\ alone /\ fresh /\ whole =>
           printed \o Texts(Pending) = Texts(FlattenSeq(reports))

Inv == Types /\ IdFirst /\ OneWrite /\ Ordered /\ Complete

LEMMA PrintedIs == Types => printed \in Seq(Cell)
BY TextsType DEF Types, printed

-----------------------------------------------------------------------------
(* A report, and what one write sends of it *)

LEMMA NewRaportIs ==
    ASSUME Types, NEW shape \in Seq({"newline", "text"})
    PROVE  /\ NewRaport(shape) \in Seq(Cell \ {Id})
           /\ Len(NewRaport(shape)) = Len(shape) + 1
           /\ Len(shape) \in Nat
           /\ NewRaport(shape)[1] = Newline
           /\ Sorted(Texts(NewRaport(shape)))
           /\ \A t \in Range(Texts(NewRaport(shape))) : t.report = Len(reports) + 1
           /\ \A k \in 2 .. Len(NewRaport(shape)) :
                  TextOf(NewRaport(shape)[k]) # << >> =>
                      /\ NewRaport(shape)[k].report = Len(reports) + 1
                      /\ NewRaport(shape)[k].at = k
<1> DEFINE R == NewRaport(shape)
           r == Len(reports) + 1
           n == Len(shape) + 1
           T(i) == i > 1 /\ shape[i - 1] = "text"
<1>1. r \in Nat
  BY LenProperties DEF Types
<1> HIDE DEF r
<1>2. Len(shape) \in Nat /\ n \in Nat /\ 1 \in 1 .. n
  BY LenProperties
<1>3. R = [i \in 1 .. n |-> IF T(i) THEN Text(r, i) ELSE Newline]
  BY DEF NewRaport, r
<1> HIDE DEF R, T
<1>4. \A i \in 1 .. n : R[i] = IF T(i) THEN Text(r, i) ELSE Newline
  BY <1>3
<1>5. \A i \in 1 .. n : R[i] \in Cell \ {Id} /\ i \in Nat
  BY <1>1, <1>2, <1>4, CellsAre
<1>6. R \in Seq(Cell \ {Id}) /\ Len(R) = n
  <2> HIDE DEF n
  <2>1. R \in [1 .. n -> Cell \ {Id}]
    BY <1>3, <1>4, <1>5
  <2> QED
    BY <1>2, <2>1, FunctionIsSeq
<1>7. R[1] = Newline
  BY <1>2, <1>4 DEF T
<1>8. R \in Seq(Cell)
  BY <1>6, SeqMonotonic
<1>9. \A i \in 1 .. Len(R) : TextOf(R[i]) # << >> => R[i] = Text(r, i)
  BY <1>4, <1>6, CellsAre
<1>10. Sorted(Texts(R))
  <2>1. \A i, j \in 1 .. Len(R) : /\ i < j
                                  /\ TextOf(R[i]) # << >> /\ TextOf(R[j]) # << >>
                                  => Before(R[i], R[j])
    <3>1. SUFFICES ASSUME NEW i \in 1 .. Len(R), NEW j \in 1 .. Len(R), i < j,
                          TextOf(R[i]) # << >>, TextOf(R[j]) # << >>
                   PROVE  Before(R[i], R[j])
      OBVIOUS
    <3>2. R[i] = Text(r, i) /\ R[j] = Text(r, j)
      BY <1>9, <3>1
    <3>3. /\ Text(r, i).report = r /\ Text(r, j).report = r
          /\ Text(r, i).at = i /\ Text(r, j).at = j
      BY DEF Text
    <3> QED
      BY <3>1, <3>2, <3>3 DEF Before
  <2> QED
    BY <1>8, <2>1, TextsSorted
<1>11. ASSUME NEW t \in Range(Texts(R)) PROVE t.report = r
  <2>1. t \in Range(R) /\ TextOf(t) = << t >>
    BY <1>8, TextsAmong
  <2>2. PICK i \in 1 .. Len(R) : t = R[i]
    BY <1>8, <2>1, RangeEquality
  <2>3. TextOf(R[i]) # << >>
    BY <2>1, <2>2, Singleton
  <2>4. t = Text(r, i)
    BY <1>9, <2>2, <2>3
  <2>5. Text(r, i).report = r
    BY DEF Text
  <2> QED
    BY <2>4, <2>5
<1>12. ASSUME NEW k \in 2 .. Len(R), TextOf(R[k]) # << >>
       PROVE  R[k].report = r /\ R[k].at = k
  <2>1. k \in 1 .. Len(R)
    BY <1>2, <1>6
  <2>2. R[k] = Text(r, k)
    BY <1>9, <1>12, <2>1
  <2> QED
    BY <2>2 DEF Text
<1> QED
  BY <1>2, <1>6, <1>7, <1>10, <1>11, <1>12 DEF R, r

(* A new report is in place among the reports.                             *)
LEMMA NewRaportPlaced ==
    ASSUME Types, NEW shape \in Seq({"newline", "text"}),
           NEW R, R = NewRaport(shape)
    PROVE  Placed(Append(reports, R), R)
<1>1. /\ R \in Seq(Cell) /\ Len(R) \in Nat
      /\ \A k \in 2 .. Len(R) : TextOf(R[k]) # << >> =>
             R[k].report = Len(reports) + 1 /\ R[k].at = k
  <2>1. R \in Seq(Cell \ {Id})
        /\ \A k \in 2 .. Len(R) : TextOf(R[k]) # << >> =>
               R[k].report = Len(reports) + 1 /\ R[k].at = k
    BY NewRaportIs
  <2> QED
    BY <2>1, SeqMonotonic, LenProperties
<1>2. PICK q : q = Append(reports, R)
  OBVIOUS
<1>3. /\ Len(q) = Len(reports) + 1 /\ Len(reports) \in Nat
      /\ q[Len(reports) + 1] = R
  BY <1>1, <1>2, AppendProperties, LenProperties DEF Types
<1>4. Len(reports) + 1 \in 1 .. Len(q)
  BY <1>3
<1> QED
  BY <1>1, <1>2, <1>3, <1>4 DEF Placed

LEMMA PieceIs ==
    ASSUME Types, NEW text \in Seq(Cell \ {Id}), NEW w \in Write
    PROVE  /\ Piece(text, w) \in Seq(Cell \ {Id})
           /\ Len(Piece(text, w)) \in 0 .. w.last - w.next + 1
           /\ Len(wire) + Len(Piece(text, w)) <= SendBuffer
           /\ (~ w.dangling) /\ w.last = Len(text) => Piece(text, w) =
                  SubSeq(text, w.next, w.next + Len(Piece(text, w)) - 1)
<1> DEFINE n == Smallest(SendBuffer - Len(wire), w.last - w.next + 1)
           p == Piece(text, w)
<1>1. /\ Len(wire) \in Nat /\ w.next \in Nat /\ w.last \in Nat
      /\ w.next \in 1 .. w.last /\ SendBuffer \in Nat /\ Len(wire) <= SendBuffer
  BY LenProperties, ReportsAssumption DEF Types, Write
<1>2. n \in 0 .. w.last - w.next + 1 /\ Len(wire) + n <= SendBuffer
  BY <1>1 DEF Smallest
<1>3. p = [i \in 1 .. n |-> IF ~w.dangling /\ w.next + i - 1 \in DOMAIN text
                          THEN text[w.next + i - 1] ELSE Garbage]
  BY DEF Piece
<1> HIDE DEF n, p
<1>4. \A i \in 1 .. n : p[i] \in Cell \ {Id}
  BY <1>3, CellsAre
<1>5. p \in Seq(Cell \ {Id}) /\ Len(p) = n
  <2>1. p \in [1 .. n -> Cell \ {Id}] /\ n \in Nat
    BY <1>1, <1>2, <1>3, <1>4
  <2> QED
    BY <2>1, FunctionIsSeq
<1>6. ASSUME ~ w.dangling, w.last = Len(text)
      PROVE  p = SubSeq(text, w.next, w.next + n - 1)
  <2>1. \A i \in 1 .. n : w.next + i - 1 \in 1 .. Len(text)
    BY <1>1, <1>2, <1>6
  <2>2. \A i \in 1 .. n : p[i] = text[w.next + i - 1]
    <3>1. DOMAIN text = 1 .. Len(text)
      OBVIOUS
    <3>2. TAKE i \in 1 .. n
    <3>3. w.next + i - 1 \in DOMAIN text
      BY <2>1, <3>1
    <3> QED
      BY <1>3, <1>6, <3>3
  <2>3. \A j \in w.next .. w.next + n - 1 : text[j] \in Cell \ {Id}
    <3>1. \A j \in w.next .. w.next + n - 1 : j \in 1 .. Len(text)
      BY <1>1, <1>2, <1>6
    <3> QED
      BY <3>1
  <2>4. DEFINE q == SubSeq(text, w.next, w.next + n - 1)
  <2>5. /\ q \in Seq(Cell \ {Id}) /\ Len(q) = n
        /\ \A i \in 1 .. n : q[i] = text[w.next + i - 1]
    <3>1. PICK m : m = w.next + n - 1
      OBVIOUS
    <3>2. PICK r : r = SubSeq(text, w.next, m)
      OBVIOUS
    <3>3. m \in Int /\ w.next \in Int /\ m - w.next + 1 = n
          /\ (w.next <= m \/ n = 0)
      BY <1>1, <1>2, <3>1
    <3>4. \A i \in w.next .. m : text[i] \in Cell \ {Id}
      BY <2>3, <3>1
    <3>5. /\ r \in Seq(Cell \ {Id})
          /\ Len(r) = IF w.next <= m THEN m - w.next + 1 ELSE 0
          /\ \A i \in 1 .. m - w.next + 1 : r[i] = text[w.next + i - 1]
      BY <3>2, <3>3, <3>4, SubSeqProperties
    <3>6. Len(r) = n
      BY <1>2, <3>3, <3>5
    <3> QED
      BY <3>1, <3>2, <3>3, <3>5, <3>6
  <2> HIDE DEF q
  <2> QED
    BY <1>5, <2>2, <2>5, SeqEqual DEF q
<1> QED
  BY <1>2, <1>5, <1>6 DEF p

LEMMA RequeuedIs ==
    ASSUME NEW w \in Write, NEW queue \in Seq(Write),
           NEW sent \in 0 .. w.last - w.next + 1
    PROVE  Requeued(queue, w, sent) \in Seq(Write)
<1>1. CASE w.next + sent > w.last
  BY <1>1 DEF Requeued
<1>2. CASE ~ (w.next + sent > w.last)
  <2>1. [w EXCEPT !.next = @ + sent] \in Write
    <3>1. /\ w \in [next : Nat, last : Nat, dangling : BOOLEAN]
          /\ w.next \in 1 .. w.last
      BY DEF Write
    <3>2. w.next + sent \in 1 .. w.last /\ w.next + sent \in Nat
      BY <1>2, <3>1
    <3> QED
      BY <3>1, <3>2 DEF Write
  <2> QED
    BY <1>2, <2>1, AppendProperties DEF Requeued
<1> QED
  BY <1>1, <1>2

(* What a lone write sent and what it has left make up what it had to      *)
(* send.                                                                   *)
LEMMA PieceLeft ==
    ASSUME Types, NEW text \in Seq(Cell \ {Id}), NEW w \in Write,
           ~ w.dangling, w.last = Len(text), raport' = text,
           writes' = Requeued(<< >>, w, Len(Piece(text, w)))
    PROVE  /\ Piece(text, w) \o Left' = SubSeq(text, w.next, w.last)
           /\ Left' \in Seq(Cell)
           /\ Len(writes') <= 1
           /\ \A i \in 1 .. Len(writes') : /\ ~ writes'[i].dangling
                                           /\ writes'[i].last = Len(text)
<1>1. PICK p : p = Piece(text, w)
  OBVIOUS
<1>2. PICK n : n = Len(p)
  OBVIOUS
<1>3. /\ p = SubSeq(text, w.next, w.next + n - 1)
      /\ n \in 0 .. w.last - w.next + 1
  BY <1>1, <1>2, PieceIs
<1>4. /\ w.next \in Nat /\ w.last \in Nat /\ w.next \in 1 .. w.last
      /\ w \in [next : Nat, last : Nat, dangling : BOOLEAN]
  BY DEF Write
<1>5. CASE w.next + n > w.last
  <2>1. writes' = << >> /\ Left' = << >>
    BY <1>1, <1>2, <1>5 DEF Requeued, Left
  <2>2. w.next + n - 1 = w.last
    BY <1>3, <1>4, <1>5
  <2>3. SubSeq(text, w.next, w.last) \in Seq(Cell)
    <3>1. \A i \in w.next .. w.last : text[i] \in Cell
      BY <1>4, LenProperties
    <3> QED
      BY <1>4, <3>1, SubSeqProperties
  <2>4. p = SubSeq(text, w.next, w.last)
    BY <1>3, <2>2
  <2>5. p \o << >> = p
    BY <2>3, <2>4, ConcatEmptySeq
  <2>6. << >> \in Seq(Cell) /\ Len(<< >>) = 0
    BY EmptySeq
  <2>7. /\ Left' \in Seq(Cell) /\ Len(writes') = 0
        /\ Piece(text, w) \o Left' = SubSeq(text, w.next, w.last)
    BY <1>1, <2>1, <2>4, <2>5, <2>6
  <2> QED
    BY <2>7
<1>6. CASE ~ (w.next + n > w.last)
  <2> DEFINE v == [w EXCEPT !.next = @ + n]
  <2>1. writes' = << v >>
    BY <1>1, <1>2, <1>6 DEF Requeued
  <2>2. v.next = w.next + n /\ v.last = w.last /\ v.dangling = w.dangling
    BY <1>4
  <2> HIDE DEF v
  <2>3. Left' = SubSeq(text, w.next + n, w.last)
    <3>1. writes' # << >> /\ writes'[1] = v
      BY <2>1, Singleton
    <3>2. Left' = SubSeq(raport', v.next, v.last)
      BY <3>1 DEF Left, ToCome
    <3> QED
      BY <2>2, <3>2
  <2>4. /\ w.next \in 1 .. Len(text) + 1 /\ w.next + n - 1 \in w.next - 1 .. Len(text)
        /\ Len(text) \in w.next + n - 1 .. Len(text)
        /\ (w.next + n - 1) + 1 = w.next + n
    BY <1>3, <1>4, <1>6
  <2>5. SubSeq(text, w.next, w.next + n - 1) \o SubSeq(text, (w.next + n - 1) + 1, Len(text))
        = SubSeq(text, w.next, Len(text))
    BY <2>4, ConcatAdjacentSubSeq
  <2>6. SubSeq(text, w.next + n, w.last) \in Seq(Cell)
    <3>1. \A i \in w.next + n .. w.last : text[i] \in Cell
      BY <1>3, <1>4, LenProperties
    <3> QED
      BY <1>3, <1>4, <3>1, SubSeqProperties
  <2>7. p \o Left' = SubSeq(text, w.next, w.last)
    BY <1>3, <2>3, <2>4, <2>5
  <2>8. /\ Len(writes') <= 1
        /\ \A i \in 1 .. Len(writes') : writes'[i] = v
    <3>1. Len(writes') = 1 /\ writes'[1] = v
      BY <2>1, Singleton
    <3> QED
      BY <3>1, AtMostOne
  <2> QED
    BY <1>1, <2>2, <2>3, <2>6, <2>7, <2>8
<1> QED
  BY <1>5, <1>6

LEMMA LeftType ==
    ASSUME Types, OneWrite, alone
    PROVE  /\ Left \in Seq(Cell)
           /\ writes # << >> => /\ writes = << writes[1] >>
                                /\ writes[1] \in Write
                                /\ ~ writes[1].dangling
                                /\ writes[1].last = Len(raport)
<1>1. CASE writes = << >>
  BY <1>1, EmptySeq DEF Left
<1>2. CASE writes # << >>
  <2>1. Len(writes) = 1 /\ writes[1] \in Write
    <3>1. writes \in Seq(Write) /\ Len(writes) <= 1
      BY DEF Types, OneWrite
    <3>2. Len(writes) \in Nat \ {0}
      BY <1>2, <3>1, EmptySeq
    <3>3. Len(writes) = 1
      BY <3>1, <3>2, AtMostOne
    <3> QED
      BY <3>1, <3>3, ElementOfSeq
  <2>2. writes = << writes[1] >>
    BY <2>1 DEF Types
  <2>3. ~ writes[1].dangling /\ writes[1].last = Len(raport)
    BY <2>1 DEF OneWrite
  <2>4. Left \in Seq(Cell)
    <3>1. /\ writes[1].next \in Nat /\ writes[1].last \in Nat
          /\ writes[1].next \in 1 .. writes[1].last
      BY <2>1 DEF Write
    <3>2. \A i \in writes[1].next .. writes[1].last : raport[i] \in Cell
      BY <2>3, <3>1, LenProperties DEF Types
    <3> QED
      BY <1>2, <3>1, <3>2, SubSeqProperties DEF Left, ToCome
  <2> QED
    BY <1>2, <2>1, <2>2, <2>3, <2>4
<1> QED
  BY <1>1, <1>2

LEMMA UnreadType ==
    ASSUME Types
    PROVE  /\ SubSeq(memory, 1, size) \in Seq(Cell)
           /\ Len(SubSeq(memory, 1, size)) = size
           /\ Unread \in Seq(Cell)
           /\ alone /\ OneWrite => Pending \in Seq(Cell)
<1>1. SubSeq(memory, 1, size) \in Seq(Cell) /\ Len(SubSeq(memory, 1, size)) = size
  <2>1. /\ size \in Nat /\ size <= Len(memory) /\ Len(memory) \in Nat
        /\ \A i \in 1 .. size : memory[i] \in Cell
    BY LenProperties DEF Types
  <2> QED
    BY <2>1, SubSeqProperties
<1>2. Unread \in Seq(Cell)
  BY <1>1, ConcatProperties DEF Unread, Types
<1> QED
  BY <1>1, <1>2, LeftType, ConcatProperties DEF Pending

(* What the property calls Coming is what is pending.                      *)
LEMMA ComingIs ==
    ASSUME Types, OneWrite, alone
    PROVE  Coming = Texts(Pending)
<1> DEFINE F == [i \in DOMAIN writes |-> ToCome(writes[i])]
<1>1. FlattenSeq(F) = Left
  <2>1. CASE writes = << >>
    <3>1. F = << >>
      BY <2>1
    <3> QED
      BY <2>1, <3>1, FlattenEmpty DEF Left
  <2>2. CASE writes # << >>
    <3>1. writes = << writes[1] >>
      BY <2>2, LeftType
    <3>2. PICK w : w = writes[1]
      OBVIOUS
    <3>3. F = << ToCome(w) >>
      BY <3>1, <3>2
    <3>4. Left = ToCome(w)
      BY <2>2, <3>2 DEF Left
    <3> QED
      BY <3>3, <3>4, LeftType, FlattenOne
  <2> QED
    BY <2>1, <2>2
<1> QED
  BY <1>1 DEF Coming, Pending, Unread

-----------------------------------------------------------------------------
(* The first state *)

LEMMA InvInit ==
    ASSUME Init
    PROVE  Inv
<1>1. /\ raport = << >> /\ writes = << >> /\ wire = << Id, Newline >>
      /\ memory = << >> /\ size = 0 /\ dropped = 0 /\ ids = 0 /\ output = << >>
      /\ reports = << >> /\ whole = TRUE /\ alone = TRUE /\ fresh = TRUE
  BY DEF Init
<1>10. printed = << >>
  BY <1>1, TextsEmpty DEF printed
<1>2. Types
  <2>1. /\ << Id, Newline >> \in Seq(Cell) /\ Len(<< Id, Newline >>) = 2
    BY CellsAre
  <2>2. Len(<< >>) = 0 /\ << >> \in Seq(Cell) /\ << >> \in Seq(Cell \ {Id})
        /\ << >> \in Seq(Write) /\ << >> \in Seq(Seq(Cell))
    BY EmptySeq
  <2>3. SendBuffer \in Nat /\ 2 <= SendBuffer /\ 0 \in 0 .. 0
    BY ReportsAssumption
  <2> QED
    BY <1>1, <2>1, <2>2, <2>3 DEF Types
<1>3. Unread = << Id, Newline >> /\ Pending = << Id, Newline >>
  <2>1. SubSeq(<< >>, 1, 0) = << >>
    OBVIOUS
  <2>2. << Id, Newline >> \in Seq(Cell)
    BY CellsAre
  <2>3. Unread = << Id, Newline >>
    BY <1>1, <2>1, <2>2, ConcatEmptySeq DEF Unread
  <2> QED
    BY <1>1, <2>2, <2>3, ConcatEmptySeq DEF Pending, Left
<1>4. Texts(<< Id, Newline >>) = << >>
  BY TextsOfId
<1>5. printed \o Texts(Pending) = << >>
  BY <1>3, <1>4, <1>10, EmptySeq, ConcatEmptySeq
<1>6. IdFirst
  <2>1. /\ << Id, Newline >>[2] = Newline /\ Len(<< Id, Newline >>) = 2
    OBVIOUS
  <2> QED
    BY <1>1, <1>3, <2>1, CellsAre DEF IdFirst
<1>7. OneWrite
  BY <1>1 DEF OneWrite
<1>8. Ordered
  <2>1. << Id, Newline >> \in Seq(Cell) /\ << >> \in Seq(Cell)
    BY CellsAre, EmptySeq
  <2>2. Placed(reports, output) /\ Placed(reports, Pending)
    BY <1>1, <1>3, <1>4, <2>1, TextsEmpty, PlacedNone
  <2> QED
    BY <1>5, <2>2, EmptySeq DEF Ordered, Sorted, Range
<1>9. Complete
  <2>1. << Id, Newline >>[1] = Id
    OBVIOUS
  <2> QED
    BY <1>1, <1>3, <1>5, <2>1, FlattenEmpty, TextsEmpty DEF Complete
<1> QED
  BY <1>2, <1>6, <1>7, <1>8, <1>9 DEF Inv

-----------------------------------------------------------------------------
(* The server's steps *)

(* More of the stream, without an id in it.                                *)
LEMMA UnreadGrows ==
    ASSUME Types, IdFirst, NEW x \in Seq(Cell \ {Id}), wire' = wire \o x,
           memory' = memory, size' = size, ids' = ids
    PROVE  IdFirst' /\ Unread' = Unread \o x
<1>1. x \in Seq(Cell) /\ \A i \in 1 .. Len(x) : x[i] # Id
  BY SeqMonotonic, ElementOfSeq
<1>2. Unread \in Seq(Cell) /\ SubSeq(memory, 1, size) \in Seq(Cell)
      /\ wire \in Seq(Cell)
  BY UnreadType DEF Types
<1>3. Unread' = Unread \o x
  <2>1. Unread' = SubSeq(memory, 1, size) \o (wire \o x)
    BY DEF Unread
  <2>2. SubSeq(memory, 1, size) \o (wire \o x) = (SubSeq(memory, 1, size) \o wire) \o x
    <3>1. PICK b : b = SubSeq(memory, 1, size)
      OBVIOUS
    <3>2. b \o (wire \o x) = (b \o wire) \o x
      BY <1>1, <1>2, <3>1, CellsConcat
    <3> QED
      BY <3>1, <3>2
  <2> QED
    BY <2>1, <2>2 DEF Unread
<1>4. /\ Len(Unread \o x) = Len(Unread) + Len(x)
      /\ Len(Unread) \in Nat /\ Len(x) \in Nat
      /\ \A k \in 1 .. Len(Unread) + Len(x) : (Unread \o x)[k] =
             IF k <= Len(Unread) THEN Unread[k] ELSE x[k - Len(Unread)]
  BY <1>1, <1>2, ConcatProperties, LenProperties
<1>5. ASSUME NEW k \in 1 .. Len(Unread) + Len(x), (Unread \o x)[k] = Id
      PROVE  k = 1 /\ ids = 0
  <2>1. k <= Len(Unread)
    <3>1. SUFFICES ASSUME ~ (k <= Len(Unread)) PROVE FALSE
      OBVIOUS
    <3>2. k - Len(Unread) \in 1 .. Len(x)
      BY <1>4, <3>1
    <3> QED
      BY <1>1, <1>4, <1>5, <3>1, <3>2
  <2> QED
    BY <1>4, <1>5, <2>1 DEF IdFirst
<1> QED
  BY <1>3, <1>4, <1>5 DEF IdFirst

(* The new report goes behind everything that is pending.                  *)
LEMMA ReportAdded ==
    ASSUME Types, OneWrite, Ordered, Complete, alone, OneWrite', Types', alone',
           NEW shape \in Seq({"newline", "text"}),
           Pending' = Pending \o NewRaport(shape),
           reports' = Append(reports, NewRaport(shape)),
           UNCHANGED clientVars
    PROVE  Ordered' /\ Complete'
<1>1. PICK R : R = NewRaport(shape)
  OBVIOUS
<1>2. /\ R \in Seq(Cell \ {Id}) /\ R \in Seq(Cell) /\ Len(R) # 0 /\ R[1] = Newline
      /\ Sorted(Texts(R)) /\ \A t \in Range(Texts(R)) : t.report = Len(reports) + 1
  <2>1. /\ R \in Seq(Cell \ {Id}) /\ R[1] = Newline
        /\ Len(R) = Len(shape) + 1 /\ Len(shape) \in Nat
        /\ Sorted(Texts(R)) /\ \A t \in Range(Texts(R)) : t.report = Len(reports) + 1
    BY <1>1, NewRaportIs
  <2>2. Len(R) # 0 /\ Cell \ {Id} \subseteq Cell
    BY <2>1
  <2> QED
    BY <2>1, <2>2, SeqMonotonic
<1>3. Pending \in Seq(Cell) /\ printed \in Seq(Cell) /\ reports \in Seq(Seq(Cell))
      /\ Texts(Pending) \in Seq(Cell) /\ Texts(R) \in Seq(Cell)
  BY <1>2, UnreadType, TextsType, PrintedIs DEF Types
<1>4. PICK all : all = printed \o Texts(Pending)
  OBVIOUS
<1>5. all \in Seq(Cell)
  BY <1>3, <1>4, ConcatProperties
<1>6. printed' \o Texts(Pending') = all \o Texts(R)
  <2>1. Texts(Pending') = Texts(Pending) \o Texts(R)
    BY <1>1, <1>2, <1>3, TextsConcat
  <2>2. printed \o (Texts(Pending) \o Texts(R)) = all \o Texts(R)
    <3>1. Regroups(printed, Texts(Pending), Texts(R))
      BY <1>3, Regrouped
    <3> QED
      BY <1>4, <3>1 DEF Regroups
  <2> QED
    BY <2>1, <2>2 DEF clientVars, printed
<1>7. /\ reports' \in Seq(Seq(Cell)) /\ Len(reports') = Len(reports) + 1
      /\ \A i \in 1 .. Len(reports) : reports'[i] = reports[i]
      /\ reports'[Len(reports) + 1] = R /\ Len(reports) \in Nat
  BY <1>1, <1>2, <1>3, AppendProperties, LenProperties
<1>8. Ordered'
  <2>1. SUFFICES ASSUME fresh
                 PROVE  /\ Sorted(all \o Texts(R))
                        /\ \A t \in Range(all \o Texts(R)) :
                               /\ t.report \in 1 .. Len(reports')
                               /\ t \in Range(reports'[t.report])
                        /\ Placed(reports', output) /\ Placed(reports', Pending')
    BY <1>6 DEF Ordered, Reported, clientVars
  <2>2. Sorted(all) /\ \A t \in Range(all) : Reported(t)
    BY <1>4, <2>1 DEF Ordered
  <2>3. ASSUME NEW x \in Range(all), NEW y \in Range(Texts(R))
        PROVE  Before(x, y)
    <3>1. x.report < y.report
      BY <1>2, <1>7, <2>2 DEF Reported
    <3> QED
      BY <3>1 DEF Before
  <2>4. Sorted(all \o Texts(R))
    BY <1>2, <1>3, <1>5, <2>2, <2>3, SortedConcat
  <2>5. Range(all \o Texts(R)) = Range(all) \cup Range(Texts(R))
    BY <1>3, <1>5, RangeConcatenation
  <2>6. \A t \in Range(all) : /\ t.report \in 1 .. Len(reports')
                              /\ t \in Range(reports'[t.report])
    <3>1. \A k \in 1 .. Len(reports) : k \in 1 .. Len(reports')
      BY <1>7
    <3> QED
      BY <1>7, <2>2, <3>1 DEF Reported
  <2>7. \A t \in Range(Texts(R)) : /\ t.report \in 1 .. Len(reports')
                                   /\ t \in Range(reports'[t.report])
    <3>1. Len(reports) + 1 \in 1 .. Len(reports')
      BY <1>7
    <3>2. \A t \in Range(Texts(R)) : t \in Range(R)
      BY <1>2, TextsAmong
    <3> QED
      BY <1>2, <1>7, <3>1, <3>2
  <2>8. /\ Placed(reports', output) /\ Placed(reports', Pending)
        /\ Placed(reports', R)
    <3>1. Placed(reports, output) /\ Placed(reports, Pending)
      BY <2>1 DEF Ordered
    <3>2. output \in Seq(Cell)
      BY DEF Types
    <3>3. PICK q : q = Pending
      OBVIOUS
    <3>4. /\ Placed(Append(reports, R), output)
          /\ Placed(Append(reports, R), q)
      BY <1>2, <1>3, <3>1, <3>2, <3>3, PlacedLater
    <3>5. Placed(Append(reports, R), R)
      BY <1>1, NewRaportPlaced
    <3> QED
      BY <1>1, <3>3, <3>4, <3>5
  <2>9. Placed(reports', Pending')
    <3>1. TextOf(R[1]) = << >>
      BY <1>2, CellsAre
    <3>2. PICK q : q = Pending
      OBVIOUS
    <3>3. PICK rs : rs = reports'
      OBVIOUS
    <3>4. Placed(rs, q \o R)
      BY <1>2, <1>3, <2>8, <3>1, <3>2, <3>3, PlacedConcat
    <3> QED
      BY <1>1, <3>2, <3>3, <3>4
  <2> QED
    BY <2>4, <2>5, <2>6, <2>7, <2>8, <2>9
<1>9. Complete'
  <2>1. ASSUME whole PROVE size = 0 /\ Pending'[1] \in {Newline, Id}
    <3>1. size = 0 /\ (Pending # << >> => Pending[1] \in {Newline, Id})
      BY <2>1 DEF Complete
    <3>2. CASE Pending = << >>
      BY <1>1, <1>2, <1>3, <3>1, <3>2, ConcatEmptySeq
    <3>3. CASE Pending # << >>
      <4>1. Len(Pending) \in Nat \ {0} /\ Len(R) \in Nat
        BY <1>2, <1>3, <3>3, EmptySeq, LenProperties
      <4>2. (Pending \o R)[1] = IF 1 <= Len(Pending) THEN Pending[1]
                                ELSE R[1 - Len(Pending)]
        <5>1. 1 \in 1 .. Len(Pending) + Len(R)
          BY <4>1
        <5> QED
          BY <1>2, <1>3, <5>1, ConcatProperties
      <4> QED
        BY <1>1, <3>1, <3>3, <4>1, <4>2
    <3> QED
      BY <3>2, <3>3
  <2>2. ASSUME whole, fresh
        PROVE  printed' \o Texts(Pending') = Texts(FlattenSeq(reports'))
    <3>1. all = Texts(FlattenSeq(reports))
      BY <1>4, <2>2 DEF Complete
    <3>2. PICK f : f = FlattenSeq(reports)
      OBVIOUS
    <3>3. FlattenSeq(reports') = f \o R /\ f \in Seq(Cell)
      BY <1>1, <1>2, <1>3, <3>2, FlattenAppend, FlattenType
    <3>4. Texts(f \o R) = Texts(f) \o Texts(R)
      BY <1>2, <3>3, TextsConcat
    <3> QED
      BY <1>6, <3>1, <3>2, <3>3, <3>4
  <2> QED
    BY <2>1, <2>2 DEF Complete, clientVars
<1> QED
  BY <1>8, <1>9

LEMMA InvSendRaport ==
    ASSUME Inv, NEW shape \in Seq({"newline", "text"}), SendRaport(shape)
    PROVE  Inv'
<1> DEFINE w == [next |-> 1, last |-> Len(shape) + 1, dangling |-> FALSE]
<1>1. PICK R : R = NewRaport(shape)
  OBVIOUS
<1>2. PICK p : p = Piece(R, w)
  OBVIOUS
<1>3. /\ raport' = R /\ reports' = Append(reports, R)
      /\ alone' = (alone /\ writes = << >>)
      /\ UNCHANGED clientVars
      /\ \/ /\ writes = << >> /\ wire' = wire \o p
            /\ writes' = Requeued(<< >>, w, Len(p))
         \/ /\ writes # << >> /\ wire' = wire
            /\ \E moved \in BOOLEAN :
                   writes' = Append([i \in DOMAIN writes |->
                       [writes[i] EXCEPT !.dangling = @ \/ moved]], w)
  BY <1>1, <1>2 DEF SendRaport
<1>4. /\ w \in Write /\ w.next = 1 /\ w.last = Len(shape) + 1 /\ w.dangling = FALSE
  <2>1. Len(shape) + 1 \in Nat /\ 1 \in 1 .. Len(shape) + 1
    BY LenProperties
  <2> QED
    BY <2>1 DEF Write
<1> HIDE DEF w
<1>5. /\ R \in Seq(Cell \ {Id}) /\ R \in Seq(Cell) /\ Len(R) = Len(shape) + 1
  <2>1. R \in Seq(Cell \ {Id}) /\ Len(R) = Len(shape) + 1 /\ Cell \ {Id} \subseteq Cell
    BY <1>1, NewRaportIs DEF Inv
  <2> QED
    BY <2>1, SeqMonotonic
<1>6. /\ p \in Seq(Cell \ {Id}) /\ p \in Seq(Cell)
      /\ Len(p) \in 0 .. w.last - w.next + 1
      /\ Len(wire) + Len(p) <= SendBuffer
  <2>1. /\ p \in Seq(Cell \ {Id}) /\ Len(p) \in 0 .. w.last - w.next + 1
        /\ Len(wire) + Len(p) <= SendBuffer /\ Cell \ {Id} \subseteq Cell
    BY <1>2, <1>4, <1>5, PieceIs DEF Inv
  <2> QED
    BY <2>1, SeqMonotonic
<1>7. Types'
  <2>1. writes' \in Seq(Write) /\ wire' \in Seq(Cell) /\ Len(wire') <= SendBuffer
    <3>1. CASE writes = << >>
      <4>1. Requeued(<< >>, w, Len(p)) \in Seq(Write)
        BY <1>4, <1>6, EmptySeq, RequeuedIs
      <4>2. wire \in Seq(Cell) /\ Len(wire \o p) = Len(wire) + Len(p)
            /\ wire \o p \in Seq(Cell)
        BY <1>6, ConcatProperties DEF Inv, Types
      <4> QED
        BY <1>3, <1>6, <3>1, <4>1, <4>2
    <3>2. CASE writes # << >>
      <4>1. PICK moved \in BOOLEAN :
                writes' = Append([i \in DOMAIN writes |->
                       [writes[i] EXCEPT !.dangling = @ \/ moved]], w)
        BY <1>3, <3>2
      <4> DEFINE e(i) == [writes[i] EXCEPT !.dangling = @ \/ moved]
                 q == [i \in DOMAIN writes |-> e(i)]
      <4>2. /\ writes \in [1 .. Len(writes) -> Write] /\ Len(writes) \in Nat
            /\ DOMAIN writes = 1 .. Len(writes)
        BY LenProperties DEF Inv, Types
      <4>3. ASSUME NEW i \in 1 .. Len(writes) PROVE e(i) \in Write
        <5>1. PICK v : v = writes[i]
          OBVIOUS
        <5>2. v \in [next : Nat, last : Nat, dangling : BOOLEAN]
              /\ v.next \in 1 .. v.last
          BY <4>2, <5>1 DEF Write
        <5>3. (v.dangling \/ moved) \in BOOLEAN
          OBVIOUS
        <5>4. PICK d : d = (v.dangling \/ moved)
          OBVIOUS
        <5>5. [v EXCEPT !.dangling = d] \in Write
          BY <5>2, <5>3, <5>4 DEF Write
        <5> QED
          BY <5>1, <5>4, <5>5
      <4> HIDE DEF e
      <4>4. q \in Seq(Write)
        BY <4>2, <4>3
      <4>5. Append(q, w) \in Seq(Write)
        <5> HIDE DEF q
        <5> QED
          BY <1>4, <4>4, AppendProperties
      <4> QED
        BY <1>3, <3>2, <4>1, <4>5 DEF Inv, Types, e
    <3> QED
      BY <3>1, <3>2
  <2>2. reports' \in Seq(Seq(Cell))
    <3>1. reports \in Seq(Seq(Cell))
      BY DEF Inv, Types
    <3> QED
      BY <1>3, <1>5, <3>1, AppendProperties
  <2>3. alone' \in BOOLEAN
    BY <1>3
  <2> QED
    BY <1>3, <1>5, <2>1, <2>2, <2>3 DEF Inv, Types, clientVars
<1>8. IdFirst'
  <2>1. CASE writes = << >>
    BY <1>3, <1>6, <2>1, UnreadGrows DEF Inv, clientVars
  <2>2. CASE writes # << >>
    BY <1>3, <2>2 DEF Inv, clientVars, IdFirst, Unread
  <2> QED
    BY <2>1, <2>2
<1>9. CASE ~ alone'
  BY <1>7, <1>8, <1>9 DEF Inv, OneWrite, Ordered, Complete
<1>10. CASE alone'
  <2>1. alone /\ writes = << >> /\ wire' = wire \o p
        /\ writes' = Requeued(<< >>, w, Len(p))
    BY <1>3, <1>10
  <2>2. /\ p \o Left' = SubSeq(R, 1, Len(shape) + 1) /\ Left' \in Seq(Cell)
        /\ Len(writes') <= 1
        /\ \A i \in 1 .. Len(writes') : /\ ~ writes'[i].dangling
                                        /\ writes'[i].last = Len(R)
    BY <1>2, <1>3, <1>4, <1>5, <2>1, PieceLeft DEF Inv
  <2>3. OneWrite'
    BY <1>3, <2>2 DEF OneWrite
  <2>4. Pending' = Pending \o R
    <3>1. Unread' = Unread \o p
      BY <1>3, <1>6, <2>1, UnreadGrows DEF Inv, clientVars
    <3>2. Unread \in Seq(Cell)
      BY UnreadType DEF Inv
    <3>3. (Unread \o p) \o Left' = Unread \o (p \o Left')
      BY <1>6, <2>2, <3>2, CellsConcat
    <3>4. SubSeq(R, 1, Len(shape) + 1) = R
      BY <1>5, SubSeqFull
    <3>5. Pending = Unread
      BY <2>1, <3>2, ConcatEmptySeq DEF Pending, Left
    <3> QED
      BY <2>2, <3>1, <3>3, <3>4, <3>5 DEF Pending
  <2>5. Ordered' /\ Complete'
    BY <1>1, <1>3, <1>7, <1>10, <2>1, <2>3, <2>4, ReportAdded DEF Inv
  <2> QED
    BY <1>7, <1>8, <2>3, <2>5 DEF Inv
<1> QED
  BY <1>9, <1>10

(* What is pending stays pending.                                          *)
LEMMA InvContinueWrite ==
    ASSUME Inv, ContinueWrite
    PROVE  Inv'
<1>1. PICK w : w = writes[1]
  OBVIOUS
<1>2. PICK p : p = Piece(raport, w)
  OBVIOUS
<1>3. /\ writes # << >> /\ writes \in Seq(Write) /\ Len(writes) \in Nat
      /\ w \in Write /\ Tail(writes) \in Seq(Write) /\ Head(writes) = w
  <2>1. writes # << >> /\ writes \in Seq(Write)
    BY DEF ContinueWrite, Inv, Types
  <2>2. Head(writes) \in Write /\ Tail(writes) \in Seq(Write)
    BY <2>1, HeadTailProperties
  <2>3. Head(writes) = w
    BY <1>1, <2>1
  <2> QED
    BY <2>1, <2>2, <2>3, LenProperties
<1>4. /\ wire' = wire \o p /\ writes' = Requeued(Tail(writes), w, Len(p))
      /\ raport' = raport /\ reports' = reports /\ alone' = alone
      /\ UNCHANGED clientVars
  BY <1>2, <1>3 DEF ContinueWrite
<1>5. /\ p \in Seq(Cell \ {Id}) /\ p \in Seq(Cell)
      /\ Len(p) \in 0 .. w.last - w.next + 1
      /\ Len(wire) + Len(p) <= SendBuffer
  <2>1. /\ p \in Seq(Cell \ {Id}) /\ Len(p) \in 0 .. w.last - w.next + 1
        /\ Len(wire) + Len(p) <= SendBuffer /\ Cell \ {Id} \subseteq Cell
    BY <1>2, <1>3, PieceIs DEF Inv, Types
  <2> QED
    BY <2>1, SeqMonotonic
<1>6. Types'
  <2>1. wire \in Seq(Cell) /\ Len(wire \o p) = Len(wire) + Len(p)
        /\ wire \o p \in Seq(Cell)
    BY <1>5, ConcatProperties DEF Inv, Types
  <2>2. writes' \in Seq(Write)
    BY <1>3, <1>4, <1>5, RequeuedIs
  <2> QED
    BY <1>4, <1>5, <2>1, <2>2 DEF Inv, Types, clientVars
<1>7. IdFirst' /\ Unread' = Unread \o p
  BY <1>4, <1>5, UnreadGrows DEF Inv, clientVars
<1>8. CASE ~ alone
  BY <1>4, <1>6, <1>7, <1>8 DEF Inv, OneWrite, Ordered, Complete
<1>9. CASE alone
  <2>1. /\ writes = << w >> /\ ~ w.dangling /\ w.last = Len(raport)
    BY <1>1, <1>3, <1>9, LeftType DEF Inv
  <2>2. Tail(writes) = << >>
    <3>1. Len(writes) = 1
      BY <2>1, Singleton
    <3>2. Len(Tail(writes)) = 0
      BY <1>3, <3>1, HeadTailProperties
    <3> QED
      BY <1>3, <3>2, EmptySeq
  <2>3. /\ p \o Left' = SubSeq(raport, w.next, w.last) /\ Left' \in Seq(Cell)
        /\ Len(writes') <= 1
        /\ \A i \in 1 .. Len(writes') : /\ ~ writes'[i].dangling
                                        /\ writes'[i].last = Len(raport)
    BY <1>2, <1>3, <1>4, <2>1, <2>2, PieceLeft DEF Inv, Types
  <2>4. OneWrite'
    BY <1>4, <2>3 DEF OneWrite
  <2>5. Pending' = Pending
    <3>1. Left = SubSeq(raport, w.next, w.last)
      BY <1>1, <1>3 DEF Left, ToCome
    <3>2. Unread \in Seq(Cell)
      BY UnreadType DEF Inv
    <3>3. (Unread \o p) \o Left' = Unread \o (p \o Left')
      BY <1>5, <2>3, <3>2, CellsConcat
    <3> QED
      BY <1>7, <2>3, <3>1, <3>3 DEF Pending
  <2>6. Ordered' /\ Complete'
    <3>1. PICK q : q = Pending
      OBVIOUS
    <3>2. Pending' = q
      BY <2>5, <3>1
    <3> QED
      BY <1>4, <3>1, <3>2 DEF Inv, Ordered, Complete, Reported, clientVars, printed
  <2> QED
    BY <1>6, <1>7, <2>4, <2>6 DEF Inv
<1> QED
  BY <1>8, <1>9

-----------------------------------------------------------------------------
(* The client's step *)

LEMMA EndOfLineIs ==
    ASSUME NEW buffer \in Seq(Cell), Newline \in Range(buffer)
    PROVE  /\ EndOfLine(buffer) \in 1 .. Len(buffer)
           /\ buffer[1] = Newline => EndOfLine(buffer) = 1
           /\ buffer[EndOfLine(buffer)] = Newline
<1> DEFINE T == {i \in Nat : i \in 1 .. Len(buffer) /\ buffer[i] = Newline}
<1>1. Len(buffer) \in Nat /\ DOMAIN buffer = 1 .. Len(buffer)
  BY LenProperties
<1>2. T \subseteq Nat /\ T # {}
  <2>1. PICK i \in 1 .. Len(buffer) : buffer[i] = Newline
    BY RangeEquality
  <2> QED
    BY <1>1, <2>1
<1>3. PICK x \in T : \A y \in T : ~ (<< y, x >> \in OpToRel(<, Nat))
  BY <1>2, WFMin, NatLessThanWellFounded
<1>4. ASSUME NEW j \in 1 .. x - 1 PROVE buffer[j] # Newline
  <2>1. SUFFICES ASSUME buffer[j] = Newline PROVE FALSE
    OBVIOUS
  <2>2. x \in Nat /\ x \in 1 .. Len(buffer)
    BY <1>3
  <2>3. j \in Nat /\ j < x /\ j \in 1 .. Len(buffer)
    BY <1>1, <2>2
  <2>4. j \in T
    BY <2>1, <2>3
  <2>5. << j, x >> \in OpToRel(<, Nat)
    BY <2>2, <2>3 DEF OpToRel
  <2> QED
    BY <1>3, <2>4, <2>5
<1>5. \E i \in DOMAIN buffer :
          buffer[i] = Newline /\ \A j \in 1 .. i - 1 : buffer[j] # Newline
  BY <1>1, <1>3, <1>4
<1>6. PICK e : e = EndOfLine(buffer)
  OBVIOUS
<1>7. e \in DOMAIN buffer /\ buffer[e] = Newline
      /\ \A j \in 1 .. e - 1 : buffer[j] # Newline
  BY <1>5, <1>6 DEF EndOfLine
<1>8. ASSUME buffer[1] = Newline PROVE e = 1
  <2>1. 1 \notin 1 .. e - 1
    BY <1>7, <1>8
  <2> QED
    BY <1>1, <1>7, <2>1
<1> QED
  BY <1>1, <1>6, <1>7, <1>8

(* Where the cells of a read come from and where they go.                  *)
LEMMA ReadIs ==
    ASSUME Types, NEW n \in 1 .. Len(wire),
           NEW buffer, buffer = SubSeq(memory, 1, size) \o SubSeq(wire, 1, n),
           NEW stale, stale = SubSeq(memory, Len(buffer) + 1, Len(memory)),
           wire' = SubSeq(wire, n + 1, Len(wire)), memory' = buffer \o stale
    PROVE  /\ buffer \in Seq(Cell) /\ stale \in Seq(Cell) /\ wire' \in Seq(Cell)
           /\ Len(buffer) = size + n /\ Len(buffer) \in Nat \ {0}
           /\ size = 0 => buffer = SubSeq(wire, 1, n)
           /\ Len(wire') <= Len(wire)
           /\ memory' \in Seq(Cell) /\ Len(buffer) \in 0 .. Len(memory')
           /\ SubSeq(memory', 1, Len(buffer)) = buffer
           /\ Unread = buffer \o wire'
<1>1. PICK b : b = SubSeq(memory, 1, size)
  OBVIOUS
<1>2. PICK r : r = SubSeq(wire, 1, n)
  OBVIOUS
<1>3. PICK u : u = wire'
  OBVIOUS
<1>4. b \in Seq(Cell) /\ Len(b) = size /\ size \in Nat
  BY <1>1, UnreadType, LenProperties DEF Types
<1>5. wire \in Seq(Cell) /\ Len(wire) \in Nat /\ n \in Nat /\ n <= Len(wire)
  BY LenProperties DEF Types
<1>6. r \in Seq(Cell) /\ Len(r) = n
  <2>1. \A i \in 1 .. n : wire[i] \in Cell
    <3>1. \A i \in 1 .. n : i \in 1 .. Len(wire)
      BY <1>5
    <3> QED
      BY <1>5, <3>1, ElementOfSeq
  <2> QED
    BY <1>2, <1>5, <2>1, SubSeqProperties
<1>7. u \in Seq(Cell) /\ Len(u) = Len(wire) - n
  <2>1. \A i \in n + 1 .. Len(wire) : wire[i] \in Cell
    BY <1>5
  <2>2. n + 1 <= Len(wire) \/ Len(wire) - n = 0
    BY <1>5
  <2>3. u \in Seq(Cell) /\ Len(u) = IF n + 1 <= Len(wire)
                                    THEN Len(wire) - (n + 1) + 1 ELSE 0
    BY <1>3, <1>5, <2>1, SubSeqProperties
  <2> QED
    BY <1>5, <2>2, <2>3
<1>8. r \o u = wire
  <2>1. n \in 1 - 1 .. Len(wire) /\ 1 \in 1 .. Len(wire) + 1
        /\ Len(wire) \in n .. Len(wire)
    BY <1>5
  <2>2. r \o u = SubSeq(wire, 1, Len(wire))
    BY <1>2, <1>3, <1>5, <2>1, ConcatAdjacentSubSeq
  <2> QED
    BY <1>5, <2>2, SubSeqFull
<1>9. buffer \in Seq(Cell) /\ Len(buffer) = size + n /\ Len(buffer) \in Nat \ {0}
  <2>1. buffer \in Seq(Cell) /\ Len(buffer) = Len(b) + Len(r)
    BY <1>1, <1>2, <1>4, <1>6, ConcatProperties
  <2> QED
    BY <1>4, <1>6, <2>1
<1>10. stale \in Seq(Cell)
  <2>1. memory \in Seq(Cell) /\ Len(memory) \in Nat
    BY LenProperties DEF Types
  <2>2. \A i \in Len(buffer) + 1 .. Len(memory) : memory[i] \in Cell
    BY <1>9, <2>1
  <2> QED
    BY <1>9, <2>1, <2>2, SubSeqProperties
<1>11. /\ memory' \in Seq(Cell) /\ Len(buffer) \in 0 .. Len(memory')
       /\ SubSeq(memory', 1, Len(buffer)) = buffer
  <2>1. buffer \o stale \in Seq(Cell)
        /\ Len(buffer \o stale) = Len(buffer) + Len(stale) /\ Len(stale) \in Nat
    BY <1>9, <1>10, CellsJoined
  <2>2. 1 \in 1 .. Len(buffer) /\ Len(buffer) \in 1 .. Len(buffer)
    BY <1>9
  <2>3. SubSeq(buffer \o stale, 1, Len(buffer)) = SubSeq(buffer, 1, Len(buffer))
    BY <1>9, <1>10, <2>2, CellsFront
  <2>4. SubSeq(buffer, 1, Len(buffer)) = buffer
    BY <1>9, SubSeqFull
  <2>5. Len(buffer) \in 0 .. Len(buffer \o stale)
    <3>1. \A i, j \in Nat : i \in 0 .. i + j
      OBVIOUS
    <3>2. Len(buffer) \in 0 .. Len(buffer) + Len(stale)
      BY <1>9, <2>1, <3>1
    <3> QED
      BY <2>1, <3>2
  <2> QED
    BY <2>1, <2>3, <2>4, <2>5
<1>12. Unread = buffer \o u
  <2>1. b \o (r \o u) = (b \o r) \o u
    BY <1>4, <1>6, <1>7, CellsConcat
  <2> QED
    BY <1>1, <1>2, <1>8, <2>1 DEF Unread
<1>13. size = 0 => buffer = SubSeq(wire, 1, n)
  <2>1. ASSUME size = 0 PROVE b = << >>
    BY <1>4, <2>1, EmptySeq
  <2> QED
    BY <1>1, <1>2, <1>6, <2>1, ConcatEmptySeq
<1>14. Len(u) <= Len(wire)
  BY <1>5, <1>7
<1> QED
  BY <1>3, <1>7, <1>9, <1>10, <1>11, <1>12, <1>13, <1>14

(* A line without a newline stays in the buffer, and nothing else changes. *)
LEMMA InvReadPart ==
    ASSUME Inv, NEW n \in Nat, Read(n), size' # 0
    PROVE  Inv'
<1>1. PICK buffer : buffer = SubSeq(memory, 1, size) \o SubSeq(wire, 1, n)
  OBVIOUS
<1>2. PICK stale : stale = SubSeq(memory, Len(buffer) + 1, Len(memory))
  OBVIOUS
<1>3. /\ n \in 1 .. Smallest(ReadSize, Len(wire))
      /\ memory' = buffer \o stale
      /\ wire' = SubSeq(wire, n + 1, Len(wire))
      /\ Newline \notin Range(buffer) /\ size' = Len(buffer)
      /\ ids' = ids /\ output' = output /\ fresh' = fresh
      /\ dropped' = 0
      /\ whole' = (/\ whole
                   /\ buffer[1] = Id => buffer = << Id, Newline >>
                   /\ wire' # << >> => wire'[1] = Newline
                   /\ wire' = << >> => writes = << >>)
      /\ UNCHANGED serverVars
  BY <1>1, <1>2 DEF Read, HandleLine
<1>4. n \in 1 .. Len(wire)
  <2>1. Len(wire) \in Nat /\ ReadSize \in Nat
    BY LenProperties, ReportsAssumption DEF Inv, Types
  <2> QED
    BY <1>3, <2>1 DEF Smallest
<1>5. /\ buffer \in Seq(Cell) /\ stale \in Seq(Cell) /\ wire' \in Seq(Cell)
      /\ Len(buffer) \in Nat \ {0}
      /\ size = 0 => buffer = SubSeq(wire, 1, n)
      /\ Len(wire') <= Len(wire)
      /\ memory' \in Seq(Cell) /\ Len(buffer) \in 0 .. Len(memory')
      /\ SubSeq(memory', 1, Len(buffer)) = buffer
      /\ Unread = buffer \o wire'
  BY <1>1, <1>2, <1>3, <1>4, ReadIs DEF Inv
<1>6. Types'
  <2>1. Len(wire') <= SendBuffer
    <3>1. \A a, b \in Nat : a <= b /\ b <= SendBuffer => a <= SendBuffer
      BY ReportsAssumption
    <3> QED
      BY <1>5, <3>1, LenProperties DEF Inv, Types
  <2>2. whole' \in BOOLEAN
    BY <1>3
  <2>3. 0 \in 0 .. Len(memory')
    <3>1. PICK m : m = memory'
      OBVIOUS
    <3>2. Len(m) \in Nat
      BY <1>5, <3>1, LenProperties
    <3> QED
      BY <3>1, <3>2
  <2> QED
    BY <1>3, <1>5, <2>1, <2>2, <2>3 DEF Inv, Types, serverVars
<1>7. Unread' = Unread
  BY <1>3, <1>5 DEF Unread
<1>8. Left' = Left /\ Pending' = Pending
  BY <1>3, <1>7 DEF Left, ToCome, Pending, serverVars
<1>9. PICK q : q = Pending
  OBVIOUS
<1>10. Pending' = q
  BY <1>8, <1>9
<1>11. IdFirst' /\ OneWrite'
  BY <1>3, <1>7 DEF Inv, IdFirst, OneWrite, serverVars
<1>12. Ordered'
  BY <1>3, <1>9, <1>10 DEF Inv, Ordered, Reported, serverVars, printed
<1>13. ~ (alone' /\ whole')
  <2>1. SUFFICES ASSUME alone, whole, buffer[1] = Id => buffer = << Id, Newline >>
                 PROVE  FALSE
    BY <1>3 DEF serverVars
  <2>2. Pending # << >> /\ Pending[1] = buffer[1]
    <3>1. Left \in Seq(Cell)
      BY <2>1, LeftType DEF Inv
    <3>2. PICK u : u = wire' \o Left
      OBVIOUS
    <3>3. u \in Seq(Cell) /\ Pending = buffer \o u
      <4>1. PICK v : v = wire'
        OBVIOUS
      <4>2. (buffer \o v) \o Left = buffer \o (v \o Left)
        BY <1>5, <3>1, <4>1, CellsConcat
      <4> QED
        BY <1>5, <3>1, <3>2, <4>1, <4>2, ConcatProperties DEF Pending
    <3> QED
      BY <1>5, <3>3, CellsFirst
  <2>3. buffer[1] \in {Newline, Id}
    BY <2>1, <2>2 DEF Inv, Complete
  <2>4. 1 \in 1 .. Len(buffer)
    BY <1>5, AtMostOne
  <2>5. buffer[1] # Newline
    BY <1>3, <1>5, <2>4, RangeEquality
  <2>6. buffer = << Id, Newline >>
    BY <2>1, <2>3, <2>5
  <2>7. << Id, Newline >>[2] = Newline /\ 2 \in 1 .. Len(<< Id, Newline >>)
    OBVIOUS
  <2>8. buffer[2] = Newline /\ 2 \in 1 .. Len(buffer)
    BY <2>6, <2>7
  <2> QED
    BY <1>3, <1>5, <2>8, RangeEquality
<1>14. Complete'
  BY <1>13 DEF Complete
<1> QED
  BY <1>6, <1>11, <1>12, <1>14 DEF Inv

LEMMA TextsThree ==
    ASSUME NEW s \in Seq(Cell), NEW t \in Seq(Cell), NEW u \in Seq(Cell)
    PROVE  Texts((s \o t) \o u) = Texts(s) \o (Texts(t) \o Texts(u))
<1>1. Texts((s \o t) \o u) = Texts(s \o t) \o Texts(u)
  BY ConcatProperties, TextsConcat
<1>2. Texts(s \o t) = Texts(s) \o Texts(t)
  BY TextsConcat
<1>3. (Texts(s) \o Texts(t)) \o Texts(u) = Texts(s) \o (Texts(t) \o Texts(u))
  <2>1. PICK a : a = Texts(s)
    OBVIOUS
  <2>2. PICK b : b = Texts(t)
    OBVIOUS
  <2>3. PICK c : c = Texts(u)
    OBVIOUS
  <2>4. a \in Seq(Cell) /\ b \in Seq(Cell) /\ c \in Seq(Cell)
    BY <2>1, <2>2, <2>3, TextsType
  <2>5. Regroups(a, b, c)
    BY <2>4, Regrouped
  <2> QED
    BY <2>1, <2>2, <2>3, <2>5 DEF Regroups
<1> QED
  BY <1>1, <1>2, <1>3

(* Losing lines keeps the order of the others, and losing none keeps all.  *)
Loses(lost, before, after) ==
    /\ Sorted(before) => Sorted(after)
    /\ Range(after) \subseteq Range(before)
    /\ lost = << >> => after = before

(* A read loses what is before a stretch of the stream that it prints.     *)
LEMMA ReadLoses ==
    ASSUME NEW old \in Seq(Cell), NEW lost \in Seq(Cell), NEW shown \in Seq(Cell),
           NEW later \in Seq(Cell)
    PROVE  Loses(Texts(lost), old \o Texts((lost \o shown) \o later),
                 (old \o Texts(shown)) \o Texts(later))
<1>1. PICK a : a = Texts(lost)
  OBVIOUS
<1>2. PICK b : b = Texts(shown)
  OBVIOUS
<1>3. PICK c : c = Texts(later)
  OBVIOUS
<1>4. a \in Seq(Cell) /\ b \in Seq(Cell) /\ c \in Seq(Cell)
  BY <1>1, <1>2, <1>3, TextsType
<1>5. b \o c \in Seq(Cell) /\ lost \o shown \in Seq(Cell)
      /\ a \o (b \o c) \in Seq(Cell)
  BY <1>4, ConcatProperties
<1>6. Texts((lost \o shown) \o later) = a \o (b \o c)
  BY <1>1, <1>2, <1>3, TextsThree
<1>7. (old \o b) \o c = old \o (b \o c)
  <2>1. Regroups(old, b, c)
    BY <1>4, Regrouped
  <2> QED
    BY <2>1 DEF Regroups
<1>8. ASSUME Sorted(old \o (a \o (b \o c))) PROVE Sorted(old \o (b \o c))
  BY <1>4, <1>5, <1>8, SortedWithout
<1>9. Range(old \o (b \o c)) \subseteq Range(old \o (a \o (b \o c)))
  <2>1. Range(old \o (b \o c)) = Range(old) \cup Range(b \o c)
    BY <1>5, CellsRange
  <2>2. Range(old \o (a \o (b \o c))) = Range(old) \cup Range(a \o (b \o c))
    BY <1>5, CellsRange
  <2>3. Range(a \o (b \o c)) = Range(a) \cup Range(b \o c)
    BY <1>4, <1>5, CellsRange
  <2> QED
    BY <2>1, <2>2, <2>3
<1>10. ASSUME a = << >> PROVE old \o (b \o c) = old \o (a \o (b \o c))
  BY <1>5, <1>10, ConcatEmptySeq
<1> QED
  BY <1>1, <1>2, <1>3, <1>6, <1>7, <1>8, <1>9, <1>10 DEF Loses

(* What is written to stderr.                                              *)
LEMMA WriteIs ==
    ASSUME Types, NEW rest \in Seq(Cell), NEW stale \in Seq(Cell),
           WriteToStdout(rest, stale)
    PROVE  /\ output' \in Seq(Cell) /\ fresh' \in BOOLEAN
           /\ fresh' => fresh /\ Texts(stale) = << >>
           /\ Texts(stale) = << >> => printed' = printed \o Texts(rest)
           /\ /\ Texts(stale) = << >>
              /\ Placed(reports, output)
              /\ Placed(reports, << Newline >> \o rest)
              => Placed(reports, output')
<1>1. PICK c : c = << Newline >> \o rest
  OBVIOUS
<1>2. PICK o : o = output
  OBVIOUS
<1>3. PICK head : head = << Newline >>
  OBVIOUS
<1>4. /\ head \in Seq(Cell) /\ Len(head) = 1 /\ head[1] = Newline
      /\ o \in Seq(Cell) /\ fresh \in BOOLEAN
  BY <1>2, <1>3, CellsAre DEF Types
<1>5. c \in Seq(Cell) /\ c # << >> /\ c[1] = Newline /\ o \o c \in Seq(Cell)
  <2>1. c = head \o rest
    BY <1>1, <1>3
  <2>2. head \o rest # << >> /\ (head \o rest)[1] = head[1]
    <3>1. Len(head) \in Nat \ {0}
      BY <1>4
    <3> QED
      BY <1>4, <3>1, CellsFirst
  <2> QED
    BY <1>4, <2>1, <2>2, CellsJoined
<1>6. output' = (o \o c) \o stale
  <2>1. (o \o head) \o rest = o \o (head \o rest)
    BY <1>4, CellsConcat
  <2> QED
    BY <1>1, <1>2, <1>3, <2>1 DEF WriteToStdout
<1>7. output' \in Seq(Cell)
  BY <1>5, <1>6, CellsJoined
<1>8. fresh' \in BOOLEAN /\ (fresh' => fresh /\ Texts(stale) = << >>)
  BY <1>4 DEF WriteToStdout
<1>9. ASSUME Texts(stale) = << >> PROVE printed' = printed \o Texts(rest)
  <2>1. Texts(head) = << >>
    BY <1>3, TextsOne, CellsAre
  <2>2. PICK t : t = Texts(rest)
    OBVIOUS
  <2>3. PICK u : u = Texts(o)
    OBVIOUS
  <2>4. t \in Seq(Cell) /\ u \in Seq(Cell) /\ u \o t \in Seq(Cell)
    BY <1>4, <2>2, <2>3, TextsType, ConcatProperties
  <2>5. Texts(c) = t
    <3>1. Texts(head \o rest) = Texts(head) \o Texts(rest)
      BY <1>4, TextsConcat
    <3>2. << >> \o t = t
      BY <2>4, ConcatEmptySeq
    <3> QED
      BY <1>1, <1>3, <2>1, <2>2, <3>1, <3>2
  <2>6. Texts(o \o c) = u \o t
    BY <1>4, <1>5, <2>3, <2>5, TextsConcat
  <2>7. Texts((o \o c) \o stale) = Texts(o \o c) \o Texts(stale)
    BY <1>5, TextsConcat
  <2>8. (u \o t) \o << >> = u \o t
    BY <2>4, ConcatEmptySeq
  <2> QED
    BY <1>2, <1>6, <1>9, <2>2, <2>3, <2>6, <2>7, <2>8 DEF printed
<1>10. ASSUME Texts(stale) = << >>, Placed(reports, output),
              Placed(reports, << Newline >> \o rest)
       PROVE  Placed(reports, output')
  <2>1. TextOf(c[1]) = << >>
    BY <1>5, CellsAre
  <2>2. Placed(reports, o \o c)
    BY <1>1, <1>2, <1>4, <1>5, <1>10, <2>1, PlacedConcat
  <2>3. Placed(reports, stale) /\ (stale = << >> \/ TextOf(stale[1]) = << >>)
    BY <1>10, PlacedNone
  <2> QED
    BY <1>5, <1>6, <2>2, <2>3, PlacedConcat
<1> QED
  BY <1>7, <1>8, <1>9, <1>10

(* A line with its newline empties the buffer.                             *)
LEMMA InvReadLine ==
    ASSUME Inv, NEW n \in Nat, Read(n), size' = 0
    PROVE  Inv'
<1>1. PICK buffer : buffer = SubSeq(memory, 1, size) \o SubSeq(wire, 1, n)
  OBVIOUS
<1>2. PICK stale : stale = SubSeq(memory, Len(buffer) + 1, Len(memory))
  OBVIOUS
<1>3. /\ n \in 1 .. Smallest(ReadSize, Len(wire))
      /\ memory' = buffer \o stale
      /\ wire' = SubSeq(wire, n + 1, Len(wire))
      /\ \/ Newline \in Range(buffer) /\ TakeOrPrint(buffer, stale)
         \/ size' = Len(buffer)
      /\ dropped = 0
      /\ whole' = (/\ whole
                   /\ buffer[1] = Id => buffer = << Id, Newline >>
                   /\ wire' # << >> => wire'[1] = Newline
                   /\ wire' = << >> => writes = << >>)
      /\ UNCHANGED serverVars
  BY <1>1, <1>2 DEF Read, HandleLine
<1>4. n \in 1 .. Len(wire)
  <2>1. Len(wire) \in Nat /\ ReadSize \in Nat
    BY LenProperties, ReportsAssumption DEF Inv, Types
  <2> QED
    BY <1>3, <2>1 DEF Smallest
<1>5. /\ buffer \in Seq(Cell) /\ stale \in Seq(Cell) /\ wire' \in Seq(Cell)
      /\ Len(buffer) \in Nat \ {0}
      /\ Len(wire') <= Len(wire)
      /\ memory' \in Seq(Cell)
      /\ Unread = buffer \o wire'
  BY <1>1, <1>2, <1>3, <1>4, ReadIs DEF Inv
<1>6. Newline \in Range(buffer) /\ TakeOrPrint(buffer, stale)
  BY <1>3, <1>5
<1>7. PICK e : e = EndOfLine(buffer)
  OBVIOUS
<1>8. PICK rest : rest = SubSeq(buffer, e + 1, Len(buffer))
  OBVIOUS
<1>9. \/ /\ buffer[1] = Id /\ ids' = ids + 1 /\ output' = output /\ fresh' = fresh
         /\ dropped' \in {0, Len(buffer)}
      \/ /\ buffer[1] # Id /\ ids' = ids /\ dropped' = 0
         /\ WriteToStdout(rest, stale)
  BY <1>3, <1>6, <1>7, <1>8 DEF TakeOrPrint
<1>10. /\ e \in 1 .. Len(buffer) /\ buffer[e] = Newline
       /\ buffer[1] = Newline => e = 1
  BY <1>5, <1>6, <1>7, EndOfLineIs
<1>11. PICK front : front = SubSeq(buffer, 1, e)
  OBVIOUS
<1>12. /\ front \in Seq(Cell) /\ rest \in Seq(Cell) /\ front \o rest = buffer
       /\ buffer[1] = Newline => front = << Newline >>
  <2>1. Len(buffer) \in Nat /\ e \in 1 .. Len(buffer)
        /\ e \in Nat /\ e + 1 \in Int
    BY <1>5, <1>10, LenProperties
  <2>2. front \in Seq(Cell) /\ rest \in Seq(Cell)
    <3>1. \A i \in 1 .. e : i \in 1 .. Len(buffer)
      BY <2>1
    <3>2. \A i \in e + 1 .. Len(buffer) : i \in 1 .. Len(buffer)
      BY <2>1
    <3>3. /\ \A i \in 1 .. e : buffer[i] \in Cell
          /\ \A i \in e + 1 .. Len(buffer) : buffer[i] \in Cell
      BY <1>5, <3>1, <3>2, ElementOfSeq
    <3> QED
      BY <1>8, <1>11, <2>1, <3>3, SubSeqProperties
  <2>3. front \o rest = buffer
    <3>1. /\ 1 \in 1 .. Len(buffer) + 1 /\ e \in 1 - 1 .. Len(buffer)
          /\ Len(buffer) \in e .. Len(buffer)
      BY <2>1
    <3>2. front \o rest = SubSeq(buffer, 1, Len(buffer))
      BY <1>5, <1>8, <1>11, <3>1, ConcatAdjacentSubSeq
    <3> QED
      BY <1>5, <3>2, SubSeqFull
  <2>4. ASSUME buffer[1] = Newline PROVE front = << Newline >>
    <3>1. SubSeq(buffer, 1, 1) = << buffer[1] >> \o SubSeq(buffer, 2, 1)
      <4>1. 1 \in 1 .. Len(buffer) /\ 1 \in 1 .. 1 /\ 1 \in 1 .. Len(buffer)
        BY <1>5, AtMostOne
      <4>2. SubSeq(buffer, 1, 1) = << buffer[1] >> \o SubSeq(buffer, 1 + 1, 1)
        BY <1>5, <4>1, SubSeqRecursiveFirst
      <4> QED
        BY <4>2
    <3>2. SubSeq(buffer, 2, 1) = << >>
      BY SubSeqEmpty
    <3>3. << Newline >> \in Seq(Cell)
      BY CellsAre
    <3>4. << Newline >> \o << >> = << Newline >>
      BY <3>3, ConcatEmptySeq
    <3> QED
      BY <1>10, <1>11, <2>4, <3>1, <3>2, <3>4
  <2> QED
    BY <2>2, <2>3, <2>4
<1>19. Placed(reports, buffer) => Placed(reports, << Newline >> \o rest)
  <2>1. /\ Len(buffer) \in Nat /\ e \in 1 .. Len(buffer)
        /\ 1 \in 1 .. Len(buffer) + 1 /\ e - 1 \in 1 - 1 .. Len(buffer)
        /\ Len(buffer) \in e - 1 .. Len(buffer) /\ (e - 1) + 1 = e
        /\ Len(buffer) \in e .. Len(buffer) /\ e \in Nat /\ e <= Len(buffer)
        /\ e \in 1 .. Len(buffer) + 1 /\ e \in Int
    BY <1>5, <1>10
  <2>2. PICK a : a = SubSeq(buffer, 1, e - 1)
    OBVIOUS
  <2>3. PICK c : c = SubSeq(buffer, e, Len(buffer))
    OBVIOUS
  <2>4. c = << Newline >> \o rest
    <3>1. c = << buffer[e] >> \o SubSeq(buffer, e + 1, Len(buffer))
      BY <1>5, <2>1, <2>3, SubSeqRecursiveFirst
    <3> QED
      BY <1>8, <1>10, <3>1
  <2>5. a \in Seq(Cell) /\ c \in Seq(Cell)
    <3>1. \A i \in 1 .. e - 1 : i \in 1 .. Len(buffer)
      BY <2>1
    <3>2. \A i \in e .. Len(buffer) : i \in 1 .. Len(buffer)
      BY <2>1
    <3>3. /\ \A i \in 1 .. e - 1 : buffer[i] \in Cell
          /\ \A i \in e .. Len(buffer) : buffer[i] \in Cell
      BY <1>5, <3>1, <3>2, ElementOfSeq
    <3>4. e - 1 \in Int /\ Len(buffer) \in Int /\ 1 \in Int
      BY <2>1
    <3> QED
      BY <2>1, <2>2, <2>3, <3>3, <3>4, SubSeqProperties
  <2>6. a \o c = buffer
    <3>1. SubSeq(buffer, 1, e - 1) \o SubSeq(buffer, (e - 1) + 1, Len(buffer))
          = SubSeq(buffer, 1, Len(buffer))
      BY <1>5, <2>1, ConcatAdjacentSubSeq
    <3> QED
      BY <1>5, <2>1, <2>2, <2>3, <3>1, SubSeqFull
  <2> QED
    BY <2>4, <2>5, <2>6, PlacedParts
<1>20. ASSUME buffer[1] # Id
       PROVE  /\ output' \in Seq(Cell) /\ fresh' \in BOOLEAN
              /\ fresh' => /\ fresh /\ printed' = printed \o Texts(rest)
                           /\ Placed(reports, output) /\ Placed(reports, buffer)
                              => Placed(reports, output')
  BY <1>5, <1>9, <1>12, <1>19, <1>20, WriteIs DEF Inv
<1>13. Unread' = wire'
  <2>1. SubSeq(memory', 1, 0) = << >>
    BY SubSeqEmpty
  <2>2. PICK v : v = wire'
    OBVIOUS
  <2>3. << >> \o v = v
    BY <1>5, <2>2, ConcatEmptySeq
  <2> QED
    BY <2>1, <2>2, <2>3 DEF Unread
<1>14. Types'
  <2>1. Len(wire') <= SendBuffer
    <3>1. \A a, b \in Nat : a <= b /\ b <= SendBuffer => a <= SendBuffer
      BY ReportsAssumption
    <3> QED
      BY <1>5, <3>1, LenProperties DEF Inv, Types
  <2>2. whole' \in BOOLEAN
    BY <1>3
  <2>3. output' \in Seq(Cell) /\ fresh' \in BOOLEAN
    <3>1. output \in Seq(Cell) /\ fresh \in BOOLEAN
      BY DEF Inv, Types
    <3> QED
      BY <1>9, <1>20, <3>1
  <2>5. dropped' \in 0 .. Len(memory')
    <3>1. PICK m : m = memory'
      OBVIOUS
    <3>2. m \in Seq(Cell) /\ Len(buffer) \in 0 .. Len(m)
      BY <1>1, <1>2, <1>3, <1>4, <3>1, ReadIs DEF Inv
    <3>3. Len(m) \in Nat
      BY <3>2, LenProperties
    <3>4. 0 \in 0 .. Len(m)
      BY <3>3
    <3> QED
      BY <1>9, <3>1, <3>2, <3>4
  <2>4. size' \in 0 .. Len(memory')
    BY <1>5, LenProperties
  <2> QED
    BY <1>3, <1>5, <2>1, <2>2, <2>3, <2>4, <2>5 DEF Inv, Types, serverVars
<1>15. IdFirst'
  <2>1. PICK v : v = wire'
    OBVIOUS
  <2>2. /\ Len(Unread) = Len(buffer) + Len(v) /\ Len(v) \in Nat
        /\ \A k \in 1 .. Len(buffer) + Len(v) : Unread[k] =
               IF k <= Len(buffer) THEN buffer[k] ELSE v[k - Len(buffer)]
    BY <1>5, <2>1, ConcatProperties, LenProperties
  <2>3. ASSUME NEW k \in 1 .. Len(v) PROVE v[k] # Id
    <3>1. PICK j : j = Len(buffer) + k
      OBVIOUS
    <3>2. /\ j \in 1 .. Len(buffer) + Len(v) /\ ~ (j <= Len(buffer))
          /\ j - Len(buffer) = k /\ j # 1
      BY <1>5, <2>2, <3>1
    <3>3. Unread[j] = v[k]
      BY <2>2, <3>2
    <3> QED
      BY <2>2, <3>2, <3>3 DEF Inv, IdFirst
  <2>4. ids' \in 0 .. 1
    <3>1. ids \in 0 .. 1
      BY DEF Inv, IdFirst
    <3>2. ASSUME buffer[1] = Id PROVE ids = 0
      <4>1. 1 \in 1 .. Len(buffer) + Len(v) /\ 1 <= Len(buffer)
        BY <1>5, <2>2
      <4>2. Unread[1] = Id
        BY <2>2, <3>2, <4>1
      <4> QED
        BY <2>2, <4>1, <4>2 DEF Inv, IdFirst
    <3> QED
      BY <1>9, <3>1, <3>2
  <2> QED
    BY <1>13, <2>1, <2>3, <2>4 DEF IdFirst
<1>16. OneWrite'
  BY <1>3 DEF Inv, OneWrite, serverVars
<1>17. CASE ~ alone
  <2>1. ~ alone'
    BY <1>3, <1>17 DEF serverVars
  <2> QED
    BY <1>14, <1>15, <1>16, <2>1 DEF Inv, Ordered, Complete
<1>18. CASE alone
  <2>1. PICK later : later = Pending'
    OBVIOUS
  <2>2. /\ later = wire' \o Left /\ later \in Seq(Cell)
        /\ Pending = buffer \o later /\ Left \in Seq(Cell)
    <3>1. Left \in Seq(Cell)
      BY <1>18, LeftType DEF Inv
    <3>2. Left' = Left
      BY <1>3 DEF Left, ToCome, serverVars
    <3>3. PICK v : v = wire'
      OBVIOUS
    <3>4. (buffer \o v) \o Left = buffer \o (v \o Left) /\ v \o Left \in Seq(Cell)
      BY <1>5, <3>1, <3>3, CellsConcat, ConcatProperties
    <3> QED
      BY <1>5, <1>13, <2>1, <3>1, <3>2, <3>3, <3>4 DEF Pending
  <2>3. PICK before : before = printed \o Texts(Pending)
    OBVIOUS
  <2>4. PICK after : after = printed' \o Texts(later)
    OBVIOUS
  <2>5. printed \in Seq(Cell)
    BY PrintedIs DEF Inv
  <2>6. fresh' => /\ Sorted(before) => Sorted(after)
                  /\ Range(after) \subseteq Range(before)
                  /\ whole /\ whole' => after = before
    <3>1. SUFFICES ASSUME fresh'
                   PROVE  /\ Sorted(before) => Sorted(after)
                          /\ Range(after) \subseteq Range(before)
                          /\ whole /\ whole' => after = before
      OBVIOUS
    <3>2. CASE buffer[1] = Id
      <4>1. << >> \in Seq(Cell) /\ buffer \o << >> = buffer
            /\ printed' = printed /\ printed \o Texts(<< >>) = printed
        BY <1>5, <1>9, <2>5, <3>2, EmptySeq, ConcatEmptySeq, TextsEmpty DEF printed
      <4>2. whole' => Texts(buffer) = << >>
        BY <1>3, <3>2, TextsOfId
      <4>3. /\ before = printed \o Texts((buffer \o << >>) \o later)
            /\ after = (printed \o Texts(<< >>)) \o Texts(later)
        BY <2>2, <2>3, <2>4, <4>1
      <4>4. /\ Sorted(before) => Sorted(after)
            /\ Range(after) \subseteq Range(before)
            /\ Texts(buffer) = << >> => after = before
        <5>1. PICK none : none = << >>
          OBVIOUS
        <5>2. /\ printed \in Seq(Cell) /\ buffer \in Seq(Cell)
              /\ none \in Seq(Cell) /\ later \in Seq(Cell)
          BY <1>5, <2>2, <2>5, <4>1, <5>1
        <5>3. Loses(Texts(buffer), printed \o Texts((buffer \o none) \o later),
                    (printed \o Texts(none)) \o Texts(later))
          BY <5>2, ReadLoses
        <5>4. /\ before = printed \o Texts((buffer \o none) \o later)
              /\ after = (printed \o Texts(none)) \o Texts(later)
          BY <4>3, <5>1
        <5> QED
          BY <5>3, <5>4 DEF Loses
      <4> QED
        BY <4>2, <4>4
    <3>3. CASE buffer[1] # Id
      <4>1. printed' = printed \o Texts(rest)
        BY <1>20, <3>1, <3>3
      <4>2. ASSUME whole PROVE Texts(front) = << >>
        <5>1. Pending # << >> /\ Pending[1] = buffer[1]
          BY <1>5, <2>2, CellsFirst
        <5>2. buffer[1] = Newline
          BY <1>18, <3>3, <4>2, <5>1 DEF Inv, Complete
        <5> QED
          BY <1>12, <5>2, TextsOne, CellsAre
      <4>3. /\ before = printed \o Texts((front \o rest) \o later)
            /\ after = (printed \o Texts(rest)) \o Texts(later)
        BY <1>12, <2>2, <2>3, <2>4, <4>1
      <4>4. /\ Sorted(before) => Sorted(after)
            /\ Range(after) \subseteq Range(before)
            /\ Texts(front) = << >> => after = before
        <5>1. /\ printed \in Seq(Cell) /\ front \in Seq(Cell)
              /\ rest \in Seq(Cell) /\ later \in Seq(Cell)
          BY <1>12, <2>2, <2>5
        <5>2. Loses(Texts(front), printed \o Texts((front \o rest) \o later),
                    (printed \o Texts(rest)) \o Texts(later))
          BY <5>1, ReadLoses
        <5> QED
          BY <4>3, <5>2 DEF Loses
      <4> QED
        BY <4>2, <4>4
    <3> QED
      BY <3>2, <3>3
  <2>7. fresh' => fresh
    BY <1>9, <1>20
  <2>8. whole' => whole
    BY <1>3
  <2>9. Ordered'
    <3>1. fresh' => /\ Sorted(before)
                    /\ \A t \in Range(before) : Reported(t)
      BY <1>18, <2>3, <2>7 DEF Inv, Ordered
    <3>2. after = printed' \o Texts(Pending') /\ reports' = reports
      BY <1>3, <2>1, <2>4 DEF serverVars
    <3>3. fresh' => Sorted(after) /\ \A t \in Range(after) : Reported(t)
      BY <2>6, <3>1
    <3>4. fresh' => Placed(reports, output') /\ Placed(reports, later)
      <4>1. SUFFICES ASSUME fresh'
                     PROVE  Placed(reports, output') /\ Placed(reports, later)
        OBVIOUS
      <4>2. Placed(reports, output) /\ Placed(reports, buffer \o later)
        BY <1>18, <2>2, <2>7, <4>1 DEF Inv, Ordered
      <4>3. Placed(reports, buffer) /\ Placed(reports, later)
        BY <1>5, <2>2, <4>2, PlacedParts
      <4> QED
        BY <1>9, <1>20, <4>1, <4>2, <4>3
    <3> QED
      BY <2>1, <3>2, <3>3, <3>4 DEF Ordered, Reported
  <2>10. Complete'
    <3>1. ASSUME whole', Pending' # << >> PROVE Pending'[1] \in {Newline, Id}
      <4>1. CASE wire' = << >>
        <5>1. Left = << >>
          BY <1>3, <3>1, <4>1 DEF Left
        <5>2. << >> \o << >> = << >>
          BY EmptySeq, ConcatEmptySeq
        <5> QED
          BY <2>1, <2>2, <3>1, <4>1, <5>1, <5>2
      <4>2. CASE wire' # << >>
        <5>1. wire'[1] = Newline
          BY <1>3, <3>1, <4>2
        <5>2. PICK v : v = wire'
          OBVIOUS
        <5>3. Len(v) \in Nat \ {0}
          BY <1>5, <4>2, <5>2, EmptySeq
        <5>4. (v \o Left)[1] = v[1]
          BY <1>5, <2>2, <5>2, <5>3, CellsFirst
        <5> QED
          BY <2>1, <2>2, <5>1, <5>2, <5>4
      <4> QED
        BY <4>1, <4>2
    <3>2. ASSUME whole', fresh'
          PROVE  printed' \o Texts(Pending') = Texts(FlattenSeq(reports'))
      <4>1. before = Texts(FlattenSeq(reports))
        BY <1>18, <2>3, <2>7, <2>8, <3>2 DEF Inv, Complete
      <4>2. after = before
        BY <2>6, <2>8, <3>2
      <4> QED
        BY <1>3, <2>1, <2>4, <4>1, <4>2 DEF serverVars
    <3> QED
      BY <3>1, <3>2 DEF Complete
  <2> QED
    BY <1>14, <1>15, <1>16, <2>9, <2>10 DEF Inv
<1> QED
  BY <1>17, <1>18

(* The read that found its newline before the rest was dropped prints what *)
(* is behind the buffer.                                                   *)
LEMMA InvReadDropped ==
    ASSUME Inv, ReadDropped
    PROVE  Inv'
<1>1. PICK stale : stale = SubSeq(memory, dropped + 1, Len(memory))
  OBVIOUS
<1>2. PICK rest : rest = << >>
  OBVIOUS
<1>3. /\ WriteToStdout(rest, stale) /\ dropped' = 0
      /\ UNCHANGED << serverVars, wire, memory, size, ids, whole >>
  BY <1>1, <1>2 DEF ReadDropped
<1>4. rest \in Seq(Cell) /\ stale \in Seq(Cell)
  <2>1. memory \in Seq(Cell) /\ Len(memory) \in Nat /\ dropped \in Nat
    BY LenProperties DEF Inv, Types
  <2>2. \A i \in dropped + 1 .. Len(memory) : memory[i] \in Cell
    BY <2>1
  <2> QED
    BY <1>1, <1>2, <2>1, <2>2, EmptySeq, SubSeqProperties
<1>5. /\ output' \in Seq(Cell) /\ fresh' \in BOOLEAN
      /\ fresh' => /\ fresh /\ printed' = printed
                   /\ Placed(reports, output) => Placed(reports, output')
  <2>1. Texts(rest) = << >> /\ printed \o << >> = printed
    BY <1>2, TextsEmpty, PrintedIs, ConcatEmptySeq DEF Inv
  <2>2. << Newline >> \in Seq(Cell) /\ << Newline >> \o rest = << Newline >>
    <3>1. << Newline >> \in Seq(Cell)
      BY CellsAre
    <3> QED
      BY <1>2, <3>1, ConcatEmptySeq
  <2>3. Placed(reports, << Newline >> \o rest)
    <3>1. Texts(<< Newline >>) = << >>
      BY TextsOne, CellsAre
    <3> QED
      BY <2>2, <3>1, PlacedNone
  <2> QED
    BY <1>3, <1>4, <2>1, <2>3, WriteIs DEF Inv
<1>6. UNCHANGED << raport, writes, reports, alone >>
  BY <1>3 DEF serverVars
<1>7. Unread' = Unread /\ Left' = Left
  BY <1>3, <1>6 DEF Unread, Left, ToCome
<1>8. PICK q : q = Pending
  OBVIOUS
<1>9. Pending' = q
  BY <1>7, <1>8 DEF Pending
<1>10. Types'
  <2>1. 0 \in 0 .. Len(memory)
    BY LenProperties DEF Inv, Types
  <2> QED
    BY <1>3, <1>5, <1>6, <2>1 DEF Inv, Types
<1>11. IdFirst' /\ OneWrite'
  BY <1>3, <1>6, <1>7 DEF Inv, IdFirst, OneWrite
<1>12. Ordered' /\ Complete'
  BY <1>3, <1>5, <1>6, <1>8, <1>9 DEF Inv, Ordered, Complete, Reported
<1> QED
  BY <1>10, <1>11, <1>12 DEF Inv

-----------------------------------------------------------------------------
(* The theorems *)

LEMMA InvNext ==
    ASSUME Inv, [Next]_vars
    PROVE  Inv'
<1>1. ASSUME NEW shape \in Shapes, SendRaport(shape) PROVE Inv'
  <2>1. shape \in Seq({"newline", "text"})
    BY ReportsAssumption
  <2> QED
    BY <1>1, <2>1, InvSendRaport
<1>2. ASSUME ContinueWrite PROVE Inv'
  BY <1>2, InvContinueWrite
<1>3. ASSUME NEW n \in 1 .. ReadSize, Read(n) PROVE Inv'
  <2>1. n \in Nat
    BY ReportsAssumption
  <2> QED
    BY <1>3, <2>1, InvReadPart, InvReadLine
<1>5. ASSUME ReadDropped PROVE Inv'
  BY <1>5, InvReadDropped
<1>4. ASSUME UNCHANGED vars PROVE Inv'
  <2>1. /\ UNCHANGED << raport, writes, reports, alone >>
        /\ UNCHANGED << memory, size, dropped, ids, output, whole, fresh >>
        /\ wire' = wire
    BY <1>4 DEF vars, serverVars, clientVars
  <2>2. Unread' = Unread /\ Left' = Left
    BY <2>1 DEF Unread, Left, ToCome
  <2>3. PICK q : q = Pending
    OBVIOUS
  <2>4. Pending' = q
    BY <2>2, <2>3 DEF Pending
  <2>5. Types' /\ IdFirst' /\ OneWrite'
    BY <2>1, <2>2 DEF Inv, Types, IdFirst, OneWrite
  <2>6. Ordered' /\ Complete'
    BY <2>1, <2>3, <2>4 DEF Inv, Ordered, Complete, Reported, printed
  <2> QED
    BY <2>5, <2>6 DEF Inv
<1> QED
  BY <1>1, <1>2, <1>3, <1>4, <1>5 DEF Next

LEMMA Invariant == Spec => []Inv
<1>1. Init => Inv
  BY InvInit
<1>2. Inv /\ [Next]_vars => Inv'
  BY InvNext
<1> QED
  BY <1>1, <1>2, PTL DEF Spec

(* Whatever the sizes, the buffer never counts cells it has not read, the  *)
(* connection never holds more than it can, and the id is read at most     *)
(* once (raport_buffer_, client.cc:134-193).                               *)
THEOREM TypeCorrect == Spec => []TypeOK
<1>1. Inv => TypeOK
  <2>1. SUFFICES ASSUME Inv PROVE TypeOK
    OBVIOUS
  <2>2. \A i \in DOMAIN writes : /\ writes[i].next \in 1 .. writes[i].last
                                 /\ writes[i].dangling \in BOOLEAN
    <3>1. \A i \in DOMAIN writes : writes[i] \in Write
      BY <2>1, LenProperties DEF Inv, Types
    <3> QED
      BY <3>1 DEF Write
  <2>3. Len(wire) \in 0 .. SendBuffer
    BY <2>1, LenProperties, ReportsAssumption DEF Inv, Types
  <2>4. ids \in 0 .. 1 /\ size \in 0 .. Len(memory) /\ dropped \in 0 .. Len(memory)
        /\ {whole, alone, fresh} \subseteq BOOLEAN
    BY <2>1 DEF Inv, Types, IdFirst
  <2> QED
    BY <2>2, <2>3, <2>4 DEF TypeOK
<1> QED
  BY <1>1, Invariant, PTL

(* Wherever reads and writes cut the stream, inside a line too, and        *)
(* however slowly it drains: as long as no report is built over one under  *)
(* way and no read is shorter than an earlier one, texts are printed once  *)
(* and in the order of the reports, and each behind what it stands behind  *)
(* in its report: a line can lose its end or be lost, but never its        *)
(* beginning or its middle (client.cc:145, client.cc:167-171,              *)
(* client.cc:188, connection.cc:57).                                       *)
THEOREM PrintedInOrder == Spec => []LinesInOrder
<1>1. Inv => LinesInOrder
  <2>1. SUFFICES ASSUME Inv, alone, fresh
                 PROVE  /\ \A i \in 1 .. Len(printed) - 1 :
                               Before(printed[i], printed[i + 1])
                        /\ \A t \in Range(printed) : t \in Range(reports[t.report])
                        /\ InPlace(output)
    BY DEF LinesInOrder
  <2>2. PICK u : u = Texts(Pending)
    OBVIOUS
  <2>3. printed \in Seq(Cell) /\ u \in Seq(Cell)
    BY <2>1, <2>2, UnreadType, TextsType, PrintedIs DEF Inv
  <2>4. Sorted(printed \o u) /\ \A t \in Range(printed \o u) : Reported(t)
    BY <2>1, <2>2 DEF Inv, Ordered
  <2>5. Sorted(printed)
    BY <2>3, <2>4, SortedParts
  <2>6. Range(printed) \subseteq Range(printed \o u)
    BY <2>3, RangeConcatenation
  <2>7. ASSUME NEW i \in 1 .. Len(printed) - 1
        PROVE  Before(printed[i], printed[i + 1])
    <3>1. i \in 1 .. Len(printed) /\ i + 1 \in 1 .. Len(printed) /\ i < i + 1
      BY <2>3, LenProperties
    <3> QED
      BY <2>5, <3>1 DEF Sorted
  <2>8. InPlace(output)
    BY <2>1 DEF Inv, Ordered, Placed, InPlace
  <2> QED
    BY <2>4, <2>6, <2>7, <2>8 DEF Reported
<1> QED
  BY <1>1, Invariant, PTL

(* If besides every read ended before a newline, what is printed and what  *)
(* is still to come make up everything the reports said                    *)
(* (server.cc:460-471, client.cc:185-193).                                 *)
THEOREM NothingLost == Spec => []ReportsIntact
<1>1. Inv => ReportsIntact
  BY ComingIs DEF Inv, Complete, ReportsIntact
<1> QED
  BY <1>1, Invariant, PTL

=============================================================================
