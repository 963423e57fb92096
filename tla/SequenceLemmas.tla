---------------------------- MODULE SequenceLemmas ----------------------------
(***************************************************************************)
(* FlattenSeq, of which balancers (the list of endpoints by weight) and    *)
(* the BufferQueue are made.  It is a recursive function: what holds for   *)
(* every length holds because there is no least length for which it does   *)
(* not.                                                                    *)
(***************************************************************************)
EXTENDS Integers, SequencesExt, FiniteSetTheorems, SequenceTheorems, WellFoundedInduction, TLAPS

LEMMA LeastNatural ==
  ASSUME NEW T \in SUBSET Nat, T # {}
  PROVE  \E n \in T : \A m \in T : n <= m
<1> DEFINE R == {p \in Nat \X Nat : p[1] < p[2]}
<1>1. OpToRel(<, Nat) = R BY DEF OpToRel
<1>2. IsWellFoundedOn(R, Nat) BY <1>1, NatLessThanWellFounded
<1> HIDE DEF R
<1>3. PICK n \in T : \A m \in T : ~(<<m, n>> \in R) BY <1>2, WFMin
<1>4. ASSUME NEW m \in T, m < n PROVE FALSE
  <2>1. <<m, n>> \in Nat \X Nat /\ m \in Nat /\ n \in Nat OBVIOUS
  <2>2. <<m, n>> \in R BY <1>4, <2>1 DEF R
  <2>3. QED BY <1>3, <2>2
<1>5. \A m \in T : m \in Nat /\ n \in Nat OBVIOUS
<1>6. QED BY <1>4, <1>5

LEMMA FlattenExists ==
  ASSUME NEW seqs, NEW n \in Nat \ {0}
  PROVE  \E f : f = [i \in 1 .. n |-> IF i = 1 THEN seqs[i] ELSE f[i - 1] \o seqs[i]]
<1> DEFINE Flat(m) == \E f : f = [i \in 1 .. m |-> IF i = 1 THEN seqs[i] ELSE f[i - 1] \o seqs[i]]
           T == {m \in Nat : m # 0 /\ ~Flat(m)}
<1>1. SUFFICES ASSUME T # {} PROVE FALSE OBVIOUS
<1>2. PICK m \in T : \A k \in T : m <= k
  <2> HIDE DEF Flat
  <2>1. T \in SUBSET Nat OBVIOUS
  <2> HIDE DEF T
  <2>2. QED BY <1>1, <2>1, LeastNatural
<1>3. CASE m = 1
  <2> DEFINE g == [i \in 1 .. m |-> seqs[i]]
  <2>1. g = [i \in 1 .. m |-> IF i = 1 THEN seqs[i] ELSE g[i - 1] \o seqs[i]] BY <1>3
  <2>2. QED BY <2>1
<1>4. CASE m # 1
  <2>1. m \in Nat /\ m - 1 \in Nat /\ m - 1 # 0 /\ m - 1 \notin T
    <3> HIDE DEF Flat
    <3>1. m \in Nat /\ m # 0 OBVIOUS
    <3>2. m - 1 \in Nat /\ m - 1 # 0 /\ ~(m <= m - 1) BY <1>4, <3>1
    <3> HIDE DEF T
    <3>3. QED BY <1>2, <3>1, <3>2
  <2>2. PICK h : h = [i \in 1 .. m - 1 |-> IF i = 1 THEN seqs[i] ELSE h[i - 1] \o seqs[i]]
    BY <2>1
  <2> DEFINE g == [i \in 1 .. m |-> IF i = m THEN h[i - 1] \o seqs[i] ELSE h[i]]
  <2>3. ASSUME NEW i \in 1 .. m - 1
        PROVE  g[i] = h[i] /\ h[i] = IF i = 1 THEN seqs[i] ELSE h[i - 1] \o seqs[i]
    <3> HIDE DEF Flat, T
    <3>1. i \in 1 .. m /\ i # m BY <2>1
    <3>2. g[i] = h[i] BY <3>1
    <3> HIDE DEF g
    <3>3. h[i] = IF i = 1 THEN seqs[i] ELSE h[i - 1] \o seqs[i] BY <2>2, Zenon
    <3>4. QED BY <3>2, <3>3
  <2>4. ASSUME NEW i \in 1 .. m
        PROVE  g[i] = IF i = 1 THEN seqs[i] ELSE g[i - 1] \o seqs[i]
    <3> HIDE DEF Flat, T
    <3>1. CASE i = m
      <4>1. m - 1 \in 1 .. m - 1 BY <1>4, <2>1
      <4>2. g[m - 1] = h[m - 1] BY <2>3, <4>1
      <4>3. QED BY <1>4, <3>1, <4>2
    <3>2. CASE i # m
      <4>1. i \in 1 .. m - 1 BY <2>1, <3>2
      <4>2. i # 1 => i - 1 \in 1 .. m - 1 BY <2>1, <4>1
      <4> HIDE DEF g
      <4>3. QED BY <2>3, <4>1, <4>2
    <3>3. QED BY <3>1, <3>2
  <2> DEFINE e == [i \in 1 .. m |-> IF i = 1 THEN seqs[i] ELSE g[i - 1] \o seqs[i]]
  <2>5. g = e BY <2>4
  <2>6. Flat(m) BY <2>5
  <2>7. QED BY <2>6
<1>5. QED BY <1>3, <1>4

LEMMA FlattenIs ==
  ASSUME NEW seqs, Len(seqs) \in Nat \ {0}
  PROVE  \E f : /\ f = [i \in 1 .. Len(seqs) |-> IF i = 1 THEN seqs[i] ELSE f[i - 1] \o seqs[i]]
                /\ FlattenSeq(seqs) = f[Len(seqs)]
<1> DEFINE g == CHOOSE f : f = [i \in 1 .. Len(seqs) |-> IF i = 1 THEN seqs[i] ELSE f[i - 1] \o seqs[i]]
<1>1. g = [i \in 1 .. Len(seqs) |-> IF i = 1 THEN seqs[i] ELSE g[i - 1] \o seqs[i]]
  BY FlattenExists
<1>2. FlattenSeq(seqs) = g[Len(seqs)] BY DEF FlattenSeq
<1>3. QED BY <1>1, <1>2

\* Sequences that are not empty make one that is not.
LEMMA FlattenType ==
  ASSUME NEW E, NEW seqs \in Seq(Seq(E) \ {<<>>}), seqs # <<>>
  PROVE  FlattenSeq(seqs) \in Seq(E) \ {<<>>}
<1> DEFINE S == Seq(E) \ {<<>>}
           n == Len(seqs)
<1>1. n \in Nat \ {0} /\ \A i \in 1 .. n : seqs[i] \in S
  BY EmptySeq, LenProperties, ElementOfSeq
<1>2. PICK f : /\ f = [i \in 1 .. n |-> IF i = 1 THEN seqs[i] ELSE f[i - 1] \o seqs[i]]
               /\ FlattenSeq(seqs) = f[n]
  BY <1>1, FlattenIs
<1> DEFINE Bad == {i \in 1 .. n : f[i] \notin S}
<1> HIDE DEF n, S
<1>3. ASSUME NEW i \in 1 .. n PROVE f[i] = IF i = 1 THEN seqs[i] ELSE f[i - 1] \o seqs[i]
  BY <1>2, Zenon
<1>4. Bad = {}
  <2>1. SUFFICES ASSUME Bad # {} PROVE FALSE OBVIOUS
  <2>2. Bad \in SUBSET Nat OBVIOUS
  <2>3. PICK i \in Bad : \A j \in Bad : i <= j
    <3> HIDE DEF Bad
    <3>1. QED BY <2>1, <2>2, LeastNatural
  <2>4. i \in 1 .. n /\ f[i] \notin S /\ seqs[i] \in S BY <1>1
  <2>5. i # 1 BY <1>3, <2>4
  <2>6. i - 1 \in 1 .. n /\ ~(i <= i - 1) BY <1>1, <2>4, <2>5
  <2>7. f[i - 1] \in S BY <2>3, <2>6
  <2>8. f[i] = f[i - 1] \o seqs[i] BY <1>3, <2>4, <2>5
  <2>9. f[i] \in S BY <2>4, <2>7, <2>8, ConcatProperties, ConcatEmptySeq, LenProperties, EmptySeq DEF S
  <2>10. QED BY <2>4, <2>9
<1>5. n \in 1 .. n BY <1>1
<1>6. f[n] \in S BY <1>4, <1>5
<1>7. QED BY <1>2, <1>6 DEF S
=============================================================================
