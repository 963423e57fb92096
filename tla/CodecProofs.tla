----------------------------- MODULE CodecProofs -----------------------------
(***************************************************************************)
(* What holds of two codecs for any messages, lengths, options and cuts of *)
(* the stream.                                                             *)
(***************************************************************************)
EXTENDS Codec, SequenceLemmas

-----------------------------------------------------------------------------
(* Messages.                                                               *)

\* What Meaning makes of one field.
MeaningOf(m, f) ==
  CASE f = "params" -> [i \in DOMAIN m.params |->
                          IF m.params[i] = Undefined THEN Null ELSE m.params[i]]
    [] f = "metadata" -> IF m.metadata = Empty THEN Undefined ELSE m.metadata
    [] OTHER -> m[f]

LEMMA MeaningIs ==
  ASSUME NEW m
  PROVE  Meaning(m) = [f \in DOMAIN m |-> MeaningOf(m, f)]
BY DEF Meaning, MeaningOf

\* A message that can be serialized is understood by the other side.
LEMMA RoundTrip ==
  ASSUME NEW s \in SerializerNames, NEW m \in Messages, Serializable(s, m)
  PROVE  /\ Deserialize(s, Serialize(s, m)).type = m.type
         /\ Meaning(Deserialize(s, Serialize(s, m))) = Meaning(m)
<1> DEFINE w == Serialize(s, m)
           d == Deserialize(s, w)
<1>1. m.type \in MessageTypes /\ DOMAIN m = Fields(m.type) BY MessagesAssumption
<1>2. /\ "type" \in DOMAIN m
      /\ "params" \in DOMAIN m => m.type = "request"
  BY <1>1 DEF Fields, MessageTypes
<1>3. s = "json" => w = JsonForm(m) BY DEF Serialize
<1>4. s # "json" => s = "protobuf" /\ w = ProtobufForm(m) BY DEF Serialize, SerializerNames
<1>5. s = "json" => /\ DOMAIN w = Defined(m)
                    /\ \A f \in Defined(m) : f # "params" => w[f] = m[f]
                    /\ "params" \in Defined(m)
                         => w["params"] = [i \in DOMAIN m.params |->
                                             IF m.params[i] = Undefined THEN Null ELSE m.params[i]]
  BY <1>3 DEF JsonForm
<1>6. s # "json" => /\ DOMAIN w = Written(m)
                    /\ \A f \in Written(m) : w[f] = m[f]
  BY <1>4 DEF ProtobufForm, Restrict
<1>7. "type" \in DOMAIN w /\ w.type = m.type
  BY <1>2, <1>5, <1>6 DEF Defined, Written, Optional
<1> HIDE DEF w
<1>8. DOMAIN d = DOMAIN m /\ \A f \in DOMAIN m : d[f] = IF f \in DOMAIN w THEN w[f] ELSE Absent(s, f)
  BY <1>1, <1>7 DEF Deserialize
<1>9. d.type = m.type BY <1>2, <1>7, <1>8
<1> HIDE DEF d
<1>10. ASSUME NEW f \in DOMAIN m PROVE MeaningOf(d, f) = MeaningOf(m, f)
  <2>1. CASE f = "params"
    <3>1. f \in Defined(m) BY <2>1 DEF Defined, Optional
    <3>2. CASE s = "json"
      <4>1. d["params"] = [i \in DOMAIN m.params |->
                             IF m.params[i] = Undefined THEN Null ELSE m.params[i]]
        BY <1>5, <1>8, <2>1, <3>1, <3>2
      <4>2. QED BY <2>1, <4>1 DEF MeaningOf, Undefined, Null
    <3>3. CASE s # "json"
      <4>1. d["params"] = m["params"]
        BY <1>4, <1>6, <1>8, <2>1, <3>1, <3>3 DEF Written, Absent
      <4>2. QED BY <2>1, <4>1 DEF MeaningOf
    <3>4. QED BY <3>2, <3>3
  <2>2. CASE f = "metadata"
    <3>1. CASE m["metadata"] = Undefined
      <4>1. d["metadata"] = Undefined
        BY <1>4, <1>5, <1>6, <1>8, <2>2, <3>1 DEF Defined, Optional, Written, Absent, Undefined
      <4>2. QED BY <2>2, <3>1, <4>1 DEF MeaningOf
    <3>2. CASE m["metadata"] # Undefined
      <4>1. f \in Defined(m) BY <2>2, <3>2 DEF Defined
      <4>2. \/ d["metadata"] = m["metadata"]
            \/ m["metadata"] = Empty /\ d["metadata"] = Undefined
        BY <1>4, <1>5, <1>6, <1>8, <2>2, <4>1 DEF Written, Absent
      <4>3. QED BY <2>2, <4>2 DEF MeaningOf, Empty, Undefined
    <3>3. QED BY <3>1, <3>2
  <2>3. CASE f # "params" /\ f # "metadata"
    <3>1. d[f] = m[f]
      <4>1. CASE f \in Defined(m)
        BY <1>5, <1>6, <1>8, <2>3, <4>1 DEF Written
      <4>2. CASE f \notin Defined(m)
        <5>1. f \in Optional /\ m[f] = Undefined BY <4>2 DEF Defined
        <5>2. f \notin DOMAIN w BY <1>5, <1>6, <4>2 DEF Written
        <5>3. Absent(s, f) = Undefined BY <5>1 DEF Absent, Optional
        <5>4. QED BY <1>8, <5>1, <5>2, <5>3
      <4>3. QED BY <4>1, <4>2
    <3>2. QED BY <2>3, <3>1 DEF MeaningOf
  <2>4. QED BY <2>1, <2>2, <2>3
<1>11. Meaning(d) = Meaning(m) BY <1>8, <1>10, MeaningIs
<1>12. QED BY <1>9, <1>11 DEF d, w

-----------------------------------------------------------------------------
(* Bytes and chunks.                                                       *)

LEMMA PositionsAre ==
  ASSUME NEW from \in Nat, NEW n \in Nat
  PROVE  /\ Positions(from, n) \in Seq(Nat)
         /\ Len(Positions(from, n)) = n
         /\ \A i \in 1 .. n : Positions(from, n)[i] = from + i
         /\ n = 0 => Positions(from, n) = <<>>
<1>1. \A i \in 1 .. n : from + i \in Nat OBVIOUS
<1>2. Positions(from, n) \in Seq(Nat) BY <1>1, IsASeq DEF Positions
<1>3. Len(Positions(from, n)) = n BY <1>2, LenProperties DEF Positions
<1>4. n = 0 => Positions(from, n) = <<>> BY <1>2, <1>3, EmptySeq
<1>5. QED BY <1>2, <1>3, <1>4 DEF Positions

\* Bytes that follow one another.
LEMMA PositionsJoin ==
  ASSUME NEW from \in Nat, NEW m \in Nat, NEW n \in Nat
  PROVE  Positions(from, m) \o Positions(from + m, n) = Positions(from, m + n)
<1> DEFINE a == Positions(from, m)
           b == Positions(from + m, n)
           c == Positions(from, m + n)
<1>1. /\ a \in Seq(Nat) /\ Len(a) = m /\ \A i \in 1 .. m : a[i] = from + i
      /\ b \in Seq(Nat) /\ Len(b) = n /\ \A i \in 1 .. n : b[i] = from + m + i
      /\ c \in Seq(Nat) /\ Len(c) = m + n /\ \A i \in 1 .. m + n : c[i] = from + i
  <2>1. from + m \in Nat /\ m + n \in Nat OBVIOUS
  <2>2. QED BY <2>1, PositionsAre
<1> HIDE DEF a, b, c
<1>2. /\ a \o b \in Seq(Nat) /\ Len(a \o b) = m + n
      /\ \A i \in 1 .. m + n : (a \o b)[i] = IF i <= m THEN a[i] ELSE b[i - m]
  <2>1. a \in Seq(Nat) /\ b \in Seq(Nat) /\ Len(a) = m /\ Len(b) = n BY <1>1
  <2>2. /\ a \o b \in Seq(Nat) /\ Len(a \o b) = Len(a) + Len(b)
        /\ \A i \in 1 .. Len(a) + Len(b) :
             (a \o b)[i] = IF i <= Len(a) THEN a[i] ELSE b[i - Len(a)]
    BY <2>1, ConcatProperties
  <2>3. QED BY <2>1, <2>2
<1>3. ASSUME NEW i \in 1 .. m + n PROVE (a \o b)[i] = c[i]
  <2>1. CASE i <= m BY <1>1, <1>2, <2>1
  <2>2. CASE ~(i <= m)
    <3>1. i - m \in 1 .. n BY <2>2
    <3>2. (a \o b)[i] = b[i - m] BY <1>2, <2>2
    <3>3. b[i - m] = from + m + (i - m) BY <1>1, <3>1
    <3>4. c[i] = from + i BY <1>1
    <3>5. QED BY <3>2, <3>3, <3>4
  <2>3. QED BY <2>1, <2>2
<1>4. a \o b = c BY <1>1, <1>2, <1>3, SeqEqual
<1>5. QED BY <1>4 DEF a, b, c

\* Their first and their last ones.
LEMMA PositionsCut ==
  ASSUME NEW from \in Nat, NEW n \in Nat, NEW k \in 0 .. n
  PROVE  /\ SubSeq(Positions(from, n), 1, k) = Positions(from, k)
         /\ SubSeq(Positions(from, n), k + 1, n) = Positions(from + k, n - k)
<1> DEFINE s == Positions(from, n)
           a == SubSeq(s, 1, k)
           b == SubSeq(s, k + 1, n)
           c == Positions(from, k)
           d == Positions(from + k, n - k)
<1>1. /\ s \in Seq(Nat) /\ Len(s) = n /\ \A i \in 1 .. n : s[i] = from + i
      /\ c \in Seq(Nat) /\ Len(c) = k /\ \A i \in 1 .. k : c[i] = from + i
      /\ d \in Seq(Nat) /\ Len(d) = n - k /\ \A i \in 1 .. n - k : d[i] = from + k + i
  <2>1. n - k \in Nat /\ from + k \in Nat /\ k \in Nat OBVIOUS
  <2>2. QED BY <2>1, PositionsAre
<1> HIDE DEF s, c, d
<1>2. /\ a \in Seq(Nat) /\ Len(a) = k /\ \A i \in 1 .. k : a[i] = s[i]
  <2>1. \A i \in 1 .. k : s[i] \in Nat BY <1>1
  <2>2. QED BY <2>1, SubSeqProperties
<1>3. /\ b \in Seq(Nat) /\ Len(b) = n - k /\ \A i \in 1 .. n - k : b[i] = s[k + i]
  <2>1. \A i \in k + 1 .. n : s[i] \in Nat
    <3>1. ASSUME NEW i \in k + 1 .. n PROVE s[i] \in Nat
      <4>1. i \in 1 .. n OBVIOUS
      <4>2. QED BY <1>1, <4>1
    <3>2. QED BY <3>1
  <2>2. k + 1 \in Int /\ n \in Int OBVIOUS
  <2>3. /\ b \in Seq(Nat) /\ Len(b) = IF k + 1 <= n THEN n - (k + 1) + 1 ELSE 0
        /\ \A i \in 1 .. n - (k + 1) + 1 : b[i] = s[k + 1 + i - 1]
    BY <2>1, <2>2, SubSeqProperties
  <2>4. QED BY <2>3
<1> HIDE DEF a, b
<1>4. a = c BY <1>1, <1>2, SeqEqual
<1>5. \A i \in 1 .. n - k : b[i] = d[i]
  <2>1. ASSUME NEW i \in 1 .. n - k PROVE b[i] = d[i]
    <3>1. k + i \in 1 .. n OBVIOUS
    <3>2. QED BY <1>1, <1>3, <3>1
  <2>2. QED BY <2>1
<1>6. b = d BY <1>1, <1>3, <1>5, SeqEqual
<1>7. QED BY <1>4, <1>6 DEF a, b, c, d, s

\* Where the i-th chunk of a queue ends that begins at a position.
Boundary(q, from, i) == IF i = 0 THEN from ELSE q[i][Len(q[i])]

\* The chunks of q are the bytes from one position to another, in order.
Consecutive(q, from, to) ==
  /\ q \in Seq(Seq(Nat))
  /\ \A i \in 1 .. Len(q) :
       /\ Boundary(q, from, i) \in Nat
       /\ Boundary(q, from, i - 1) < Boundary(q, from, i)
       /\ q[i] = Positions(Boundary(q, from, i - 1), Boundary(q, from, i) - Boundary(q, from, i - 1))
  /\ Boundary(q, from, Len(q)) = to

LEMMA BoundaryType ==
  ASSUME NEW q, NEW from \in Nat, NEW to, Consecutive(q, from, to)
  PROVE  /\ Len(q) \in Nat
         /\ \A i \in 0 .. Len(q) : Boundary(q, from, i) \in Nat
         /\ \A i \in 1 .. Len(q) : Boundary(q, from, i) - from \in Int
         /\ to \in Nat
<1>1. Len(q) \in Nat BY LenProperties DEF Consecutive
<1>2. ASSUME NEW i \in 0 .. Len(q) PROVE Boundary(q, from, i) \in Nat
  <2>1. CASE i = 0 BY <2>1 DEF Boundary
  <2>2. CASE i # 0
    <3>1. i \in 1 .. Len(q) BY <1>1, <2>2
    <3>2. QED BY <3>1 DEF Consecutive
  <2>3. QED BY <2>1, <2>2
<1>3. to \in Nat
  <2>1. Len(q) \in 0 .. Len(q) BY <1>1
  <2>2. QED BY <1>2, <2>1 DEF Consecutive
<1>4. \A i \in 1 .. Len(q) : Boundary(q, from, i) \in Nat BY <1>1, <1>2
<1>5. QED BY <1>1, <1>2, <1>3, <1>4

\* Boundaries are in order.
LEMMA BoundariesRise ==
  ASSUME NEW q, NEW from \in Nat, NEW to, Consecutive(q, from, to),
         NEW i \in 0 .. Len(q), NEW j \in i .. Len(q)
  PROVE  Boundary(q, from, i) <= Boundary(q, from, j)
<1> DEFINE B(k) == Boundary(q, from, k)
           T == {k \in i .. Len(q) : ~(B(i) <= B(k))}
<1>1. Len(q) \in Nat /\ \A k \in 0 .. Len(q) : B(k) \in Nat BY BoundaryType
<1>2. \A k \in 1 .. Len(q) : B(k - 1) < B(k) BY DEF Consecutive
<1> HIDE DEF B
<1>3. T = {}
  <2>1. SUFFICES ASSUME T # {} PROVE FALSE OBVIOUS
  <2>2. T \in SUBSET Nat BY <1>1
  <2>3. PICK k \in T : \A l \in T : k <= l
    <3> HIDE DEF T
    <3>1. QED BY <2>1, <2>2, LeastNatural
  <2>4. k \in i .. Len(q) /\ ~(B(i) <= B(k)) /\ i \in Nat OBVIOUS
  <2>5. k # i BY <1>1, <2>4
  <2>6. k - 1 \in i .. Len(q) /\ ~(k <= k - 1) BY <1>1, <2>4, <2>5
  <2>7. B(i) <= B(k - 1) BY <2>3, <2>6
  <2>8. k \in 1 .. Len(q) /\ k - 1 \in 0 .. Len(q) /\ k \in 0 .. Len(q) /\ i \in 0 .. Len(q)
    BY <1>1, <2>4, <2>5
  <2>9. B(k - 1) < B(k) /\ B(i) \in Nat /\ B(k - 1) \in Nat /\ B(k) \in Nat BY <1>1, <1>2, <2>8
  <2>10. QED BY <2>4, <2>7, <2>9
<1>4. QED BY <1>3 DEF B

\* The bytes in the first chunks are those up to their end.
LEMMA FlattenConsecutive ==
  ASSUME NEW q, NEW from \in Nat, NEW to, Consecutive(q, from, to), NEW n \in 0 .. Len(q)
  PROVE  /\ FlattenSeq(SubSeq(q, 1, n)) = Positions(from, Boundary(q, from, n) - from)
         /\ Boundary(q, from, n) - from \in Nat
         /\ TotalOf(SubSeq(q, 1, n)) = Boundary(q, from, n) - from
<1> DEFINE B(k) == Boundary(q, from, k)
           p == SubSeq(q, 1, n)
<1>1. Len(q) \in Nat /\ \A k \in 0 .. Len(q) : B(k) \in Nat BY BoundaryType
<1>2. \A k \in 1 .. Len(q) : B(k - 1) < B(k) /\ q[k] = Positions(B(k - 1), B(k) - B(k - 1))
  BY DEF Consecutive
<1>3. B(0) = from BY DEF Boundary
<1>4. \A k \in 0 .. Len(q) : B(k) - from \in Nat
  <2>1. ASSUME NEW k \in 0 .. Len(q) PROVE B(k) - from \in Nat
    <3>1. 0 \in 0 .. Len(q) /\ k \in 0 .. Len(q) BY <1>1
    <3>2. B(0) <= B(k) BY <3>1, BoundariesRise
    <3> HIDE DEF B
    <3>3. QED BY <1>1, <1>3, <3>2
  <2>2. QED BY <2>1
<1> HIDE DEF B
<1>5. FlattenSeq(p) = Positions(from, B(n) - from)
  <2>1. CASE n = 0
    <3>1. p = <<>> BY <2>1, SubSeqEmpty
    <3>2. FlattenSeq(p) = <<>> BY <3>1, EmptySeq DEF FlattenSeq
    <3>3. QED BY <1>3, <2>1, <3>2, PositionsAre
  <2>2. CASE n # 0
    <3>1. /\ n \in Nat \ {0} /\ Len(p) = n
          /\ \A i \in 1 .. n : p[i] = q[i]
      <4>1. q \in Seq(Seq(Nat)) /\ n \in Nat BY <1>1 DEF Consecutive
      <4>2. \A i \in 1 .. n : q[i] \in Seq(Nat) BY <1>1, <4>1, ElementOfSeq
      <4>3. QED BY <2>2, <4>1, <4>2, SubSeqProperties
    <3> HIDE DEF p
    <3>2. PICK f : /\ f = [i \in 1 .. Len(p) |-> IF i = 1 THEN p[i] ELSE f[i - 1] \o p[i]]
                   /\ FlattenSeq(p) = f[Len(p)]
      BY <3>1, FlattenIs
    <3>3. ASSUME NEW i \in 1 .. n PROVE f[i] = IF i = 1 THEN p[i] ELSE f[i - 1] \o p[i]
      BY <3>1, <3>2, Zenon
    <3> DEFINE T == {i \in 1 .. n : f[i] # Positions(from, B(i) - from)}
    <3>4. T = {}
      <4>1. SUFFICES ASSUME T # {} PROVE FALSE OBVIOUS
      <4>2. T \in SUBSET Nat OBVIOUS
      <4>3. PICK i \in T : \A j \in T : i <= j
        <5> HIDE DEF T
        <5>1. QED BY <4>1, <4>2, LeastNatural
      <4>4. i \in 1 .. n /\ f[i] # Positions(from, B(i) - from) OBVIOUS
      <4>5. /\ i \in 1 .. Len(q) /\ i \in 0 .. Len(q) /\ i - 1 \in 0 .. Len(q)
            /\ B(i) \in Nat /\ B(i - 1) \in Nat
            /\ p[i] = Positions(B(i - 1), B(i) - B(i - 1)) /\ B(i - 1) < B(i)
        <5>1. i \in 1 .. Len(q) /\ i \in 0 .. Len(q) /\ i - 1 \in 0 .. Len(q) BY <1>1, <4>4
        <5>2. QED BY <1>1, <1>2, <3>1, <4>4, <5>1
      <4>6. CASE i = 1 BY <1>3, <3>3, <4>4, <4>5, <4>6
      <4>7. CASE i # 1
        <5>1. i - 1 \in 1 .. n /\ ~(i <= i - 1) BY <4>4, <4>7
        <5>2. f[i - 1] = Positions(from, B(i - 1) - from) BY <4>3, <5>1
        <5>3. f[i] = f[i - 1] \o p[i] BY <3>3, <4>4, <4>7
        <5>4. B(i - 1) - from \in Nat /\ B(i) - B(i - 1) \in Nat BY <1>4, <4>5
        <5>5. from + (B(i - 1) - from) = B(i - 1)
              /\ (B(i - 1) - from) + (B(i) - B(i - 1)) = B(i) - from
          BY <4>5
        <5>6. Positions(from, B(i - 1) - from)
                  \o Positions(from + (B(i - 1) - from), B(i) - B(i - 1))
                = Positions(from, (B(i - 1) - from) + (B(i) - B(i - 1)))
          BY <5>4, PositionsJoin
        <5>7. f[i] = Positions(from, B(i) - from)
          BY <4>5, <5>2, <5>3, <5>5, <5>6
        <5>8. QED BY <4>4, <5>7
      <4>8. QED BY <4>6, <4>7
    <3>5. n \in 1 .. n BY <3>1
    <3>6. QED BY <3>1, <3>2, <3>4, <3>5
  <2>3. QED BY <2>1, <2>2
<1>6. Len(FlattenSeq(p)) = B(n) - from BY <1>4, <1>5, PositionsAre
<1>7. QED BY <1>4, <1>5, <1>6 DEF B, TotalOf

\* So are all of them.
LEMMA FlattenAll ==
  ASSUME NEW q, NEW from \in Nat, NEW to, Consecutive(q, from, to)
  PROVE  /\ FlattenSeq(q) = Positions(from, to - from)
         /\ to - from \in Nat
         /\ TotalOf(q) = to - from
<1>1. Len(q) \in 0 .. Len(q) BY BoundaryType
<1>2. SubSeq(q, 1, Len(q)) = q BY SubSeqFull DEF Consecutive
<1>3. Boundary(q, from, Len(q)) = to BY DEF Consecutive
<1>4. /\ FlattenSeq(SubSeq(q, 1, Len(q))) = Positions(from, Boundary(q, from, Len(q)) - from)
      /\ Boundary(q, from, Len(q)) - from \in Nat
      /\ TotalOf(SubSeq(q, 1, Len(q))) = Boundary(q, from, Len(q)) - from
  BY <1>1, FlattenConsecutive
<1>5. QED BY <1>2, <1>3, <1>4

\* BufferQueue.push: a chunk that follows the others.
LEMMA ChunkAdded ==
  ASSUME NEW q, NEW from \in Nat, NEW to, Consecutive(q, from, to), NEW n \in Nat \ {0}
  PROVE  Consecutive(Append(q, Positions(to, n)), from, to + n)
<1> DEFINE c == Positions(to, n)
           r == Append(q, c)
           l == Len(q)
<1>1. /\ l \in Nat /\ to \in Nat
      /\ \A i \in 0 .. l : Boundary(q, from, i) \in Nat
  BY BoundaryType
<1>2. c \in Seq(Nat) /\ Len(c) = n /\ c[n] = to + n
  <2>1. n \in Nat /\ n \in 1 .. n OBVIOUS
  <2>2. QED BY <1>1, <2>1, PositionsAre
<1>3. /\ r \in Seq(Seq(Nat)) /\ Len(r) = l + 1
      /\ \A i \in 1 .. l : r[i] = q[i]
      /\ r[l + 1] = c
  BY <1>2, AppendProperties DEF Consecutive
<1> HIDE DEF r, l
<1>4. ASSUME NEW i \in 0 .. l PROVE Boundary(r, from, i) = Boundary(q, from, i)
  <2>1. i # 0 => i \in 1 .. l BY <1>1
  <2>2. QED BY <1>3, <2>1 DEF Boundary
<1>5. Boundary(r, from, l + 1) = to + n BY <1>1, <1>2, <1>3 DEF Boundary
<1>6. Boundary(q, from, l) = to BY DEF Consecutive, l
<1>7. ASSUME NEW i \in 1 .. l + 1
      PROVE  /\ Boundary(r, from, i) \in Nat
             /\ Boundary(r, from, i - 1) < Boundary(r, from, i)
             /\ r[i] = Positions(Boundary(r, from, i - 1),
                                 Boundary(r, from, i) - Boundary(r, from, i - 1))
  <2>1. CASE i = l + 1
    <3>1. l \in 0 .. l /\ i - 1 = l BY <1>1, <2>1
    <3>2. Boundary(r, from, i - 1) = to BY <1>4, <1>6, <3>1
    <3>3. to + n - to = n /\ to < to + n /\ to + n \in Nat BY <1>1
    <3>4. r[i] = Positions(to, n) BY <1>3, <2>1
    <3> HIDE DEF c
    <3>5. Boundary(r, from, i) = to + n BY <1>5, <2>1
    <3>6. Boundary(r, from, i) - Boundary(r, from, i - 1) = n
      BY <1>1, <3>2, <3>5
    <3>7. QED BY <3>2, <3>3, <3>4, <3>5, <3>6
  <2>2. CASE i # l + 1
    <3>1. i \in 1 .. l /\ i \in 0 .. l /\ i - 1 \in 0 .. l BY <1>1, <2>2
    <3>2. Boundary(r, from, i) = Boundary(q, from, i)
          /\ Boundary(r, from, i - 1) = Boundary(q, from, i - 1)
      BY <1>4, <3>1
    <3>3. r[i] = q[i] BY <1>3, <3>1
    <3>4. QED BY <3>1, <3>2, <3>3 DEF Consecutive, l
  <2>3. QED BY <2>1, <2>2
<1>8. Consecutive(r, from, to + n) BY <1>3, <1>5, <1>7 DEF Consecutive
<1>9. QED BY <1>8 DEF r

\* The chunks that a read of n bytes uses up.
UsedUp(n, i) ==
  /\ TotalOf(SubSeq(chunks, 1, i)) <= n
  /\ i < Len(chunks) => TotalOf(SubSeq(chunks, 1, i + 1)) > n

LEMMA SomeUsedUp ==
  ASSUME NEW from \in Nat, NEW to, Consecutive(chunks, from, to), NEW n \in Nat
  PROVE  \E i \in 0 .. Len(chunks) : UsedUp(n, i)
<1> DEFINE B(k) == Boundary(chunks, from, k)
           l == Len(chunks)
           T == {k \in 0 .. l : B(k) - from > n}
<1>1. l \in Nat /\ \A k \in 0 .. l : B(k) \in Nat BY BoundaryType
<1>2. \A k \in 0 .. l : TotalOf(SubSeq(chunks, 1, k)) = B(k) - from /\ B(k) - from \in Nat
  BY FlattenConsecutive
<1>3. B(0) = from BY DEF Boundary
<1> HIDE DEF B
<1>4. CASE T = {}
  <2>1. l \in 0 .. l BY <1>1
  <2>2. ~(B(l) - from > n) BY <1>4, <2>1
  <2>3. UsedUp(n, l) BY <1>1, <1>2, <2>1, <2>2 DEF UsedUp
  <2>4. QED BY <2>1, <2>3
<1>5. CASE T # {}
  <2>1. T \in SUBSET Nat BY <1>1
  <2>2. PICK k \in T : \A m \in T : k <= m
    <3> HIDE DEF T
    <3>1. QED BY <1>5, <2>1, LeastNatural
  <2>3. k \in 0 .. l /\ B(k) - from > n OBVIOUS
  <2>4. k # 0 BY <1>3, <2>3
  <2>5. k - 1 \in 0 .. l /\ ~(k <= k - 1) BY <1>1, <2>3, <2>4
  <2>6. ~(B(k - 1) - from > n) BY <2>2, <2>5
  <2>7. TotalOf(SubSeq(chunks, 1, k - 1)) <= n BY <1>2, <2>5, <2>6
  <2>8. (k - 1) + 1 = k BY <2>3
  <2>9. TotalOf(SubSeq(chunks, 1, (k - 1) + 1)) > n BY <1>2, <2>3, <2>8
  <2>10. UsedUp(n, k - 1) BY <2>7, <2>9 DEF UsedUp
  <2>11. QED BY <2>5, <2>10
<1>6. QED BY <1>4, <1>5

\* BufferQueue.copy: what is left are the bytes that follow those read.
LEMMA ChunksRead ==
  ASSUME NEW from \in Nat, NEW to, Consecutive(chunks, from, to), NEW n \in 0 .. to - from
  PROVE  Consecutive(ChunksAfter(n), from + n, to)
<1> DEFINE l == Len(chunks)
           used == CHOOSE i \in 0 .. l : UsedUp(n, i)
           B(k) == Boundary(chunks, from, k)
           rest == SubSeq(chunks, used + 1, l)
           cut == n - TotalOf(SubSeq(chunks, 1, used))
           r == IF cut = 0 THEN rest ELSE <<SubSeq(rest[1], cut + 1, Len(rest[1]))>> \o Tail(rest)
<1>1. ChunksAfter(n) = r BY DEF ChunksAfter, UsedUp
<1>2. /\ l \in Nat /\ to \in Nat /\ \A k \in 0 .. l : B(k) \in Nat /\ n \in Nat
  <2>1. l \in Nat /\ to \in Nat /\ \A k \in 0 .. l : B(k) \in Nat BY BoundaryType
  <2>2. QED BY <2>1
<1>3. used \in 0 .. l /\ UsedUp(n, used) BY <1>2, SomeUsedUp
<1> HIDE DEF used
<1>4. \A k \in 0 .. l : TotalOf(SubSeq(chunks, 1, k)) = B(k) - from BY FlattenConsecutive
<1>5. /\ chunks \in Seq(Seq(Nat)) /\ B(0) = from /\ B(l) = to
      /\ \A k \in 1 .. l : /\ B(k - 1) < B(k) /\ chunks[k] \in Seq(Nat)
                           /\ chunks[k] = Positions(B(k - 1), B(k) - B(k - 1))
  <2>1. chunks \in Seq(Seq(Nat)) BY DEF Consecutive
  <2>2. \A k \in 1 .. l : chunks[k] \in Seq(Nat) BY <2>1, ElementOfSeq
  <2>3. B(0) = from BY DEF Boundary
  <2>4. QED BY <2>1, <2>2, <2>3 DEF Consecutive
<1>6. cut = n - (B(used) - from) /\ cut \in Nat
  <2>1. cut = n - (B(used) - from) BY <1>3, <1>4
  <2>2. B(used) - from <= n BY <1>3, <1>4 DEF UsedUp
  <2>3. B(used) \in Nat BY <1>2, <1>3
  <2>4. QED BY <1>2, <2>1, <2>2, <2>3
<1>7. /\ rest \in Seq(Seq(Nat)) /\ Len(rest) = l - used
      /\ \A i \in 1 .. l - used : rest[i] = chunks[used + i]
  <2>1. \A i \in used + 1 .. l : chunks[i] \in Seq(Nat) BY <1>2, <1>3, <1>5
  <2>2. used + 1 \in Int /\ l \in Int BY <1>2, <1>3
  <2>3. /\ rest \in Seq(Seq(Nat)) /\ Len(rest) = IF used + 1 <= l THEN l - (used + 1) + 1 ELSE 0
        /\ \A i \in 1 .. l - (used + 1) + 1 : rest[i] = chunks[used + 1 + i - 1]
    BY <2>1, <2>2, SubSeqProperties
  <2> HIDE DEF rest
  <2>4. ASSUME NEW i \in 1 .. l - used PROVE rest[i] = chunks[used + i]
    <3>1. i \in 1 .. l - (used + 1) + 1 /\ used + 1 + i - 1 = used + i BY <1>2, <1>3
    <3>2. rest[i] = chunks[used + 1 + i - 1] BY <2>3, <3>1
    <3>3. QED BY <3>1, <3>2
  <2>5. Len(rest) = l - used BY <1>2, <1>3, <2>3
  <2>6. QED BY <2>3, <2>4, <2>5
<1>8. cut # 0 => used + 1 \in 1 .. l /\ B(used) < from + n /\ from + n < B(used + 1)
  <2>1. SUFFICES ASSUME cut # 0 PROVE used + 1 \in 1 .. l /\ B(used) < from + n /\ from + n < B(used + 1)
    OBVIOUS
  <2>2. B(used) \in Nat BY <1>2, <1>3
  <2>3. B(used) < from + n BY <1>2, <1>6, <2>1, <2>2
  <2>4. used # l BY <1>2, <1>5, <2>3
  <2>5. used < l /\ used + 1 \in 0 .. l /\ used + 1 \in 1 .. l BY <1>2, <1>3, <2>4
  <2>6. TotalOf(SubSeq(chunks, 1, used + 1)) > n BY <1>3, <2>5 DEF UsedUp
  <2>7. B(used + 1) - from > n /\ B(used + 1) \in Nat BY <1>2, <1>4, <2>5, <2>6
  <2>8. QED BY <1>2, <2>3, <2>5, <2>7
<1> HIDE DEF B, cut, rest, l
<1>0. ASSUME NEW i \in 1 .. l - used
      PROVE  /\ used + i \in 1 .. l
             /\ B(used + i) \in Nat /\ B(used + i - 1) \in Nat /\ B(used + i - 1) < B(used + i)
             /\ chunks[used + i] = Positions(B(used + i - 1), B(used + i) - B(used + i - 1))
  <2> DEFINE k == used + i
  <2>1. k \in 1 .. l /\ k \in 0 .. l /\ k - 1 \in 0 .. l BY <1>2, <1>3
  <2>2. k - 1 = used + i - 1 BY <1>2, <1>3
  <2> HIDE DEF k
  <2>3. /\ B(k) \in Nat /\ B(k - 1) \in Nat /\ B(k - 1) < B(k)
        /\ chunks[k] = Positions(B(k - 1), B(k) - B(k - 1))
    BY <1>2, <1>5, <2>1
  <2>4. QED BY <2>1, <2>2, <2>3 DEF k
<1>9. /\ r \in Seq(Seq(Nat)) /\ Len(r) = l - used
      /\ \A i \in 1 .. l - used :
           r[i] = Positions(IF i = 1 THEN from + n ELSE B(used + i - 1),
                            B(used + i) - (IF i = 1 THEN from + n ELSE B(used + i - 1)))
  <2>1. CASE cut = 0
    <3>1. B(used) = from + n
      <4>1. B(used) \in Nat BY <1>2, <1>3
      <4>2. QED BY <1>2, <1>6, <2>1, <4>1
    <3>2. used + 1 - 1 = used BY <1>3
    <3>3. \A i \in 1 .. l - used : rest[i] = Positions(B(used + i - 1), B(used + i) - B(used + i - 1))
      BY <1>0, <1>7
    <3>4. QED BY <1>7, <2>1, <3>1, <3>2, <3>3
  <2>2. CASE cut # 0
    <3>1. used + 1 \in 1 .. l /\ used + 1 \in 0 .. l /\ B(used + 1) \in Nat /\ B(used) \in Nat
      BY <1>2, <1>3, <1>8, <2>2
    <3>2. rest[1] = Positions(B(used), B(used + 1) - B(used)) /\ rest # <<>> /\ 1 \in 1 .. l - used
      <4>1. 1 \in 1 .. l - used /\ used + 1 - 1 = used BY <1>2, <1>3, <3>1
      <4>2. chunks[used + 1] = Positions(B(used), B(used + 1) - B(used)) BY <1>0, <4>1
      <4>3. Len(rest) # 0 BY <1>2, <1>3, <1>7, <4>1
      <4>4. QED BY <1>7, <4>1, <4>2, <4>3, EmptySeq
    <3>3. /\ B(used + 1) - B(used) \in Nat /\ cut \in 0 .. B(used + 1) - B(used)
          /\ B(used) + cut = from + n
          /\ B(used + 1) - B(used) - cut = B(used + 1) - (from + n)
      BY <1>2, <1>6, <1>8, <2>2, <3>1
    <3>4. Len(rest[1]) = B(used + 1) - B(used) BY <3>1, <3>2, <3>3, PositionsAre
    <3> DEFINE h == SubSeq(rest[1], cut + 1, Len(rest[1]))
    <3>5. h = Positions(from + n, B(used + 1) - (from + n))
      <4>1. SubSeq(Positions(B(used), B(used + 1) - B(used)), cut + 1, B(used + 1) - B(used))
              = Positions(B(used) + cut, B(used + 1) - B(used) - cut)
        BY <3>1, <3>3, PositionsCut
      <4>2. QED BY <3>2, <3>3, <3>4, <4>1
    <3>6. h \in Seq(Nat)
      <4>1. B(used + 1) - (from + n) \in Nat /\ from + n \in Nat BY <1>2, <1>8, <2>2, <3>1
      <4>2. QED BY <3>5, <4>1, PositionsAre
    <3> HIDE DEF h
    <3>7. /\ Tail(rest) \in Seq(Seq(Nat)) /\ Len(Tail(rest)) = l - used - 1
          /\ \A i \in 1 .. l - used - 1 : Tail(rest)[i] = rest[i + 1]
      BY <1>7, <3>2, HeadTailProperties
    <3>8. <<h>> \in Seq(Seq(Nat)) /\ Len(<<h>>) = 1 /\ <<h>>[1] = h BY <3>6
    <3>9. r = <<h>> \o Tail(rest) BY <2>2 DEF h
    <3> DEFINE t == Tail(rest)
               u == <<h>>
    <3>10. /\ r \in Seq(Seq(Nat)) /\ Len(r) = 1 + (l - used - 1)
           /\ \A i \in 1 .. 1 + (l - used - 1) :
                r[i] = IF i <= 1 THEN u[i] ELSE t[i - 1]
      <4>1. /\ t \in Seq(Seq(Nat)) /\ Len(t) = l - used - 1
            /\ u \in Seq(Seq(Nat)) /\ Len(u) = 1 /\ r = u \o t
        BY <3>7, <3>8, <3>9
      <4> HIDE DEF t, u, r
      <4>2. /\ u \o t \in Seq(Seq(Nat)) /\ Len(u \o t) = Len(u) + Len(t)
            /\ \A i \in 1 .. Len(u) + Len(t) : (u \o t)[i] = IF i <= Len(u) THEN u[i] ELSE t[i - Len(u)]
        BY <4>1, ConcatProperties
      <4>3. QED BY <4>1, <4>2
    <3>11. 1 + (l - used - 1) = l - used BY <1>2, <1>3
    <3>12. ASSUME NEW i \in 1 .. l - used
           PROVE  r[i] = Positions(IF i = 1 THEN from + n ELSE B(used + i - 1),
                                   B(used + i) - (IF i = 1 THEN from + n ELSE B(used + i - 1)))
      <4>1. CASE i = 1
        <5>0. 1 \in 1 .. l - used /\ 1 <= 1 BY <1>2, <1>3, <4>1
        <5>1. r[1] = u[1]
          <6> HIDE DEF r, u, t
          <6>1. QED BY <3>10, <3>11, <5>0
        <5>2. r[1] = h BY <3>8, <5>1
        <5>3. QED BY <3>5, <4>1, <5>2
      <4>2. CASE i # 1
        <5>1. i - 1 \in 1 .. l - used - 1 /\ i - 1 + 1 = i /\ ~(i <= 1) BY <1>2, <1>3, <4>2
        <5>2. r[i] = rest[i] BY <3>7, <3>10, <3>11, <5>1
        <5>3. rest[i] = Positions(B(used + i - 1), B(used + i) - B(used + i - 1))
          BY <1>0, <1>7
        <5>4. QED BY <4>2, <5>2, <5>3
      <4>3. QED BY <4>1, <4>2
    <3>13. QED BY <3>10, <3>11, <3>12
  <2>3. QED BY <2>1, <2>2
<1> HIDE DEF r
<1>10. ASSUME NEW i \in 1 .. l - used PROVE Boundary(r, from + n, i) = B(used + i)
  <2> DEFINE a == IF i = 1 THEN from + n ELSE B(used + i - 1)
             d == B(used + i) - a
  <2>2. B(used + i) \in Nat /\ B(used + i - 1) \in Nat /\ B(used + i - 1) < B(used + i)
    BY <1>0
  <2>3. i = 1 => from + n < B(used + i)
    <3>1. CASE cut = 0
      <4>1. B(used) \in Nat BY <1>2, <1>3
      <4>2. B(used) = from + n BY <1>2, <1>6, <3>1, <4>1
      <4>3. i = 1 => used + i - 1 = used BY <1>3
      <4>4. QED BY <2>2, <4>2, <4>3
    <3>2. CASE cut # 0 BY <1>8, <3>2
    <3>3. QED BY <3>1, <3>2
  <2>4. a \in Nat /\ d \in Nat \ {0} /\ a + d = B(used + i) BY <1>2, <2>2, <2>3
  <2> HIDE DEF a, d
  <2>5. r[i] = Positions(a, d) BY <1>9 DEF a, d
  <2>6. Len(r[i]) = d /\ r[i][d] = a + d
    <3>1. d \in Nat /\ d \in 1 .. d BY <2>4
    <3>2. QED BY <2>4, <2>5, <3>1, PositionsAre
  <2>7. QED BY <2>4, <2>6 DEF Boundary
<1>11. Boundary(r, from + n, 0) = from + n BY DEF Boundary
<1>12. ASSUME NEW i \in 1 .. l - used
       PROVE  /\ Boundary(r, from + n, i) \in Nat
              /\ Boundary(r, from + n, i - 1) < Boundary(r, from + n, i)
              /\ r[i] = Positions(Boundary(r, from + n, i - 1),
                                  Boundary(r, from + n, i) - Boundary(r, from + n, i - 1))
  <2>2. B(used + i) \in Nat /\ B(used + i - 1) \in Nat /\ B(used + i - 1) < B(used + i)
    BY <1>0
  <2>3. CASE i = 1
    <3>1. Boundary(r, from + n, i - 1) = from + n BY <1>11, <2>3
    <3>2. from + n < B(used + i)
      <4>1. CASE cut = 0
        <5>1. B(used) \in Nat BY <1>2, <1>3
        <5>2. B(used) = from + n BY <1>2, <1>6, <4>1, <5>1
        <5>3. used + i - 1 = used BY <1>3, <2>3
        <5>4. QED BY <2>2, <5>2, <5>3
      <4>2. CASE cut # 0 BY <1>8, <2>3, <4>2
      <4>3. QED BY <4>1, <4>2
    <3>3. QED BY <1>9, <1>10, <2>2, <2>3, <3>1, <3>2
  <2>4. CASE i # 1
    <3>1. i - 1 \in 1 .. l - used /\ used + (i - 1) = used + i - 1 BY <1>2, <1>3, <2>4
    <3>2. Boundary(r, from + n, i - 1) = B(used + i - 1) BY <1>10, <3>1
    <3>3. QED BY <1>9, <1>10, <2>2, <2>4, <3>2
  <2>5. QED BY <2>3, <2>4
<1>13. Boundary(r, from + n, l - used) = to
  <2>1. CASE l = used
    <3>1. l - used = 0 /\ B(used) = to BY <1>2, <1>5, <2>1
    <3>2. cut = 0
      <4>1. used + 1 \notin 1 .. l BY <1>2, <2>1
      <4>2. QED BY <1>8, <4>1
    <3>3. from + n = to BY <1>2, <1>6, <3>1, <3>2
    <3>4. QED BY <1>11, <3>1, <3>3
  <2>2. CASE l # used
    <3>1. l - used \in 1 .. l - used /\ used + (l - used) = l BY <1>2, <1>3, <2>2
    <3>2. QED BY <1>5, <1>10, <3>1
  <2>3. QED BY <2>1, <2>2
<1>14. Consecutive(r, from + n, to) BY <1>9, <1>12, <1>13 DEF Consecutive
<1>15. QED BY <1>1, <1>14

-----------------------------------------------------------------------------
(* The inductive invariant.                                                *)

\* What the sender's encode() does not throw for.
Sendable ==
  {m \in Messages : /\ Serializable(sender.serializer, m)
                    /\ WithinLimit(m) /\ BodyLength(m) <= MaxPacketLength}

Packets == {Packet(at, m) : at \in Nat, m \in Sendable}

\* Where the first k frames end.
Edge(k) == IF k = 0 THEN 0 ELSE End(frames[k])

\* Frames follow one another in the stream.
Stream ==
  /\ frames \in Seq(Packets)
  /\ \A i \in DOMAIN frames : frames[i].at = Edge(i - 1)
  /\ \A i, j \in DOMAIN frames : i < j => End(frames[i]) <= frames[j].at

Lengths ==
  /\ {sender, receiver} \subseteq Options
  /\ push \in {"returned", "running", "threw"}
  /\ {arrived, handled, totalLength} \subseteq Nat
  /\ arrived <= Sent /\ handled <= arrived /\ totalLength <= arrived

\* The first byte that has not been read.
Start == arrived - totalLength

\* The queue holds what has arrived and has not been read.
Queued == Consecutive(chunks, Start, arrived)

Decodable == {Deserialize(sender.serializer, Serialize(sender.serializer, m)) : m \in Messages}

\* Unless it has thrown, push() has decoded all frames up to the first byte not read.
InStep ==
  /\ messages \in Seq(Decodable) /\ received \in Seq(Decodable)
  /\ push # "threw" =>
       /\ Len(received) + Len(messages) <= Len(frames)
       /\ Start = Edge(Len(received) + Len(messages))
       /\ \A i \in DOMAIN messages :
            Meaning(messages[i]) = Meaning(frames[Len(received) + i].of)

IInv == Stream /\ Lengths /\ Queued /\ InStep /\ InOrderWhole /\ SameOptionsAgree

USE LengthsAssumption

LEMMA LimitsType == ASSUME NEW o \in Options PROVE MaxBody(o) \in Nat /\ MaxDecompressed(o) \in Nat
<1>1. {o.maxBodyLength, o.maxDecompressedBodyLength} \subseteq Nat \cup {Off} BY OptionsAssumption
<1>2. MaxPacketLength \in Nat OBVIOUS
<1>3. MaxBody(o) \in Nat BY <1>1, <1>2 DEF MaxBody, NormalizeLimit
<1>4. QED BY <1>1, <1>3 DEF MaxDecompressed, NormalizeLimit

\* A frame tells its message, and is as long as the sender allows.
LEMMA PacketFacts ==
  ASSUME sender \in Options, NEW f \in Packets
  PROVE  /\ f.at \in Nat /\ f.of \in Sendable /\ f = Packet(f.at, f.of)
         /\ f.bodyLength \in 1 .. MaxPacketLength
         /\ End(f) \in Nat /\ f.at + HeaderLength < End(f)
<1>1. PICK at \in Nat, m \in Sendable : f = Packet(at, m) BY DEF Packets
<1>2. f.at = at /\ f.of = m /\ f.bodyLength = BodyLength(m) BY <1>1 DEF Packet
<1>3. BodyLength(m) \in 1 .. MaxPacketLength
  <2>1. m \in Messages /\ BodyLength(m) <= MaxPacketLength BY DEF Sendable
  <2>2. BodyLength(m) \in Nat \ {0} BY <2>1 DEF BodyLength
  <2>3. QED BY <2>1, <2>2
<1>4. End(f) \in Nat /\ f.at + HeaderLength < End(f) BY <1>2, <1>3 DEF End
<1>5. QED BY <1>1, <1>2, <1>3, <1>4

LEMMA StreamFacts ==
  ASSUME Stream, sender \in Options
  PROVE  /\ Len(frames) \in Nat /\ DOMAIN frames = 1 .. Len(frames)
         /\ \A i \in 1 .. Len(frames) : frames[i] \in Packets
         /\ \A i \in 0 .. Len(frames) : Edge(i) \in Nat
         /\ Sent = Edge(Len(frames))
<1>1. frames \in Seq(Packets) BY DEF Stream
<1>2. /\ Len(frames) \in Nat /\ DOMAIN frames = 1 .. Len(frames)
      /\ \A i \in 1 .. Len(frames) : frames[i] \in Packets
  BY <1>1, LenProperties, ElementOfSeq
<1>3. ASSUME NEW i \in 0 .. Len(frames) PROVE Edge(i) \in Nat
  <2>1. i # 0 => i \in 1 .. Len(frames) BY <1>2
  <2>2. i # 0 => End(frames[i]) \in Nat BY <1>2, <2>1, PacketFacts
  <2>3. QED BY <2>2 DEF Edge
<1>4. Sent = Edge(Len(frames))
  <2>1. frames = <<>> <=> Len(frames) = 0 BY <1>1, EmptySeq
  <2>2. QED BY <2>1 DEF Sent, Edge, Last
<1>5. QED BY <1>2, <1>3, <1>4

\* Later frames end later.
LEMMA EdgesRise ==
  ASSUME Stream, sender \in Options, NEW i \in 0 .. Len(frames), NEW j \in 0 .. Len(frames), i < j
  PROVE  Edge(i) <= frames[j].at /\ Edge(i) + HeaderLength < Edge(j) /\ frames[j].at \in Nat
<1>1. Len(frames) \in Nat /\ DOMAIN frames = 1 .. Len(frames) /\ Edge(i) \in Nat BY StreamFacts
<1>2. j \in 1 .. Len(frames) /\ frames[j] \in Packets BY <1>1, StreamFacts
<1>3. /\ frames[j].at \in Nat /\ End(frames[j]) \in Nat
      /\ frames[j].at + HeaderLength < End(frames[j])
  BY <1>2, PacketFacts
<1>4. Edge(i) <= frames[j].at
  <2>1. CASE i = 0 BY <1>3, <2>1 DEF Edge
  <2>2. CASE i # 0
    <3>1. i \in 1 .. Len(frames) BY <1>1, <2>2
    <3>2. End(frames[i]) <= frames[j].at BY <1>1, <1>2, <3>1 DEF Stream
    <3>3. QED BY <2>2, <3>2 DEF Edge
  <2>3. QED BY <2>1, <2>2
<1>5. Edge(j) = End(frames[j]) BY <1>2 DEF Edge
<1>6. HeaderLength \in Nat OBVIOUS
<1>7. QED BY <1>1, <1>3, <1>4, <1>5, <1>6

\* The number of frames that have been decoded.
Decoded == Len(received) + Len(messages)

LEMMA DecodedType ==
  ASSUME InStep
  PROVE  Len(received) \in Nat /\ Len(messages) \in Nat /\ Decoded \in Nat
<1>1. Len(received) \in Nat /\ Len(messages) \in Nat BY LenProperties DEF InStep
<1>2. QED BY <1>1 DEF Decoded

\* The header that push() finds is that of the next frame.
LEMMA NextHeader ==
  ASSUME IInv, push = "running", totalLength >= HeaderLength
  PROVE  /\ Decoded + 1 \in 1 .. Len(frames)
         /\ frames[Decoded + 1] \in Packets
         /\ frames[Decoded + 1].at = Start
         /\ HeadersAt(Peek(HeaderLength))
              = {f \in {frames[Decoded + 1]} : f.version = receiver.version}
<1> DEFINE k == Decoded
<1>1. /\ Stream /\ sender \in Options /\ arrived \in Nat /\ totalLength \in Nat
      /\ totalLength <= arrived /\ arrived <= Sent /\ HeaderLength \in Nat \ {0}
  BY DEF IInv, Lengths
<1>2. k \in Nat /\ k <= Len(frames) /\ Start = Edge(k) BY DecodedType DEF IInv, InStep, Decoded
<1>3. /\ Len(frames) \in Nat /\ DOMAIN frames = 1 .. Len(frames)
      /\ \A i \in 1 .. Len(frames) : frames[i] \in Packets
      /\ \A i \in 0 .. Len(frames) : Edge(i) \in Nat
      /\ Sent = Edge(Len(frames))
  BY <1>1, StreamFacts
<1>4. Start \in Nat /\ arrived - Start = totalLength BY <1>1 DEF Start
<1> HIDE DEF k
<1>5. k # Len(frames)
  <2>1. SUFFICES ASSUME k = Len(frames) PROVE FALSE OBVIOUS
  <2>2. Start = Sent BY <1>2, <1>3, <2>1
  <2>3. QED BY <1>1, <1>4, <2>2
<1>6. k + 1 \in 1 .. Len(frames)
  <2>1. Len(frames) \in Nat BY <1>3
  <2>2. k \in Nat /\ k <= Len(frames) BY <1>2
  <2>3. QED BY <1>5, <2>1, <2>2
<1>7. frames[k + 1].at = Start
  <2>1. frames[k + 1].at = Edge((k + 1) - 1) BY <1>1, <1>3, <1>6 DEF Stream
  <2>2. (k + 1) - 1 = k BY <1>2
  <2>3. QED BY <1>2, <2>1, <2>2
<1>8. Peek(HeaderLength) = Positions(Start, HeaderLength)
  <2>1. FlattenSeq(chunks) = Positions(Start, totalLength)
    <3>1. Consecutive(chunks, Start, arrived) BY DEF IInv, Queued
    <3>2. QED BY <1>4, <3>1, FlattenAll
  <2>2. HeaderLength \in 0 .. totalLength BY <1>1
  <2>3. totalLength \in Nat BY <1>1
  <2>4. SubSeq(Positions(Start, totalLength), 1, HeaderLength) = Positions(Start, HeaderLength)
    BY <1>4, <2>2, <2>3, PositionsCut
  <2>5. QED BY <2>1, <2>4 DEF Peek
<1>9. ASSUME NEW f \in Range(frames), Peek(HeaderLength) = Positions(f.at, HeaderLength)
      PROVE  f = frames[k + 1]
  <2>1. PICK i \in 1 .. Len(frames) : f = frames[i] BY <1>3 DEF Range
  <2>2. f.at \in Nat BY <1>1, <1>3, <2>1, PacketFacts
  <2>3. f.at = Start
    <3>1. 1 \in 1 .. HeaderLength /\ HeaderLength \in Nat BY <1>1
    <3>2. Positions(f.at, HeaderLength)[1] = f.at + 1 /\ Positions(Start, HeaderLength)[1] = Start + 1
      BY <1>4, <2>2, <3>1, PositionsAre
    <3>3. f.at + 1 = Start + 1 BY <1>8, <1>9, <3>2
    <3>4. QED BY <1>4, <2>2, <3>3
  <2>4. /\ i \in 0 .. Len(frames) /\ k + 1 \in 0 .. Len(frames)
        /\ Edge(i) = End(f) /\ Edge(k + 1) = End(frames[k + 1])
    BY <1>2, <1>3, <1>6, <2>1 DEF Edge
  <2>5. /\ f.at + HeaderLength < End(f) /\ End(f) \in Nat
        /\ Start + HeaderLength < End(frames[k + 1]) /\ End(frames[k + 1]) \in Nat
    BY <1>1, <1>3, <1>6, <1>7, <2>1, PacketFacts
  <2>6. ~(i < k + 1)
    <3>1. SUFFICES ASSUME i < k + 1 PROVE FALSE OBVIOUS
    <3>2. Edge(i) <= frames[k + 1].at BY <1>1, <2>4, <3>1, EdgesRise
    <3>3. QED BY <1>1, <1>4, <1>7, <2>3, <2>4, <2>5, <3>2
  <2>7. ~(k + 1 < i)
    <3>1. SUFFICES ASSUME k + 1 < i PROVE FALSE OBVIOUS
    <3>2. Edge(k + 1) <= frames[i].at BY <1>1, <2>4, <3>1, EdgesRise
    <3>3. QED BY <1>1, <1>4, <2>1, <2>3, <2>4, <2>5, <3>2
  <2>8. i = k + 1 BY <1>2, <2>4, <2>6, <2>7
  <2>9. QED BY <2>1, <2>8
<1>10. frames[k + 1] \in Range(frames) BY <1>3, <1>6 DEF Range
<1>11. HeadersAt(Peek(HeaderLength)) = {f \in {frames[k + 1]} : f.version = receiver.version}
  BY <1>7, <1>8, <1>9, <1>10 DEF HeadersAt
<1>12. QED BY <1>3, <1>6, <1>7, <1>11 DEF k

-----------------------------------------------------------------------------
(* The steps.                                                              *)

LEMMA InitInv == Init => IInv
<1>1. SUFFICES ASSUME Init PROVE IInv OBVIOUS
<1>2. frames = <<>> /\ DOMAIN frames = {} /\ Len(frames) = 0 /\ Sent = 0
  BY <1>1, EmptySeq DEF Init, Sent
<1>3. Stream BY <1>2, EmptySeq DEF Stream
<1>4. Lengths BY <1>1, <1>2 DEF Init, Lengths
<1>5. Start = 0 /\ arrived = 0 BY <1>1 DEF Init, Start
<1>6. Queued
  <2>1. chunks = <<>> BY <1>1 DEF Init
  <2>2. chunks \in Seq(Seq(Nat)) /\ Len(chunks) = 0 BY <2>1, EmptySeq
  <2>3. QED BY <1>5, <2>2 DEF Queued, Consecutive, Boundary
<1>7. /\ messages = <<>> /\ received = <<>> /\ Len(<<>>) = 0
      /\ DOMAIN messages = {} /\ DOMAIN received = {}
  BY <1>1, EmptySeq DEF Init
<1>8. InStep BY <1>2, <1>5, <1>7, EmptySeq DEF InStep, Edge
<1>9. InOrderWhole BY <1>2, <1>7 DEF InOrderWhole
<1>10. SameOptionsAgree BY <1>1 DEF Init, SameOptionsAgree
<1>11. QED BY <1>3, <1>4, <1>6, <1>8, <1>9, <1>10 DEF IInv

\* The codecs do not change.
LEMMA SameSender ==
  ASSUME UNCHANGED codecs
  PROVE  Packets' = Packets /\ Decodable' = Decodable /\ sender' = sender /\ receiver' = receiver
<1>1. sender' = sender /\ receiver' = receiver BY DEF codecs
<1>2. Sendable' = Sendable
  BY <1>1 DEF Sendable, WithinLimit, BodyLength, ShouldCompress
<1>3. \A at, m : Packet(at, m)' = Packet(at, m)
  BY <1>1 DEF Packet, BodyLength, ShouldCompress
<1>4. Packets' = Packets BY <1>2, <1>3 DEF Packets
<1>5. Decodable' = Decodable BY <1>1 DEF Decodable
<1>6. QED BY <1>1, <1>4, <1>5

LEMMA SameStream ==
  ASSUME Stream, UNCHANGED <<codecs, frames>>
  PROVE  Stream' /\ Sent' = Sent /\ \A k : Edge(k)' = Edge(k)
<1>1. Packets' = Packets BY SameSender
<1>2. \A k : Edge(k)' = Edge(k) BY DEF Edge, End
<1>3. Sent' = Sent BY DEF Sent, End
<1>4. Stream' BY <1>1, <1>2 DEF Stream, End
<1>5. QED BY <1>2, <1>3, <1>4

LEMMA EncodeInv == ASSUME IInv, NEW m \in Messages, Encode(m) PROVE IInv'
<1> DEFINE f == Packet(Sent, m)
           n == Len(frames)
<1>1. /\ Stream /\ Lengths /\ Queued /\ InStep /\ InOrderWhole /\ SameOptionsAgree
      /\ sender \in Options
  BY DEF IInv, Lengths
<1>2. /\ frames' = Append(frames, f)
      /\ UNCHANGED <<codecs, arrived, chunks, totalLength, push, messages, received, handled>>
  BY DEF Encode, queue
<1>3. Packets' = Packets /\ Decodable' = Decodable /\ sender' = sender /\ receiver' = receiver
  BY <1>2, SameSender
<1>4. /\ n \in Nat /\ DOMAIN frames = 1 .. n
      /\ \A i \in 1 .. n : frames[i] \in Packets
      /\ \A i \in 0 .. n : Edge(i) \in Nat
      /\ Sent = Edge(n) /\ Sent \in Nat
  <2>1. n \in 0 .. n BY <1>1, StreamFacts
  <2>2. QED BY <1>1, <2>1, StreamFacts
<1>5. f \in Packets
  <2>1. m \in Sendable BY DEF Encode, Sendable
  <2>2. QED BY <1>4, <2>1 DEF Packets
<1>6. f.at = Sent /\ End(f) \in Nat /\ Sent < End(f)
  <2>1. f.at = Sent BY DEF Packet
  <2>2. f.at + HeaderLength < End(f) /\ End(f) \in Nat BY <1>1, <1>5, PacketFacts
  <2> HIDE DEF f
  <2>3. HeaderLength \in Nat OBVIOUS
  <2>4. QED BY <1>4, <2>1, <2>2, <2>3
<1> HIDE DEF f
<1>7. /\ frames' \in Seq(Packets) /\ Len(frames') = n + 1 /\ DOMAIN frames' = 1 .. n + 1
      /\ \A i \in 1 .. n : frames'[i] = frames[i]
      /\ frames'[n + 1] = f
  <2>1. frames \in Seq(Packets) BY <1>1 DEF Stream
  <2>2. /\ frames' \in Seq(Packets) /\ Len(frames') = n + 1
        /\ \A i \in 1 .. n : frames'[i] = frames[i]
        /\ frames'[n + 1] = f
    BY <1>2, <1>5, <2>1, AppendProperties
  <2>3. QED BY <2>2, LenProperties
<1>8. \A i \in 0 .. n : Edge(i)' = Edge(i)
  <2>1. ASSUME NEW i \in 0 .. n PROVE Edge(i)' = Edge(i)
    <3>1. i # 0 => i \in 1 .. n BY <1>4
    <3>2. QED BY <1>7, <3>1 DEF Edge, End
  <2>2. QED BY <2>1
<1>9. Sent' = End(f)
  <2>1. frames' # <<>> BY <1>4, <1>7, EmptySeq
  <2>2. Last(frames') = f BY <1>7 DEF Last
  <2>3. QED BY <2>1, <2>2 DEF Sent, End
<1>10. Stream'
  <2>1. ASSUME NEW i \in 1 .. n + 1 PROVE frames'[i].at = Edge(i - 1)'
    <3>1. CASE i = n + 1
      <4>1. i - 1 = n /\ n \in 0 .. n BY <1>4, <3>1
      <4>2. QED BY <1>4, <1>6, <1>7, <1>8, <3>1, <4>1
    <3>2. CASE i # n + 1
      <4>1. i \in 1 .. n /\ i - 1 \in 0 .. n BY <1>4, <3>2
      <4>2. frames[i].at = Edge(i - 1) BY <1>1, <1>4, <4>1 DEF Stream
      <4>3. QED BY <1>7, <1>8, <4>1, <4>2
    <3>3. QED BY <3>1, <3>2
  <2>2. ASSUME NEW i \in 1 .. n + 1, NEW j \in 1 .. n + 1, i < j
        PROVE  End(frames'[i]) <= frames'[j].at
    <3>0. n \in Nat BY <1>4
    <3> HIDE DEF n
    <3>1. i \in 1 .. n BY <2>2, <3>0
    <3>2. CASE j = n + 1
      <4>1. i \in 0 .. n /\ n \in 0 .. n /\ i # 0 BY <1>4, <3>1
      <4>2. End(frames[i]) = Edge(i) BY <4>1 DEF Edge
      <4>3. Edge(i) <= Edge(n)
        <5>1. CASE i = n BY <1>4, <4>1, <5>1
        <5>2. CASE i # n
          <6>1. i < n BY <3>0, <3>1, <5>2
          <6>2. Edge(i) + HeaderLength < Edge(n) BY <1>1, <4>1, <6>1, EdgesRise DEF n
          <6>3. Edge(i) \in Nat /\ Edge(n) \in Nat /\ HeaderLength \in Nat BY <1>4, <4>1
          <6>4. QED BY <6>2, <6>3
        <5>3. QED BY <5>1, <5>2
      <4>4. QED BY <1>4, <1>6, <1>7, <3>1, <3>2, <4>2, <4>3
    <3>3. CASE j # n + 1
      <4>1. j \in 1 .. n BY <3>0, <3>3
      <4>2. End(frames[i]) <= frames[j].at BY <1>1, <1>4, <2>2, <3>1, <4>1 DEF Stream
      <4>3. QED BY <1>7, <3>1, <4>1, <4>2
    <3>4. QED BY <3>2, <3>3
  <2>3. frames' \in Seq(Packets') BY <1>3, <1>7
  <2>4. \A g : End(g)' = End(g) BY DEF End
  <2>5. QED BY <1>7, <2>1, <2>2, <2>3, <2>4 DEF Stream, End
<1>11. Lengths'
  <2>1. arrived \in Nat /\ arrived <= Sent BY <1>1 DEF Lengths
  <2>2. arrived <= Sent' BY <1>4, <1>6, <1>9, <2>1
  <2>3. QED BY <1>1, <1>2, <1>3, <2>2 DEF Lengths
<1>12. Start' = Start /\ Queued' BY <1>1, <1>2 DEF Queued, Start
<1>13. InStep'
  <2>1. SUFFICES ASSUME push # "threw"
                 PROVE  /\ Decoded <= n + 1
                        /\ Start = Edge(Decoded)'
                        /\ \A i \in DOMAIN messages :
                             Meaning(messages[i]) = Meaning(frames'[Len(received) + i].of)
    BY <1>1, <1>2, <1>3, <1>7, <1>12 DEF InStep, Decoded, Edge
  <2>2. Len(received) \in Nat /\ Len(messages) \in Nat /\ Decoded \in Nat BY <1>1, DecodedType
  <2>3. Decoded <= n /\ Start = Edge(Decoded) BY <1>1, <2>1 DEF InStep, Decoded
  <2>4. Decoded \in 0 .. n /\ Decoded <= n + 1 BY <1>4, <2>2, <2>3
  <2>5. Start = Edge(Decoded)'
    <3>1. \A k \in 0 .. n : Edge(k) = IF k = 0 THEN 0 ELSE End(frames'[k]) BY <1>8 DEF Edge, End
    <3>2. Start = IF Decoded = 0 THEN 0 ELSE End(frames'[Decoded]) BY <2>3, <2>4, <3>1
    <3>3. Decoded' = Decoded BY <1>2 DEF Decoded
    <3>4. QED BY <3>2, <3>3 DEF Edge, End
  <2>6. ASSUME NEW i \in DOMAIN messages
        PROVE  Meaning(messages[i]) = Meaning(frames'[Len(received) + i].of)
    <3>1. i \in 1 .. Len(messages) BY <1>1, LenProperties DEF InStep
    <3>2. Len(received) + i \in 1 .. n BY <1>4, <2>2, <2>3, <3>1 DEF Decoded
    <3>3. QED BY <1>1, <1>7, <2>1, <3>2 DEF InStep
  <2>7. QED BY <2>4, <2>5, <2>6
<1>14. InOrderWhole'
  <2>1. Len(received) \in Nat /\ DOMAIN received = 1 .. Len(received) /\ Len(received) <= n
    BY <1>1, LenProperties DEF InOrderWhole, InStep
  <2>2. ASSUME NEW i \in 1 .. n + 1
        PROVE  i \in DOMAIN received <=> End(frames'[i]) <= handled
    <3>1. CASE i = n + 1
      <4>1. i \notin DOMAIN received BY <1>4, <2>1, <3>1
      <4>2. handled \in Nat /\ arrived \in Nat /\ handled <= arrived /\ arrived <= Sent
        BY <1>1 DEF Lengths
      <4>3. ~(End(f) <= handled) BY <1>4, <1>6, <4>2
      <4>4. QED BY <1>7, <3>1, <4>1, <4>3
    <3>2. CASE i # n + 1
      <4>1. i \in 1 .. n BY <1>4, <3>2
      <4>2. QED BY <1>1, <1>4, <1>7, <4>1 DEF InOrderWhole
    <3>3. QED BY <3>1, <3>2
  <2>3. ASSUME NEW i \in DOMAIN received PROVE Meaning(received[i]) = Meaning(frames'[i].of)
    <3>1. i \in 1 .. n BY <1>4, <2>1
    <3>2. QED BY <1>1, <1>7, <3>1 DEF InOrderWhole
  <2>4. Len(received) <= n + 1 BY <1>4, <2>1
  <2>5. QED BY <1>2, <1>7, <2>2, <2>3, <2>4 DEF InOrderWhole, End
<1>15. SameOptionsAgree'
  <2>1. \A g \in Range(frames) : g \in Range(frames')
    <3>1. ASSUME NEW i \in 1 .. n PROVE i \in 1 .. n + 1 /\ frames'[i] = frames[i]
      BY <1>4, <1>7
    <3>2. QED BY <1>4, <1>7, <3>1 DEF Range
  <2>2. QED BY <1>1, <1>2, <1>3, <2>1 DEF SameOptionsAgree
<1>16. QED BY <1>10, <1>11, <1>12, <1>13, <1>14, <1>15 DEF IInv

LEMMA PushInv == ASSUME IInv, NEW n \in 1 .. Sent - arrived, Push(n) PROVE IInv'
<1>1. /\ Stream /\ Lengths /\ Queued /\ InStep /\ InOrderWhole /\ SameOptionsAgree
      /\ sender \in Options
      /\ arrived \in Nat /\ handled \in Nat /\ totalLength \in Nat
      /\ handled <= arrived /\ totalLength <= arrived
  BY DEF IInv, Lengths
<1>2. /\ push = "returned" /\ push' = "running"
      /\ arrived + n <= Sent /\ arrived' = arrived + n /\ totalLength' = totalLength + n
      /\ chunks' = Append(chunks, Positions(arrived, n))
      /\ UNCHANGED <<codecs, frames, messages, received, handled>>
  BY DEF Push
<1>3. Packets' = Packets /\ Decodable' = Decodable /\ sender' = sender /\ receiver' = receiver
  BY <1>2, SameSender
<1>4. Stream' /\ Sent' = Sent /\ \A k : Edge(k)' = Edge(k) BY <1>1, <1>2, SameStream
<1>5. n \in Nat \ {0}
  <2>1. Len(frames) \in 0 .. Len(frames) /\ Sent \in Nat
    <3>1. Len(frames) \in 0 .. Len(frames) BY <1>1, StreamFacts
    <3>2. QED BY <1>1, <3>1, StreamFacts
  <2>2. QED BY <1>1, <2>1
<1>6. Lengths' BY <1>1, <1>2, <1>3, <1>4, <1>5 DEF Lengths
<1>7. Start' = Start /\ Start \in Nat BY <1>1, <1>2, <1>5 DEF Start
<1>8. Queued'
  <2>1. Consecutive(Append(chunks, Positions(arrived, n)), Start, arrived + n)
    BY <1>1, <1>5, <1>7, ChunkAdded DEF Queued
  <2>2. QED BY <1>2, <1>7, <2>1 DEF Queued
<1>9. InStep' BY <1>1, <1>2, <1>3, <1>7 DEF InStep, Edge, End
<1>10. InOrderWhole' BY <1>1, <1>2 DEF InOrderWhole, End
<1>11. SameOptionsAgree' BY <1>2 DEF SameOptionsAgree
<1>12. QED BY <1>4, <1>6, <1>8, <1>9, <1>10, <1>11 DEF IInv

\* push() returns: every frame that it has not decoded is incomplete.
LEMMA ReturnInv == ASSUME IInv, Return PROVE IInv'
<1> DEFINE k == Decoded
           l == Len(received)
<1>1. /\ Stream /\ Lengths /\ Queued /\ InStep /\ InOrderWhole /\ SameOptionsAgree
      /\ sender \in Options
      /\ arrived \in Nat /\ handled \in Nat /\ totalLength \in Nat
      /\ handled <= arrived /\ totalLength <= arrived /\ arrived <= Sent
  BY DEF IInv, Lengths
<1>2. /\ push = "running" /\ push' = "returned"
      /\ received' = received \o messages /\ messages' = <<>> /\ handled' = arrived
      /\ UNCHANGED <<codecs, frames, arrived, chunks, totalLength>>
  BY DEF Return, queue
<1>3. Packets' = Packets /\ Decodable' = Decodable /\ sender' = sender /\ receiver' = receiver
  BY <1>2, SameSender
<1>4. Stream' /\ Sent' = Sent /\ \A i : Edge(i)' = Edge(i) BY <1>1, <1>2, SameStream
<1>5. Lengths' BY <1>1, <1>2, <1>3, <1>4 DEF Lengths
<1>6. Start' = Start /\ Queued' BY <1>1, <1>2 DEF Queued, Start
<1>7. /\ messages \in Seq(Decodable) /\ received \in Seq(Decodable)
      /\ l \in Nat /\ Len(messages) \in Nat /\ k \in Nat /\ k = l + Len(messages)
      /\ DOMAIN messages = 1 .. Len(messages) /\ DOMAIN received = 1 .. l
      /\ k <= Len(frames) /\ Start = Edge(k)
  BY <1>1, <1>2, DecodedType, LenProperties DEF InStep, Decoded
<1>8. /\ received' \in Seq(Decodable) /\ Len(received') = k /\ DOMAIN received' = 1 .. k
      /\ \A i \in 1 .. k : received'[i] = IF i <= l THEN received[i] ELSE messages[i - l]
  <2>1. /\ received' \in Seq(Decodable) /\ Len(received') = l + Len(messages)
        /\ \A i \in 1 .. l + Len(messages) :
             received'[i] = IF i <= l THEN received[i] ELSE messages[i - l]
    BY <1>2, <1>7, ConcatProperties
  <2>2. QED BY <1>7, <2>1, LenProperties
<1>9. /\ Len(frames) \in Nat /\ DOMAIN frames = 1 .. Len(frames)
      /\ \A i \in 1 .. Len(frames) : frames[i] \in Packets
      /\ \A i \in 0 .. Len(frames) : Edge(i) \in Nat
      /\ Sent = Edge(Len(frames))
  BY <1>1, StreamFacts
<1> HIDE DEF k, l
<1>10. InStep'
  <2>1. messages' \in Seq(Decodable) /\ Len(messages') = 0 /\ DOMAIN messages' = {}
    BY <1>2, EmptySeq
  <2>2. Len(received') + Len(messages') = k BY <1>7, <1>8, <2>1
  <2>3. Start' = IF k = 0 THEN 0 ELSE End(frames[k]) BY <1>6, <1>7 DEF Edge
  <2>5. QED BY <1>2, <1>3, <1>7, <1>8, <2>1, <2>2, <2>3 DEF InStep, Edge, End
<1>11. ASSUME NEW i \in 1 .. Len(frames), i <= k PROVE End(frames[i]) <= arrived
  <2>1. i \in 0 .. Len(frames) /\ k \in 0 .. Len(frames) /\ Edge(i) = End(frames[i])
    BY <1>7, <1>9 DEF Edge
  <2>2. Edge(i) <= Edge(k)
    <3>1. CASE i = k BY <1>9, <2>1, <3>1
    <3>2. CASE i # k
      <4>1. i < k BY <1>7, <1>11, <2>1, <3>2
      <4>2. Edge(i) + HeaderLength < Edge(k) BY <1>1, <2>1, <4>1, EdgesRise
      <4>3. Edge(i) \in Nat /\ Edge(k) \in Nat /\ HeaderLength \in Nat BY <1>9, <2>1
      <4>4. QED BY <4>2, <4>3
    <3>3. QED BY <3>1, <3>2
  <2>3. Start <= arrived BY <1>1 DEF Start
  <2>4. Edge(i) \in Nat /\ Edge(k) \in Nat BY <1>9, <2>1
  <2>5. QED BY <1>1, <1>7, <2>1, <2>2, <2>3, <2>4
<1>12. ASSUME k + 1 \in 1 .. Len(frames) PROVE End(frames[k + 1]) > arrived
  <2>1. frames[k + 1].at = Start
    <3>1. frames[k + 1].at = Edge((k + 1) - 1) BY <1>1, <1>9, <1>12 DEF Stream
    <3>2. (k + 1) - 1 = k BY <1>7
    <3>3. QED BY <1>7, <3>1, <3>2
  <2>2. /\ Start + HeaderLength < End(frames[k + 1]) /\ End(frames[k + 1]) \in Nat
        /\ frames[k + 1].bodyLength \in Nat
        /\ End(frames[k + 1]) = Start + HeaderLength + frames[k + 1].bodyLength
    <3>1. frames[k + 1] \in Packets BY <1>9, <1>12
    <3>2. /\ frames[k + 1].at + HeaderLength < End(frames[k + 1]) /\ End(frames[k + 1]) \in Nat
          /\ frames[k + 1].bodyLength \in Nat
      BY <1>1, <3>1, PacketFacts
    <3>3. QED BY <2>1, <3>2 DEF End
  <2>3. Start \in Nat /\ arrived = Start + totalLength BY <1>1 DEF Start
  <2>4. CASE totalLength < HeaderLength BY <1>1, <2>2, <2>3, <2>4
  <2>5. CASE ~(totalLength < HeaderLength)
    <3>1. totalLength >= HeaderLength BY <1>1, <2>5
    <3>2. PICK f \in HeadersAt(Peek(HeaderLength)) : ~Whole(f) BY <2>5 DEF Return
    <3>3. f = frames[k + 1] BY <1>2, <3>1, <3>2, NextHeader DEF k
    <3>4. ~(totalLength >= HeaderLength + frames[k + 1].bodyLength) BY <3>2, <3>3 DEF Whole
    <3>5. QED BY <1>1, <2>2, <2>3, <3>4
  <2>6. QED BY <2>4, <2>5
<1>13. ASSUME NEW i \in 1 .. Len(frames), ~(i <= k) PROVE End(frames[i]) > arrived
  <2>1. k + 1 \in 1 .. Len(frames) /\ k + 1 \in 0 .. Len(frames) /\ i \in 0 .. Len(frames)
        /\ k + 1 # 0 /\ i # 0
    BY <1>7, <1>9, <1>13
  <2>2. End(frames[k + 1]) > arrived BY <1>12, <2>1
  <2>3. CASE i = k + 1 BY <2>2, <2>3
  <2>4. CASE i # k + 1
    <3>1. k + 1 < i
      <4>1. k \in Nat /\ i \in Int BY <1>7, <2>1
      <4>2. QED BY <1>13, <2>4, <4>1
    <3>2. Edge(k + 1) + HeaderLength < Edge(i) BY <1>1, <2>1, <3>1, EdgesRise
    <3>3. Edge(k + 1) = End(frames[k + 1]) /\ Edge(i) = End(frames[i]) BY <2>1 DEF Edge
    <3>4. Edge(k + 1) \in Nat /\ Edge(i) \in Nat /\ HeaderLength \in Nat BY <1>9, <2>1
    <3>5. QED BY <1>1, <2>2, <3>2, <3>3, <3>4
  <2>5. QED BY <2>3, <2>4
<1>14. InOrderWhole'
  <2>1. ASSUME NEW i \in 1 .. Len(frames) PROVE i \in 1 .. k <=> End(frames[i]) <= arrived
    <3>1. CASE i <= k
      <4>1. i \in 1 .. k BY <1>7, <1>9, <3>1
      <4>2. QED BY <1>11, <3>1, <4>1
    <3>2. CASE ~(i <= k)
      <4>1. End(frames[i]) > arrived BY <1>13, <3>2
      <4>2. frames[i] \in Packets BY <1>9
      <4>3. End(frames[i]) \in Nat BY <1>1, <4>2, PacketFacts
      <4>4. QED BY <1>1, <3>2, <4>1, <4>3
    <3>3. QED BY <3>1, <3>2
  <2>2. ASSUME NEW i \in 1 .. k PROVE Meaning(received'[i]) = Meaning(frames[i].of)
    <3>1. CASE i <= l
      <4>1. i \in 1 .. l BY <1>7, <3>1
      <4>2. QED BY <1>1, <1>7, <1>8, <3>1, <4>1 DEF InOrderWhole
    <3>2. CASE ~(i <= l)
      <4>1. i - l \in 1 .. Len(messages) /\ l + (i - l) = i BY <1>7, <3>2
      <4>2. Meaning(messages[i - l]) = Meaning(frames[l + (i - l)].of)
        BY <1>1, <1>2, <1>7, <4>1 DEF InStep, l
      <4>3. QED BY <1>8, <3>2, <4>1, <4>2
    <3>3. QED BY <3>1, <3>2
  <2>3. QED BY <1>2, <1>7, <1>8, <1>9, <2>1, <2>2 DEF InOrderWhole, End
<1>15. SameOptionsAgree' BY <1>2 DEF SameOptionsAgree
<1>16. QED BY <1>4, <1>5, <1>6, <1>10, <1>14, <1>15 DEF IInv

\* A frame that is read whole is the next one; if push() refuses it, the peers differ or
\* compression has made it too long.
LEMMA DecodeInv == ASSUME IInv, DecodeFrame PROVE IInv'
<1> DEFINE k == Decoded
           l == Len(received)
           f == frames[k + 1]
           size == HeaderLength + f.bodyLength
           d == Deserialize(f.serializer, f.body)
<1>1. /\ Stream /\ Lengths /\ Queued /\ InStep /\ InOrderWhole /\ SameOptionsAgree
      /\ sender \in Options /\ receiver \in Options
      /\ arrived \in Nat /\ handled \in Nat /\ totalLength \in Nat
      /\ handled <= arrived /\ totalLength <= arrived /\ arrived <= Sent
  BY DEF IInv, Lengths
<1>2. push = "running" /\ totalLength >= HeaderLength BY DEF DecodeFrame
<1>3. /\ k + 1 \in 1 .. Len(frames) /\ f \in Packets /\ f.at = Start
      /\ HeadersAt(Peek(HeaderLength)) = {g \in {f} : g.version = receiver.version}
  BY <1>2, NextHeader
<1>4. /\ Whole(f)
      /\ chunks' = ChunksAfter(size) /\ totalLength' = totalLength - size
      /\ \/ Acceptable(f) /\ messages' = Append(messages, d) /\ push' = push
         \/ ~Acceptable(f) /\ messages' = <<>> /\ push' = "threw"
      /\ UNCHANGED <<codecs, frames, arrived, received, handled>>
  <2> HIDE DEF f
  <2>1. PICK g \in HeadersAt(Peek(HeaderLength)) :
          /\ Whole(g)
          /\ chunks' = ChunksAfter(HeaderLength + g.bodyLength)
          /\ totalLength' = totalLength - (HeaderLength + g.bodyLength)
          /\ \/ Acceptable(g) /\ messages' = Append(messages, Deserialize(g.serializer, g.body)) /\ push' = push
             \/ ~Acceptable(g) /\ messages' = <<>> /\ push' = "threw"
    BY Zenon DEF DecodeFrame
  <2>2. g = f BY <1>3, <2>1
  <2>3. QED BY <2>1, <2>2 DEF DecodeFrame
<1>5. /\ f.of \in Sendable /\ f = Packet(f.at, f.of) /\ f.bodyLength \in Nat
      /\ End(f) = Start + size /\ size \in Nat
  <2>1. f.of \in Sendable /\ f = Packet(f.at, f.of) /\ f.bodyLength \in Nat BY <1>1, <1>3, PacketFacts
  <2>2. Start \in Nat BY <1>1 DEF Start
  <2>3. HeaderLength \in Nat OBVIOUS
  <2> HIDE DEF f
  <2>4. End(f) = Start + size BY <1>3, <2>1, <2>2, <2>3 DEF End
  <2>5. QED BY <2>1, <2>3, <2>4
<1>6. size <= totalLength BY <1>1, <1>4, <1>5 DEF Whole
<1>7. /\ k \in Nat /\ l \in Nat /\ Len(messages) \in Nat /\ k = l + Len(messages)
      /\ messages \in Seq(Decodable) /\ received \in Seq(Decodable)
      /\ DOMAIN messages = 1 .. Len(messages)
  BY <1>1, DecodedType, LenProperties DEF InStep, Decoded
<1>8. /\ d.type = f.of.type /\ Meaning(d) = Meaning(f.of) /\ d \in Decodable
      /\ f.messageType = f.of.type /\ f.serializer = sender.serializer
  <2>1. /\ f.serializer = sender.serializer /\ f.messageType = f.of.type
        /\ f.body = Serialize(sender.serializer, f.of)
    BY <1>5 DEF Packet
  <2>2. /\ f.of \in Messages /\ Serializable(sender.serializer, f.of)
        /\ sender.serializer \in SerializerNames
    BY <1>1, <1>5, OptionsAssumption DEF Sendable
  <2> HIDE DEF f
  <2>3. d = Deserialize(sender.serializer, Serialize(sender.serializer, f.of)) BY <2>1
  <2>4. d \in Decodable BY <2>2, <2>3 DEF Decodable
  <2>5. d.type = f.of.type /\ Meaning(d) = Meaning(f.of) BY <2>2, <2>3, RoundTrip
  <2>6. QED BY <2>1, <2>4, <2>5
<1> HIDE DEF d, size, k, l
<1>9. Packets' = Packets /\ Decodable' = Decodable /\ sender' = sender /\ receiver' = receiver
  BY <1>4, SameSender
<1>10. Stream' /\ Sent' = Sent /\ \A i : Edge(i)' = Edge(i) BY <1>1, <1>4, SameStream
<1>11. totalLength' \in Nat /\ totalLength' <= arrived BY <1>1, <1>4, <1>5, <1>6
<1>12. Lengths' BY <1>1, <1>2, <1>4, <1>9, <1>10, <1>11 DEF Lengths
<1>13. Start' = Start + size /\ Start \in Nat BY <1>1, <1>4, <1>5, <1>6 DEF Start
<1>14. Queued'
  <2>1. size \in 0 .. arrived - Start BY <1>1, <1>5, <1>6 DEF Start
  <2>2. Consecutive(chunks, Start, arrived) BY <1>1 DEF Queued
  <2>3. Consecutive(ChunksAfter(size), Start + size, arrived) BY <1>13, <2>1, <2>2, ChunksRead
  <2>4. QED BY <1>4, <1>13, <2>3 DEF Queued
<1>15. InStep'
  <2>1. CASE ~Acceptable(f)
    <3>1. messages' = <<>> /\ push' = "threw" BY <1>4, <2>1
    <3>2. messages' \in Seq(Decodable) BY <3>1, EmptySeq
    <3>3. QED BY <1>4, <1>7, <1>9, <3>1, <3>2 DEF InStep
  <2>2. CASE Acceptable(f)
    <3>1. messages' = Append(messages, d) BY <1>4, <2>2
    <3>2. /\ messages' \in Seq(Decodable) /\ Len(messages') = Len(messages) + 1
          /\ \A i \in 1 .. Len(messages) : messages'[i] = messages[i]
          /\ messages'[Len(messages) + 1] = d
      BY <1>7, <1>8, <3>1, AppendProperties
    <3>3. DOMAIN messages' = 1 .. Len(messages) + 1 BY <3>2, LenProperties
    <3>4. received' = received /\ Len(received') + Len(messages') = k + 1
      BY <1>4, <1>7, <3>2 DEF l
    <3>5. Start' = End(frames[k + 1]) /\ k + 1 # 0 BY <1>5, <1>7, <1>13
    <3>6. k + 1 <= Len(frames')
      <4>1. k + 1 <= Len(frames) BY <1>3 DEF k
      <4>2. QED BY <1>4, <4>1
    <3>7. ASSUME NEW i \in 1 .. Len(messages) + 1
          PROVE  Meaning(messages'[i]) = Meaning(frames[l + i].of)
      <4>1. CASE i = Len(messages) + 1
        <5>1. l + i = k + 1 BY <1>7, <4>1
        <5>2. QED BY <1>8, <3>2, <4>1, <5>1
      <4>2. CASE i # Len(messages) + 1
        <5>1. i \in 1 .. Len(messages) BY <1>7, <4>2
        <5>2. Meaning(messages[i]) = Meaning(frames[l + i].of)
          BY <1>1, <1>2, <1>7, <5>1 DEF InStep, l
        <5>3. QED BY <3>2, <5>1, <5>2
      <4>3. QED BY <4>1, <4>2
    <3>8. Start' = IF k + 1 = 0 THEN 0 ELSE End(frames'[k + 1]) BY <1>4, <3>5
    <3>9. \A i \in DOMAIN messages' :
            Meaning(messages'[i]) = Meaning(frames'[Len(received') + i].of)
      BY <1>4, <3>3, <3>7 DEF l
    <3>10. QED BY <1>4, <1>7, <1>9, <3>2, <3>4, <3>6, <3>8, <3>9 DEF InStep, Edge, End
  <2>3. QED BY <2>1, <2>2
<1>16. InOrderWhole' BY <1>1, <1>4 DEF InOrderWhole, End
<1>17. SameOptionsAgree'
  <2>1. CASE Acceptable(f)
    <3>1. push' = push BY <1>4, <2>1
    <3>2. QED BY <1>2, <3>1 DEF SameOptionsAgree
  <2>2. CASE ~Acceptable(f)
    <3>1. SUFFICES ASSUME sender = receiver, MaxDecompressed(sender) >= MaxBody(sender)
                   PROVE  /\ f \in Range(frames) /\ f.compressed
                          /\ f.bodyLength > MaxBody(sender) /\ f.bodyLength > Size[f.of]
      BY <1>4, <1>9 DEF SameOptionsAgree
    <3>2. f \in Range(frames)
      <4>1. DOMAIN frames = 1 .. Len(frames) BY <1>1, StreamFacts
      <4>2. QED BY <1>3, <4>1 DEF Range, k
    <3>3. /\ f.of \in Messages /\ Size[f.of] \in Nat /\ Size[f.of] <= MaxBody(sender)
          /\ MaxBody(sender) \in Nat /\ MaxDecompressed(sender) \in Nat
          /\ f.compressed = ShouldCompress(f.of) /\ f.bodyLength = BodyLength(f.of)
      <4>1. f.compressed = ShouldCompress(f.of) /\ f.bodyLength = BodyLength(f.of)
        BY <1>5 DEF Packet
      <4>2. f.of \in Messages /\ Size[f.of] <= MaxBody(sender)
        BY <1>5 DEF Sendable, WithinLimit
      <4>3. Size[f.of] \in Nat BY <4>2
      <4>4. QED BY <1>1, <4>1, <4>2, <4>3, LimitsType
    <3>4. f.compressed => Compresses(sender) BY <3>3 DEF ShouldCompress
    <3>5. ~f.compressed => f.bodyLength = Size[f.of] BY <3>3 DEF BodyLength
    <3>6. PayloadLength(f) = Size[f.of] BY <3>5 DEF PayloadLength
    <3>7. PayloadLength(f) <= MaxDecompressed(sender) BY <3>1, <3>3, <3>6
    <3>8. d.type = f.messageType BY <1>8
    <3>9. f.serializer \in Registered(sender) BY <1>8 DEF Registered
    <3>10. ~(f.bodyLength <= MaxBody(sender))
      BY <2>2, <3>1, <3>4, <3>7, <3>8, <3>9 DEF Acceptable, d
    <3>11. f.bodyLength > MaxBody(sender) /\ f.bodyLength > Size[f.of] BY <1>5, <3>3, <3>10
    <3>12. f.compressed BY <3>3, <3>5, <3>11
    <3>13. QED BY <3>2, <3>11, <3>12
  <2>3. QED BY <2>1, <2>2
<1>18. QED BY <1>10, <1>12, <1>14, <1>15, <1>16, <1>17 DEF IInv

\* Only a peer of another version makes decodePacketHeader throw.
LEMMA BadHeaderInv == ASSUME IInv, BadHeader PROVE IInv'
<1>1. /\ push = "running" /\ totalLength >= HeaderLength /\ HeadersAt(Peek(HeaderLength)) = {}
      /\ push' = "threw" /\ messages' = <<>>
      /\ UNCHANGED <<codecs, frames, arrived, chunks, totalLength, received, handled>>
  BY DEF BadHeader, queue
<1>2. /\ Stream /\ Lengths /\ Queued /\ InStep /\ InOrderWhole /\ sender \in Options
  BY DEF IInv, Lengths
<1>3. Packets' = Packets /\ Decodable' = Decodable /\ sender' = sender /\ receiver' = receiver
  BY <1>1, SameSender
<1>4. Stream' /\ Sent' = Sent BY <1>1, <1>2, SameStream
<1>5. Lengths' BY <1>1, <1>2, <1>3, <1>4 DEF Lengths
<1>6. Queued' BY <1>1, <1>2 DEF Queued, Start
<1>7. InStep'
  <2>1. messages' \in Seq(Decodable') BY <1>1, EmptySeq
  <2>2. QED BY <1>1, <1>2, <1>3, <2>1 DEF InStep
<1>8. InOrderWhole' BY <1>1, <1>2 DEF InOrderWhole, End
<1>9. sender.version # receiver.version
  <2> DEFINE f == frames[Decoded + 1]
  <2>1. f \in Packets /\ HeadersAt(Peek(HeaderLength)) = {g \in {f} : g.version = receiver.version}
    BY <1>1, NextHeader
  <2>2. f = Packet(f.at, f.of) BY <1>2, <2>1, PacketFacts
  <2> HIDE DEF f
  <2>3. f.version = sender.version BY <2>2 DEF Packet
  <2>4. QED BY <1>1, <2>1, <2>3
<1>10. SameOptionsAgree' BY <1>3, <1>9 DEF SameOptionsAgree
<1>11. QED BY <1>4, <1>5, <1>6, <1>7, <1>8, <1>10 DEF IInv

LEMMA NextInv == IInv /\ [Next]_vars => IInv'
<1>1. CASE UNCHANGED vars
  <2>1. SUFFICES ASSUME IInv PROVE IInv' OBVIOUS
  <2>2. UNCHANGED <<codecs, frames, arrived, chunks, totalLength, push, messages, received, handled>>
    BY <1>1 DEF vars, queue
  <2>3. /\ Stream /\ Lengths /\ Queued /\ InStep /\ InOrderWhole /\ SameOptionsAgree
    BY <2>1 DEF IInv
  <2>4. Packets' = Packets /\ Decodable' = Decodable /\ sender' = sender /\ receiver' = receiver
    BY <2>2, SameSender
  <2>5. Stream' /\ Sent' = Sent BY <2>2, <2>3, SameStream
  <2>6. Lengths' BY <2>2, <2>3, <2>4, <2>5 DEF Lengths
  <2>7. Queued' BY <2>2, <2>3 DEF Queued, Start
  <2>8. InStep' BY <2>2, <2>3, <2>4 DEF InStep, Start, Edge, End
  <2>9. InOrderWhole' BY <2>2, <2>3 DEF InOrderWhole, End
  <2>10. SameOptionsAgree' BY <2>2, <2>3, <2>4 DEF SameOptionsAgree
  <2>11. QED BY <2>5, <2>6, <2>7, <2>8, <2>9, <2>10 DEF IInv
<1>2. QED BY <1>1, EncodeInv, PushInv, DecodeInv, BadHeaderInv, ReturnInv DEF Next

LEMMA Invariance == Spec => []IInv
BY InitInv, NextInv, PTL DEF Spec

-----------------------------------------------------------------------------
(* The theorems.                                                           *)

\* The queue of buffer-queue.ts holds bytes that have arrived, in chunks that are not
\* empty, and its totalLength is their number; no frame is longer than a packet may be.
THEOREM TypeCorrect == Spec => []TypeOK
<1>1. IInv => TypeOK
  <2>1. SUFFICES ASSUME IInv PROVE TypeOK OBVIOUS
  <2>2. /\ Stream /\ sender \in Options /\ receiver \in Options
        /\ arrived \in Nat /\ handled \in Nat /\ totalLength \in Nat
        /\ arrived <= Sent /\ handled <= arrived /\ totalLength <= arrived
        /\ push \in {"returned", "running", "threw"}
    BY <2>1 DEF IInv, Lengths
  <2>3. ASSUME NEW f \in Range(frames) PROVE f.of \in Messages /\ f.bodyLength \in 1 .. MaxPacketLength
    <3>1. f \in Packets BY <2>2, StreamFacts DEF Range
    <3>2. QED BY <2>2, <3>1, PacketFacts DEF Sendable
  <2>4. Start \in Nat /\ Start <= arrived /\ arrived - Start = totalLength BY <2>2 DEF Start
  <2>5. Consecutive(chunks, Start, arrived) BY <2>1 DEF IInv, Queued
  <2>6. totalLength = TotalOf(chunks) BY <2>4, <2>5, FlattenAll
  <2>7. ASSUME NEW chunk \in Range(chunks) PROVE chunk # <<>> /\ Range(chunk) \subseteq 1 .. arrived
    <3> DEFINE B(i) == Boundary(chunks, Start, i)
    <3>1. Len(chunks) \in Nat /\ \A i \in 0 .. Len(chunks) : B(i) \in Nat
      BY <2>4, <2>5, BoundaryType
    <3>2. DOMAIN chunks = 1 .. Len(chunks) BY <2>5, LenProperties DEF Consecutive
    <3>3. PICK i \in 1 .. Len(chunks) : chunk = chunks[i] BY <3>2 DEF Range
    <3>4. i \in 0 .. Len(chunks) /\ i - 1 \in 0 .. Len(chunks) /\ Len(chunks) \in i .. Len(chunks)
      BY <3>1
    <3>5. /\ B(i - 1) < B(i) /\ chunk = Positions(B(i - 1), B(i) - B(i - 1))
          /\ B(Len(chunks)) = arrived
      BY <2>5, <3>3 DEF Consecutive
    <3>6. B(i) <= B(Len(chunks)) BY <2>4, <2>5, <3>4, BoundariesRise
    <3>7. B(i) \in Nat /\ B(i - 1) \in Nat BY <3>1, <3>4
    <3> HIDE DEF B
    <3>8. B(i) - B(i - 1) \in Nat \ {0} BY <3>5, <3>7
    <3> DEFINE n == B(i) - B(i - 1)
               from == B(i - 1)
    <3>9. from + n <= arrived /\ from \in Nat /\ n \in Nat \ {0} /\ chunk = Positions(from, n)
      BY <3>5, <3>6, <3>7, <3>8
    <3> HIDE DEF n, from
    <3>10. /\ chunk \in Seq(Nat) /\ Len(chunk) = n /\ DOMAIN chunk = 1 .. n
           /\ \A j \in 1 .. n : chunk[j] = from + j
      <4>1. chunk \in Seq(Nat) /\ Len(chunk) = n /\ \A j \in 1 .. n : chunk[j] = from + j
        BY <3>9, PositionsAre
      <4>2. QED BY <4>1, LenProperties
    <3>11. chunk # <<>> BY <3>9, <3>10, EmptySeq
    <3>12. \A j \in 1 .. n : from + j \in 1 .. arrived BY <2>2, <3>9
    <3>13. QED BY <3>10, <3>11, <3>12 DEF Range
  <2>8. Sent \in Nat
    <3>1. Len(frames) \in 0 .. Len(frames) BY <2>2, StreamFacts
    <3>2. QED BY <2>2, <3>1, StreamFacts
  <2>9. arrived \in 0 .. Sent /\ handled \in 0 .. arrived BY <2>2, <2>8
  <2>10. QED BY <2>2, <2>3, <2>6, <2>7, <2>9 DEF TypeOK
<1>2. QED BY <1>1, Invariance, PTL

\* RpcCodec.push returns the messages that were encoded, whole and in order, for any
\* messages, both serializers, every length of header and bodies, and every way TCP cuts
\* the stream; an exception loses no message that an earlier push() returned.
THEOREM OrderCorrect == Spec => []InOrderWhole
<1>1. IInv => InOrderWhole BY DEF IInv
<1>2. QED BY <1>1, Invariance, PTL

\* A codec never throws for a frame of a peer with the same options, whatever they are,
\* but for one that compression made longer than maxBodyLength.
THEOREM PeersAgree == Spec => []SameOptionsAgree
<1>1. IInv => SameOptionsAgree BY DEF IInv
<1>2. QED BY <1>1, Invariance, PTL
=============================================================================
