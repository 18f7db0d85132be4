---------------------------- MODULE CodecProofs ----------------------------
(***************************************************************************)
(* TLAPS proofs about Codec, for buffers of any length: numbers and fields *)
(* are read as they were written, and no guess about a nested message      *)
(* loses the message it is in.                                             *)
(*                                                                         *)
(* Codec defines what a loop does as a function of the position in the     *)
(* buffer.  That there is such a function is shown first (Recursion): each *)
(* definition here uses one value of a lesser rank, the distance to the    *)
(* end, the number left to write, the depth left.  From then on each is    *)
(* known by its equation (VarintsAre, VarintIs, FieldsFromIs, ValidFromIs, *)
(* DecodeIs), and what holds of it follows by induction on the rank.       *)
(***************************************************************************)
EXTENDS Codec, NumberFacts, SequenceTheorems

-----------------------------------------------------------------------------
(* Recursion.  What each step takes has a lesser rank.                     *)

\* What holds wherever it holds for every lesser rank holds everywhere.
LEMMA RankInduction ==
    ASSUME NEW D, NEW rank \in [D -> Nat], NEW P,
           \A d \in D : (\A e \in D : rank[e] < rank[d] => e \in P) => d \in P
    PROVE  D \subseteq P
<1> SUFFICES ASSUME ~(D \subseteq P) PROVE FALSE
    OBVIOUS
<1> DEFINE Ranks == {rank[d] : d \in D \ P}
<1>1. Ranks \subseteq Nat /\ Ranks # {}
      OBVIOUS
<1>2. Min(Ranks) \in Ranks /\ \A y \in Ranks : Min(Ranks) <= y
  <2> HIDE DEF Ranks
  <2> QED
      BY <1>1, MinOf
<1>3. PICK d \in D \ P : rank[d] = Min(Ranks)
      BY <1>2
<1>4. \A e \in D : rank[e] < rank[d] => e \in P
  <2> SUFFICES ASSUME NEW e \in D, rank[e] < rank[d], e \notin P PROVE FALSE
      OBVIOUS
  <2>1. rank[e] \in Ranks
        OBVIOUS
  <2> HIDE DEF Ranks
  <2> QED
      BY <1>2, <1>3, <2>1
<1> QED
    BY <1>3, <1>4

\* Every number, if each is in P when the lesser ones are.
LEMMA NatInductionIn ==
    ASSUME NEW P, \A n \in Nat : (\A m \in Nat : m < n => m \in P) => n \in P
    PROVE  Nat \subseteq P
<1> DEFINE rank == [n \in Nat |-> n]
<1>1. \A n \in Nat : (\A m \in Nat : rank[m] < rank[n] => m \in P) => n \in P
      OBVIOUS
<1>2. rank \in [Nat -> Nat]
      OBVIOUS
<1> HIDE DEF rank
<1> QED
    BY <1>1, <1>2, RankInduction

\* A definition of values V over D: base for the least rank, and for the others
\* a step from the value at prev.
Descends(D, V, rank, prev, base, step) ==
    /\ rank \in [D -> Nat] /\ prev \in [D -> D]
    /\ base \in [D -> V] /\ step \in [D -> [V -> V]]
    /\ \A d \in D : rank[d] # 0 => rank[prev[d]] < rank[d]

\* There is a function so defined, built from the lesser ranks up.
LEMMA Recursion ==
    ASSUME NEW D, NEW V, NEW rank, NEW prev, NEW base, NEW step,
           Descends(D, V, rank, prev, base, step)
    PROVE  \E r \in [D -> V] : \A d \in D :
              r[d] = IF rank[d] = 0 THEN base[d] ELSE step[d][r[prev[d]]]
<1> USE DEF Descends
<1> DEFINE Below(n) == {d \in D : rank[d] < n}
           Next(r, d) == IF rank[d] = 0 THEN base[d] ELSE step[d][r[prev[d]]]
           Part(r, n) == r \in [Below(n) -> V] /\ \A d \in Below(n) : r[d] = Next(r, d)
           P == {n \in Nat : \E r : Part(r, n)}
<1>1. ASSUME NEW n \in Nat, \A m \in Nat : m < n => m \in P PROVE n \in P
  <2>1. CASE n = 0
    <3> DEFINE r == [d \in Below(n) |-> base[d]]
    <3>1. \A d \in D : ~(rank[d] < n)
          BY <2>1
    <3>2. Below(n) = {}
          BY <3>1
    <3>3. Part(r, n)
      <4> HIDE DEF Below
      <4> QED
          BY <3>2
    <3> QED
        BY <3>3
  <2>2. CASE n # 0
    <3>1. n - 1 \in Nat /\ n - 1 < n
          BY <2>2
    <3>2. PICK q : Part(q, n - 1)
          BY <1>1, <3>1
    <3> DEFINE r == [d \in Below(n) |-> IF d \in Below(n - 1) THEN q[d] ELSE Next(q, d)]
    <3>3. \A d \in Below(n) : rank[d] = 0 \/ prev[d] \in Below(n - 1)
          BY <3>1
    <3>4. \A d \in Below(n - 1) : d \in Below(n)
          BY <3>1
    <3>5. \A d \in Below(n) : r[d] = Next(q, d)
          BY <3>2
    <3>6. \A d \in Below(n - 1) : r[d] = q[d]
          BY <3>4
    <3>7. \A d \in Below(n) : Next(q, d) = Next(r, d)
      <4> HIDE DEF r
      <4> QED
          BY <3>3, <3>6
    <3>8. \A d \in Below(n) : Next(q, d) \in V
          BY <3>2, <3>3
    <3>9. r \in [Below(n) -> V]
          BY <3>2, <3>8
    <3>10. Part(r, n)
      <4> HIDE DEF r, Next, Below
      <4> QED
          BY <3>5, <3>7, <3>9
    <3> HIDE DEF Part
    <3> QED
        BY <3>10
  <2> QED
      BY <2>1, <2>2
<1>2. \A n \in Nat : \E r : Part(r, n)
  <2>1. Nat \subseteq P
    <3> HIDE DEF P
    <3> QED
        BY <1>1, NatInductionIn
  <2> QED
      BY <2>1
<1>3. ASSUME NEW n \in Nat, NEW m \in Nat, NEW r, NEW q, Part(r, n), Part(q, m)
      PROVE  \A d \in Below(n) \cap Below(m) : r[d] = q[d]
  <2> DEFINE Both == Below(n) \cap Below(m)
             Same == {d \in Both : r[d] = q[d]}
             rk == [d \in Both |-> rank[d]]
  <2>1. rk \in [Both -> Nat]
        OBVIOUS
  <2>2. ASSUME NEW d \in Both, \A e \in Both : rk[e] < rk[d] => e \in Same
        PROVE  d \in Same
    <3>1. r[d] = Next(r, d) /\ q[d] = Next(q, d)
          BY <1>3
    <3>2. CASE rank[d] = 0
          BY <3>1, <3>2
    <3>3. CASE rank[d] # 0
      <4>1. rank[prev[d]] < rank[d] /\ prev[d] \in D
            BY <3>3
      <4>2. prev[d] \in Both
            BY <4>1
      <4>3. prev[d] \in Same
            BY <2>2, <4>1, <4>2
      <4> QED
          BY <3>1, <4>3
    <3> QED
        BY <3>2, <3>3
  <2>3. Both \subseteq Same
    <3> HIDE DEF Both, Same, rk
    <3> QED
        BY <2>1, <2>2, RankInduction
  <2> QED
      BY <2>3
<1> DEFINE part(n) == CHOOSE r : Part(r, n)
           whole == [d \in D |-> part(rank[d] + 1)[d]]
<1>4. \A n \in Nat : Part(part(n), n)
  <2> HIDE DEF Part
  <2> QED
      BY <1>2
<1>5. \A d \in D : whole[d] \in V /\ whole[d] = Next(part(rank[d] + 1), d)
  <2> SUFFICES ASSUME NEW d \in D
               PROVE  whole[d] \in V /\ whole[d] = Next(part(rank[d] + 1), d)
      OBVIOUS
  <2>1. rank[d] + 1 \in Nat /\ d \in Below(rank[d] + 1)
        OBVIOUS
  <2>2. Part(part(rank[d] + 1), rank[d] + 1)
        BY <1>4, <2>1
  <2> HIDE DEF part
  <2> QED
      BY <2>1, <2>2
<1>6. \A d \in D : Next(part(rank[d] + 1), d) = Next(whole, d)
  <2> SUFFICES ASSUME NEW d \in D, rank[d] # 0
               PROVE  part(rank[d] + 1)[prev[d]] = whole[prev[d]]
    <3> HIDE DEF part, whole
    <3> QED
        OBVIOUS
  <2> DEFINE n == rank[d] + 1
             m == rank[prev[d]] + 1
  <2>1. n \in Nat /\ m \in Nat /\ prev[d] \in Below(n) \cap Below(m)
        OBVIOUS
  <2>2. Part(part(n), n) /\ Part(part(m), m)
        BY <1>4, <2>1
  <2>3. part(n)[prev[d]] = part(m)[prev[d]]
    <3> HIDE DEF Part, part, Below, n, m
    <3> QED
        BY <1>3, <2>1, <2>2
  <2> HIDE DEF part
  <2> QED
      BY <2>3
<1> HIDE DEF part, Next
<1>7. whole \in [D -> V] /\ \A d \in D : whole[d] = Next(whole, d)
  <2>1. \A d \in D : whole[d] = Next(whole, d)
        BY <1>5, <1>6
  <2> QED
      BY <1>5, <2>1
<1> HIDE DEF whole
<1> QED
    BY <1>7 DEF Next

-----------------------------------------------------------------------------
(* Bytes and their numbers.                                                *)

Byte == 0..255

\* A number is its lowest seven bits and what is above them.
LEMMA SevenBits ==
    ASSUME NEW n \in Nat
    PROVE  /\ n \div 128 \in Nat /\ n % 128 \in 0..127
           /\ n = 128 * (n \div 128) + (n % 128)
           /\ n >= 128 => n \div 128 # 0 /\ n \div 128 < n
           /\ n < 128 <=> n \div 128 = 0
OBVIOUS

\* A tag is a field's number and the three bits of its type.
LEMMA ThreeBits ==
    ASSUME NEW n \in Nat
    PROVE  /\ n \div 8 \in Nat /\ n % 8 \in 0..7
           /\ (8 * n) \div 8 = n /\ (8 * n) % 8 = 0
           /\ (8 * n + 2) \div 8 = n /\ (8 * n + 2) % 8 = 2
OBVIOUS

\* What a buffer holds.
LEMMA ByteAt ==
    ASSUME NEW buf \in Buffers
    PROVE  /\ Len(buf) \in Nat /\ DOMAIN buf = 1..Len(buf)
           /\ \A i \in 1..Len(buf) : buf[i] \in 0..255
BY ElementOfSeq, LenProperties DEF Buffers

\* One byte, and two buffers in a row.  What is needed of them is in the lemmas
\* that follow, so that they can be used without being expanded.
One(b) == <<b>>
Join(a, b) == a \o b

\* One byte makes a buffer.
LEMMA OneIs ==
    ASSUME NEW b \in 0..255
    PROVE  /\ One(b) \in Buffers /\ Len(One(b)) = 1 /\ DOMAIN One(b) = 1..1
           /\ One(b)[1] = b
BY DEF One, Buffers

\* So do two buffers, as long as both.
LEMMA JoinIs ==
    ASSUME NEW a \in Buffers, NEW b \in Buffers
    PROVE  Join(a, b) \in Buffers /\ Len(Join(a, b)) = Len(a) + Len(b)
BY ConcatProperties DEF Join, Buffers

\* Which of three are joined first makes no difference.
LEMMA JoinAssociates ==
    ASSUME NEW a \in Buffers, NEW b \in Buffers, NEW c \in Buffers
    PROVE  Join(Join(a, b), c) = Join(a, Join(b, c))
BY ConcatAssociative DEF Join, Buffers

\* Of three in a row, the one in the middle.
LEMMA JoinAt ==
    ASSUME NEW a \in Buffers, NEW b \in Buffers, NEW c \in Buffers, NEW i \in DOMAIN b
    PROVE  Join(Join(a, b), c)[Len(a) + i] = b[i]
<1>1. /\ i \in 1..Len(b) /\ Len(a) \in Nat /\ Len(b) \in Nat /\ Len(c) \in Nat
      /\ Join(b, c) \in Buffers /\ Len(Join(b, c)) = Len(b) + Len(c)
      BY ByteAt, JoinIs
<1>2. Join(Join(a, b), c) = Join(a, Join(b, c))
      BY JoinAssociates
<1>3. \A s, t \in Buffers : \A k \in 1..Len(s) + Len(t) :
         Join(s, t)[k] = IF k <= Len(s) THEN s[k] ELSE t[k - Len(s)]
      BY ConcatProperties DEF Join, Buffers
<1>4. Join(a, Join(b, c))[Len(a) + i] = Join(b, c)[i]
  <2>1. Len(a) + i \in 1..Len(a) + Len(Join(b, c)) /\ ~(Len(a) + i <= Len(a))
        /\ (Len(a) + i) - Len(a) = i
        BY <1>1
  <2> QED
      BY <1>1, <1>3, <2>1
<1>5. Join(b, c)[i] = b[i]
  <2>1. i \in 1..Len(b) + Len(c) /\ i <= Len(b)
        BY <1>1
  <2> QED
      BY <1>3, <2>1
<1> QED
    BY <1>2, <1>4, <1>5

-----------------------------------------------------------------------------
(* Varints.                                                                *)

Reads == [v : Nat, next : Nat]

\* The function of a buffer's varints is one, of its types.
LEMMA VarintsAre ==
    ASSUME NEW buf \in Buffers
    PROVE  /\ DOMAIN Varints(buf) = 1..End(buf)
           /\ \A i \in 1..End(buf) : Varints(buf)[i] =
                IF i = End(buf) THEN Cut
                ELSE IF buf[i] < 128 THEN [v |-> buf[i], next |-> i + 1]
                ELSE IF Varints(buf)[i + 1] = Cut THEN Cut
                ELSE [v |-> buf[i] - 128 + 128 * Varints(buf)[i + 1].v,
                      next |-> Varints(buf)[i + 1].next]
<1> DEFINE D == 1..End(buf)
           rank == [i \in D |-> End(buf) - i]
           prev == [i \in D |-> IF i = End(buf) THEN i ELSE i + 1]
           base == [i \in D |-> Cut]
           After(i, x) == IF buf[i] < 128 THEN [v |-> buf[i], next |-> i + 1]
                          ELSE IF x = Cut THEN Cut
                          ELSE [v |-> buf[i] - 128 + 128 * x.v, next |-> x.next]
           step == [i \in D |-> [x \in Reads |-> IF i = End(buf) THEN Cut ELSE After(i, x)]]
           Body(r, i) == IF i = End(buf) THEN Cut ELSE After(i, r[i + 1])
<1>1. End(buf) \in Nat \ {0} /\ Cut \in Reads
      BY DEF Buffers, End, Cut, Reads
<1>2. rank \in [D -> Nat] /\ prev \in [D -> D] /\ base \in [D -> Reads]
      BY <1>1
<1>3. step \in [D -> [Reads -> Reads]]
  <2>1. ASSUME NEW i \in D, i # End(buf), NEW x \in Reads PROVE After(i, x) \in Reads
    <3>1. i \in 1..Len(buf) /\ x.v \in Nat /\ x.next \in Nat
          BY <2>1 DEF Buffers, End, Reads
    <3>2. buf[i] \in 0..255 /\ i + 1 \in Nat
          BY <3>1, ByteAt
    <3>3. CASE buf[i] < 128
          BY <3>2, <3>3 DEF Reads
    <3>4. CASE ~(buf[i] < 128)
      <4>1. \A b \in 0..255, v \in Nat : ~(b < 128) => b - 128 + 128 * v \in Nat
            OBVIOUS
      <4>2. buf[i] - 128 + 128 * x.v \in Nat
            BY <3>1, <3>2, <3>4, <4>1
      <4> QED
          BY <1>1, <3>1, <3>2, <3>4, <4>2 DEF Reads
    <3> QED
        BY <3>3, <3>4
  <2> HIDE DEF After
  <2> QED
      BY <1>1, <2>1
<1>4. \A i \in D : /\ rank[i] = 0 <=> i = End(buf)
                   /\ rank[i] # 0 => rank[prev[i]] < rank[i] /\ prev[i] = i + 1
      BY <1>1
<1>5. Descends(D, Reads, rank, prev, base, step)
  <2>1. \A i \in D : rank[i] # 0 => rank[prev[i]] < rank[i]
        BY <1>4
  <2> HIDE DEF D, rank, prev, base, step
  <2> QED
      BY <1>2, <1>3, <2>1 DEF Descends
<1>6. PICK r \in [D -> Reads] : \A i \in D :
         r[i] = IF rank[i] = 0 THEN base[i] ELSE step[i][r[prev[i]]]
  <2> HIDE DEF D, rank, prev, base, step
  <2> QED
      BY <1>5, Recursion
<1>7. \A i \in D : r[i] = Body(r, i)
  <2> SUFFICES ASSUME NEW i \in D PROVE r[i] = Body(r, i)
      OBVIOUS
  <2>1. CASE i = End(buf)
        BY <1>4, <1>6, <2>1, ZenonT(30)
  <2>2. CASE i # End(buf)
    <3>1. i + 1 \in D
          BY <1>1, <2>2
    <3> HIDE DEF rank, prev, After
    <3> QED
        BY <1>4, <1>6, <2>2, <3>1, ZenonT(30)
  <2> QED
      BY <2>1, <2>2
<1>8. r = [i \in D |-> Body(r, i)]
  <2> HIDE DEF Body
  <2> QED
      BY <1>7
<1>9. Varints(buf) = [i \in D |-> Body(Varints(buf), i)]
      BY <1>8, ZenonT(30) DEF Varints
<1> QED
    BY <1>9

\* A varint that is not cut is a number, and ends behind its place in the buffer.
LEMMA VarintsEnd ==
    ASSUME NEW buf \in Buffers
    PROVE  \A i \in 1..End(buf) :
              \/ Varints(buf)[i] = Cut
              \/ /\ Varints(buf)[i] \in Reads
                 /\ Varints(buf)[i].next \in i + 1..End(buf)
<1> DEFINE D == 1..End(buf)
           vs == Varints(buf)
           Ends(i) == vs[i] = Cut \/ (vs[i] \in Reads /\ vs[i].next \in i + 1..End(buf))
           P == {i \in D : Ends(i)}
           rank == [i \in D |-> End(buf) - i]
<1>1. End(buf) \in Nat \ {0} /\ End(buf) = Len(buf) + 1
      BY ByteAt DEF End
<1>2. rank \in [D -> Nat]
      BY <1>1
<1>3. ASSUME NEW i \in D, \A j \in D : rank[j] < rank[i] => j \in P PROVE i \in P
  <2>1. CASE i = End(buf)
    <3>1. vs[i] = Cut
          BY <2>1, VarintsAre
    <3> QED
        BY <3>1
  <2>2. CASE i # End(buf)
    <3>1. i + 1 \in D /\ rank[i + 1] < rank[i] /\ i \in 1..Len(buf)
          BY <1>1, <2>2
    <3>2. Ends(i + 1) /\ buf[i] \in 0..255
          BY <1>3, <3>1, ByteAt
    <3>3. vs[i] = IF buf[i] < 128 THEN [v |-> buf[i], next |-> i + 1]
                  ELSE IF vs[i + 1] = Cut THEN Cut
                  ELSE [v |-> buf[i] - 128 + 128 * vs[i + 1].v, next |-> vs[i + 1].next]
          BY <2>2, VarintsAre
    <3> HIDE DEF vs, rank
    <3>4. CASE buf[i] < 128
      <4>1. vs[i] = [v |-> buf[i], next |-> i + 1]
            BY <3>3, <3>4
      <4>2. buf[i] \in Nat
            BY <3>2
      <4>3. i + 1 \in Nat /\ i + 1 \in i + 1..End(buf)
            BY <1>1, <3>1
      <4> QED
          BY <4>1, <4>2, <4>3 DEF Reads
    <3>5. CASE ~(buf[i] < 128) /\ vs[i + 1] = Cut
          BY <3>3, <3>5
    <3>6. CASE ~(buf[i] < 128) /\ vs[i + 1] # Cut
      <4>1. vs[i] = [v |-> buf[i] - 128 + 128 * vs[i + 1].v, next |-> vs[i + 1].next]
            BY <3>3, <3>6
      <4>2. vs[i + 1].v \in Nat /\ vs[i + 1].next \in Nat
            /\ vs[i + 1].next \in (i + 1) + 1..End(buf)
            BY <3>2, <3>6 DEF Reads
      <4>3. \A b \in 0..255, v \in Nat : ~(b < 128) => b - 128 + 128 * v \in Nat
            OBVIOUS
      <4>4. buf[i] - 128 + 128 * vs[i + 1].v \in Nat
            BY <3>2, <3>6, <4>2, <4>3
      <4>5. vs[i + 1].next \in i + 1..End(buf)
            BY <1>1, <4>2
      <4> QED
          BY <4>1, <4>2, <4>4, <4>5 DEF Reads
    <3> QED
        BY <3>4, <3>5, <3>6
  <2> QED
      BY <2>1, <2>2
<1>4. D \subseteq P
  <2> HIDE DEF D, P, rank
  <2> QED
      BY <1>2, <1>3, RankInduction
<1> QED
    BY <1>4

\* The same at any place, within the buffer or behind it.
LEMMA VarintEnds ==
    ASSUME NEW buf \in Buffers, NEW i, ReadVarint(buf, i) # Cut
    PROVE  /\ ReadVarint(buf, i) \in Reads /\ i \in 1..Len(buf)
           /\ ReadVarint(buf, i).next \in i + 1..End(buf)
<1>1. i \in 1..Len(buf) /\ ReadVarint(buf, i) = Varints(buf)[i]
      BY ByteAt DEF ReadVarint
<1>2. i \in 1..End(buf)
      BY <1>1, ByteAt DEF End
<1> QED
    BY <1>1, <1>2, VarintsEnd

\* What is written of a number: bytes, seven bits each, the lowest first.
LEMMA VarintIs ==
    \A v \in Nat : /\ varint[v] \in Buffers
                   /\ varint[v] = IF v < 128 THEN One(v)
                                  ELSE Join(One(128 + (v % 128)), varint[v \div 128])
<1> DEFINE rank == [v \in Nat |-> v \div 128]
           base == [v \in Nat |-> IF v < 128 THEN One(v) ELSE <<>>]
           step == [v \in Nat |-> [x \in Buffers |-> Join(One(128 + (v % 128)), x)]]
           Body(r, v) == IF v < 128 THEN One(v) ELSE Join(One(128 + (v % 128)), r[v \div 128])
<1>1. \A v \in Nat : rank[v] = v \div 128 /\ rank[v] \in Nat
      BY SevenBits
<1>2. rank \in [Nat -> Nat]
      BY <1>1
<1>3. \A v \in Nat : rank[v] # 0 => rank[rank[v]] < rank[v]
  <2> SUFFICES ASSUME NEW v \in Nat, rank[v] # 0 PROVE rank[rank[v]] < rank[v]
      OBVIOUS
  <2> DEFINE w == v \div 128
  <2>1. w \in Nat /\ w # 0 /\ rank[v] = w /\ rank[w] = w \div 128
        BY <1>1
  <2> HIDE DEF w, rank
  <2>2. w \div 128 < w
        BY <2>1
  <2> QED
      BY <2>1, <2>2
<1>4. base \in [Nat -> Buffers]
  <2>1. ASSUME NEW v \in Nat PROVE base[v] \in Buffers
    <3>1. CASE v < 128
      <4>1. One(v) \in Buffers
            BY <3>1, OneIs
      <4> QED
          BY <3>1, <4>1
    <3>2. CASE ~(v < 128)
          BY <3>2 DEF Buffers
    <3> QED
        BY <3>1, <3>2
  <2> QED
      BY <2>1
<1>5. step \in [Nat -> [Buffers -> Buffers]]
  <2>1. ASSUME NEW v \in Nat, NEW x \in Buffers PROVE Join(One(128 + (v % 128)), x) \in Buffers
    <3>1. 128 + (v % 128) \in 0..255
          BY SevenBits
    <3>2. One(128 + (v % 128)) \in Buffers
          BY <3>1, OneIs
    <3> QED
        BY <3>2, JoinIs
  <2> QED
      BY <2>1
<1>6. Descends(Nat, Buffers, rank, rank, base, step)
  <2> HIDE DEF rank, base, step
  <2> QED
      BY <1>2, <1>3, <1>4, <1>5 DEF Descends
<1>7. PICK r \in [Nat -> Buffers] : \A v \in Nat :
         r[v] = IF rank[v] = 0 THEN base[v] ELSE step[v][r[rank[v]]]
  <2> HIDE DEF rank, base, step
  <2> QED
      BY <1>6, Recursion
<1>8. \A v \in Nat : r[v] = Body(r, v)
  <2> SUFFICES ASSUME NEW v \in Nat PROVE r[v] = Body(r, v)
      OBVIOUS
  <2>1. CASE v < 128
    <3>1. rank[v] = 0 /\ base[v] = One(v)
          BY <2>1, SevenBits
    <3> HIDE DEF rank, base, step
    <3> QED
        BY <1>7, <2>1, <3>1
  <2>2. CASE ~(v < 128)
    <3>1. rank[v] # 0 /\ rank[v] = v \div 128 /\ rank[v] \in Nat
          BY <2>2, <1>1, SevenBits
    <3>2. step[v][r[rank[v]]] = Join(One(128 + (v % 128)), r[rank[v]])
      <4> HIDE DEF rank
      <4> QED
          BY <3>1
    <3> HIDE DEF rank, base, step
    <3> QED
        BY <1>7, <2>2, <3>1, <3>2
  <2> QED
      BY <2>1, <2>2
<1>9. r = [v \in Nat |-> Body(r, v)]
  <2> HIDE DEF Body
  <2> QED
      BY <1>8
<1>10. varint = [v \in Nat |-> Body(varint, v)]
      BY <1>9 DEF varint, One, Join
<1>11. \A v \in Nat : varint[v] = Body(varint, v)
  <2> HIDE DEF Body
  <2> QED
      BY <1>10
<1>12. ASSUME NEW v \in Nat, \A w \in Nat : w < v => w \in {u \in Nat : varint[u] \in Buffers}
       PROVE  v \in {u \in Nat : varint[u] \in Buffers}
  <2>1. CASE v < 128
    <3>0. v \in 0..255
          BY <2>1
    <3>1. One(v) \in Buffers
          BY <3>0, OneIs
    <3> QED
        BY <1>11, <2>1, <3>1
  <2>2. CASE ~(v < 128)
    <3>1. v \div 128 \in Nat /\ v \div 128 < v /\ 128 + (v % 128) \in 0..255
          BY <2>2, SevenBits
    <3>2. varint[v \div 128] \in Buffers
          BY <1>12, <3>1
    <3>3. One(128 + (v % 128)) \in Buffers
          BY <3>1, OneIs
    <3>4. Join(One(128 + (v % 128)), varint[v \div 128]) \in Buffers
          BY <3>2, <3>3, JoinIs
    <3> QED
        BY <1>11, <2>2, <3>4
  <2> QED
      BY <2>1, <2>2
<1>13. Nat \subseteq {u \in Nat : varint[u] \in Buffers}
      BY <1>12, NatInductionIn
<1> QED
    BY <1>11, <1>13

\* How a byte is read in its place.
LEMMA ByteIsRead ==
    ASSUME NEW pre \in Buffers, NEW b \in Byte, NEW rest \in Buffers, NEW buf,
           buf = Join(Join(pre, One(b)), rest)
    PROVE  /\ buf \in Buffers
           /\ ReadVarint(buf, End(pre)) =
                IF b < 128 THEN [v |-> b, next |-> End(pre) + 1]
                ELSE IF ReadVarint(buf, End(pre) + 1) = Cut THEN Cut
                ELSE [v |-> b - 128 + 128 * ReadVarint(buf, End(pre) + 1).v,
                      next |-> ReadVarint(buf, End(pre) + 1).next]
<1>1. /\ buf \in Buffers /\ Len(buf) = Len(pre) + 1 + Len(rest)
      /\ buf[Len(pre) + 1] = b
  <2>1. 1 \in DOMAIN One(b) /\ One(b) \in Buffers /\ Len(One(b)) = 1 /\ One(b)[1] = b
        BY OneIs DEF Byte
  <2> DEFINE p == Join(pre, One(b))
  <2>2. p \in Buffers /\ Len(p) = Len(pre) + 1 /\ Join(p, rest)[Len(pre) + 1] = b
    <3>1. p \in Buffers /\ Len(p) = Len(pre) + Len(One(b))
          BY <2>1, JoinIs
    <3>2. Join(p, rest)[Len(pre) + 1] = One(b)[1]
          BY <2>1, JoinAt
    <3> QED
        BY <2>1, <3>1, <3>2
  <2> HIDE DEF p
  <2>3. Join(p, rest) \in Buffers /\ Len(Join(p, rest)) = Len(p) + Len(rest)
        BY <2>2, JoinIs
  <2> QED
      BY <2>2, <2>3 DEF p
<1>2. Len(pre) \in Nat /\ Len(rest) \in Nat /\ Len(buf) \in Nat /\ DOMAIN buf = 1..Len(buf)
      BY <1>1, ByteAt
<1> DEFINE i == Len(pre) + 1
           e == Len(buf) + 1
<1>3. /\ i \in 1..Len(buf) /\ i \in 1..e /\ i + 1 \in 1..e /\ i # e
      /\ i + 1 \notin 1..Len(buf) => i + 1 = e
      BY <1>1, <1>2
<1>4. buf[i] = b /\ End(pre) = i /\ End(buf) = e
      BY <1>1 DEF i, End
<1> HIDE DEF i, e
<1>5. ReadVarint(buf, i) = Varints(buf)[i]
      BY <1>2, <1>3 DEF ReadVarint
<1>6. ReadVarint(buf, i + 1) = Varints(buf)[i + 1]
  <2>1. CASE i + 1 \in 1..Len(buf)
        BY <1>2, <2>1 DEF ReadVarint
  <2>2. CASE i + 1 \notin 1..Len(buf)
    <3>1. ReadVarint(buf, i + 1) = Cut
          BY <1>2, <2>2 DEF ReadVarint
    <3>2. Varints(buf)[i + 1] = Cut
          BY <1>1, <1>3, <1>4, <2>2, VarintsAre
    <3> QED
        BY <3>1, <3>2
  <2> QED
      BY <2>1, <2>2
<1>7. Varints(buf)[i] = IF b < 128 THEN [v |-> b, next |-> i + 1]
                        ELSE IF Varints(buf)[i + 1] = Cut THEN Cut
                        ELSE [v |-> b - 128 + 128 * Varints(buf)[i + 1].v,
                              next |-> Varints(buf)[i + 1].next]
  <2>1. i \in 1..End(buf) /\ i # End(buf)
        BY <1>3, <1>4
  <2>2. Varints(buf)[i] = IF buf[i] < 128 THEN [v |-> buf[i], next |-> i + 1]
                          ELSE IF Varints(buf)[i + 1] = Cut THEN Cut
                          ELSE [v |-> buf[i] - 128 + 128 * Varints(buf)[i + 1].v,
                                next |-> Varints(buf)[i + 1].next]
        BY <1>1, <2>1, VarintsAre
  <2> QED
      BY <1>4, <2>2
<1> QED
    BY <1>1, <1>4, <1>5, <1>6, <1>7

\* What is written of a number is read there as this number, whatever is before
\* and behind it.
LEMMA VarintReads ==
    \A n \in Nat : \A pre, rest \in Buffers :
        ReadVarint(Join(Join(pre, varint[n]), rest), End(pre))
          = [v |-> n, next |-> End(pre) + Len(varint[n])]
<1> DEFINE Read(n, pre, rest) ==
              ReadVarint(Join(Join(pre, varint[n]), rest), End(pre))
                = [v |-> n, next |-> End(pre) + Len(varint[n])]
           P == {n \in Nat : \A pre, rest \in Buffers : Read(n, pre, rest)}
<1>1. ASSUME NEW n \in Nat,
             \A m \in Nat : m < n => \A pre, rest \in Buffers : Read(m, pre, rest),
             NEW pre \in Buffers, NEW rest \in Buffers
      PROVE  Read(n, pre, rest)
  <2> HIDE DEF P
  <2>1. CASE n < 128
    <3>1. varint[n] = One(n) /\ n \in 0..255
          BY <2>1, VarintIs
    <3> DEFINE buf == Join(Join(pre, One(n)), rest)
    <3>2. ReadVarint(buf, End(pre)) = [v |-> n, next |-> End(pre) + 1]
      <4> HIDE DEF Read
      <4>1. buf = Join(Join(pre, One(n)), rest)
            OBVIOUS
      <4> HIDE DEF buf
      <4> QED
          BY <2>1, <3>1, <4>1, ByteIsRead DEF Byte
    <3>3. Len(One(n)) = 1
          BY <3>1, OneIs
    <3> QED
        BY <3>1, <3>2, <3>3
  <2>2. CASE ~(n < 128)
    <3> DEFINE m == n \div 128
               b == 128 + (n % 128)
               pre1 == Join(pre, One(b))
               buf == Join(Join(pre, varint[n]), rest)
    <3>1. m \in Nat /\ m < n /\ m # 0 /\ b \in 0..255 /\ ~(b < 128)
          /\ b - 128 + 128 * m = n
          BY <2>2, SevenBits
    <3>2. varint[n] = Join(One(b), varint[m]) /\ varint[m] \in Buffers
          BY <2>2, <3>1, VarintIs
    <3> HIDE DEF m, b
    <3>3. One(b) \in Buffers /\ Len(One(b)) = 1
          BY <3>1, OneIs
    <3>4. pre1 \in Buffers /\ Len(pre1) = Len(pre) + 1
      <4> DEFINE o == One(b)
      <4> HIDE DEF Read, buf, pre1, o
      <4>1. Join(pre, o) \in Buffers /\ Len(Join(pre, o)) = Len(pre) + Len(o)
            BY <3>3, JoinIs DEF o
      <4> QED
          BY <3>3, <4>1 DEF o, pre1
    <3>5. Len(varint[n]) = Len(varint[m]) + 1
      <4>1. Len(Join(One(b), varint[m])) = Len(One(b)) + Len(varint[m])
            BY <3>2, <3>3, JoinIs
      <4>2. Len(varint[m]) \in Nat
            BY <3>2, ByteAt
      <4> QED
          BY <3>2, <3>3, <4>1, <4>2
    <3>6. End(pre1) = End(pre) + 1 /\ End(pre1) + Len(varint[m]) = End(pre) + Len(varint[n])
      <4>1. Len(pre) \in Nat /\ Len(varint[m]) \in Nat
            BY <3>2, ByteAt
      <4>2. End(pre1) = Len(pre) + 1 + 1 /\ End(pre) = Len(pre) + 1
        <5> HIDE DEF pre1, buf, Read
        <5> QED
            BY <3>4 DEF End
      <4>3. \A k, l \in Nat : k + 1 + 1 = (k + 1) + 1 /\ k + 1 + 1 + l = k + 1 + (l + 1)
            OBVIOUS
      <4> HIDE DEF pre1, buf, Read
      <4> QED
          BY <3>5, <4>1, <4>2, <4>3
    <3>7. buf = Join(Join(pre1, varint[m]), rest)
      <4>1. Join(pre, Join(One(b), varint[m])) = Join(Join(pre, One(b)), varint[m])
            BY <3>2, <3>3, JoinAssociates
      <4> QED
          BY <3>2, <4>1
    <3>8. buf = Join(pre1, Join(varint[m], rest)) /\ Join(varint[m], rest) \in Buffers
      <4> HIDE DEF pre1
      <4> QED
          BY <3>2, <3>4, <3>7, JoinIs, JoinAssociates
    <3>9. ReadVarint(buf, End(pre1)) = [v |-> m, next |-> End(pre1) + Len(varint[m])]
      <4>1. Read(m, pre1, rest)
        <5> HIDE DEF Read, pre1
        <5> QED
            BY <1>1, <3>1, <3>4
      <4> QED
          BY <3>7, <4>1
    <3> HIDE DEF buf, Read
    <3> DEFINE r == ReadVarint(buf, End(pre) + 1)
    <3>10. r = [v |-> m, next |-> End(pre) + Len(varint[n])]
      <4> HIDE DEF pre1
      <4> QED
          BY <3>6, <3>9
    <3>11. r.v = m /\ r.next = End(pre) + Len(varint[n]) /\ r # Cut
          BY <3>1, <3>10 DEF Cut
    <3>12. ReadVarint(buf, End(pre)) = IF b < 128 THEN [v |-> b, next |-> End(pre) + 1]
                   ELSE IF r = Cut THEN Cut
                   ELSE [v |-> b - 128 + 128 * r.v, next |-> r.next]
      <4>1. buf = Join(Join(pre, One(b)), Join(varint[m], rest))
            BY <3>8
      <4> DEFINE behind == Join(varint[m], rest)
      <4>2. b \in Byte /\ behind \in Buffers /\ buf = Join(Join(pre, One(b)), behind)
            BY <3>1, <3>8, <4>1 DEF Byte
      <4> HIDE DEF pre1, r, behind
      <4>3. /\ buf \in Buffers
            /\ ReadVarint(buf, End(pre)) =
                IF b < 128 THEN [v |-> b, next |-> End(pre) + 1]
                ELSE IF ReadVarint(buf, End(pre) + 1) = Cut THEN Cut
                ELSE [v |-> b - 128 + 128 * ReadVarint(buf, End(pre) + 1).v,
                      next |-> ReadVarint(buf, End(pre) + 1).next]
            BY <4>2, ByteIsRead
      <4> QED
          BY <4>3 DEF r
    <3> HIDE DEF r
    <3>13. ReadVarint(buf, End(pre)) = [v |-> n, next |-> End(pre) + Len(varint[n])]
          BY <3>1, <3>11, <3>12
    <3> QED
        BY <3>13 DEF buf, Read
  <2> QED
      BY <2>1, <2>2
<1>2. \A n \in Nat : (\A m \in Nat : m < n => m \in P) => n \in P
  <2> HIDE DEF Read
  <2> QED
      BY <1>1
<1>3. Nat \subseteq P
  <2> HIDE DEF P
  <2> QED
      BY <1>2, NatInductionIn
<1> QED
    BY <1>3

\* _write_varint and read_varint agree: a number is read where it was written,
\* whatever is before and behind it.
THEOREM VarintIsRead ==
    \A n \in Nat : \A pre, rest \in Buffers :
        ReadVarint(pre \o WriteVarint(n) \o rest, End(pre))
          = [v |-> n, next |-> End(pre) + Len(WriteVarint(n))]
BY VarintReads DEF Join, WriteVarint

-----------------------------------------------------------------------------
(* Fields.                                                                 *)

\* A field that is understood.
FieldRec == [is : {"int", "bytes"}, num : Nat, int : Nat, bytes : Buffers, next : Nat]

\* The lesser of a number and the place behind a buffer, or in front of it.
LEMMA SliceIs ==
    ASSUME NEW buf \in Buffers, NEW i \in 1..End(buf), NEW size \in Nat
    PROVE  /\ SubSeq(buf, i, Min({i + size - 1, Len(buf)})) \in Buffers
           /\ Min({i + size - 1, Len(buf)}) = IF i + size - 1 <= Len(buf)
                                              THEN i + size - 1 ELSE Len(buf)
<1> DEFINE k == i + size - 1
           m == Min({k, Len(buf)})
<1>1. Len(buf) \in Nat /\ i \in 1..Len(buf) + 1
      BY ByteAt DEF End
<1>2. k \in Nat /\ i - 1 <= k /\ i - 1 <= Len(buf)
      BY <1>1
<1> HIDE DEF k
<1>3. m = IF k <= Len(buf) THEN k ELSE Len(buf)
      BY <1>1, <1>2, MinIsLess
<1> HIDE DEF m
<1>4. m \in i - 1..Len(buf)
      BY <1>1, <1>2, <1>3
<1>5. SubSeq(buf, i, m) \in Buffers
  <2>1. i \in Int /\ m \in Int /\ \A j \in i..m : j \in 1..Len(buf)
        BY <1>1, <1>4
  <2>2. \A j \in i..m : buf[j] \in 0..255
        BY <2>1, ByteAt
  <2> QED
      BY <2>1, <2>2, SubSeqProperties DEF Buffers
<1> QED
    BY <1>3, <1>5 DEF k, m

\* What Field returns at a place of a buffer.
LEMMA FieldIs ==
    ASSUME NEW buf \in Buffers, NEW i \in 1..Len(buf)
    PROVE  /\ Field(buf, i).is \in {"cut", "int", "bytes", "group"}
           /\ Field(buf, i).is # "cut" =>
                 Field(buf, i).next \in Nat /\ Field(buf, i).next > i
           /\ Field(buf, i).is \in {"int", "bytes"} => Field(buf, i) \in FieldRec
<1> DEFINE tag == ReadVarint(buf, i)
           wt == tag.v % 8
           arg == IF wt \in {0, 2} THEN ReadVarint(buf, tag.next) ELSE tag
           size == CASE wt = 2 -> arg.v [] wt = 5 -> 4 [] wt = 1 -> 8 [] OTHER -> 0
           slice == SubSeq(buf, arg.next, Min({arg.next + size - 1, Len(buf)}))
           is == IF tag = Cut \/ arg = Cut THEN "cut"
                 ELSE CASE wt = 0 -> "int" [] wt \in {1, 2, 5} -> "bytes"
                        [] OTHER -> "group"
<1>1. Field(buf, i) = [is |-> is, num |-> tag.v \div 8, int |-> arg.v,
                       bytes |-> slice, next |-> arg.next + size]
      BY DEF Field
<1>2. is \in {"cut", "int", "bytes", "group"} /\ (is # "cut" => tag # Cut /\ arg # Cut)
  <2> HIDE DEF tag, wt, arg, size, slice
  <2>1. CASE tag = Cut \/ arg = Cut
        BY <2>1
  <2>2. CASE tag # Cut /\ arg # Cut
        BY <2>2
  <2> QED
      BY <2>1, <2>2
<1>3. ASSUME is # "cut"
      PROVE  /\ arg.next + size \in Nat /\ arg.next + size > i
             /\ tag.v \div 8 \in Nat /\ arg.v \in Nat /\ slice \in Buffers
  <2> HIDE DEF is
  <2>1. tag \in Reads /\ tag.next \in i + 1..End(buf)
    <3> HIDE DEF arg
    <3> QED
        BY <1>2, <1>3, VarintEnds
  <2>2. tag.v \in Nat /\ tag.v \div 8 \in Nat /\ wt \in 0..7
    <3>1. tag.v \in Nat
          BY <2>1 DEF Reads
    <3> HIDE DEF tag
    <3> QED
        BY <3>1, ThreeBits
  <2>3. End(buf) \in Nat
        BY ByteAt DEF End
  <2>4. arg \in Reads /\ arg.next \in i + 1..End(buf)
    <3>1. CASE wt \in {0, 2}
      <4>1. arg = ReadVarint(buf, tag.next)
            BY <3>1
      <4>2. arg \in Reads /\ arg.next \in tag.next + 1..End(buf)
        <5> HIDE DEF tag, wt
        <5> QED
            BY <1>2, <1>3, <4>1, VarintEnds
      <4> HIDE DEF tag, wt, arg
      <4> QED
          BY <2>1, <2>3, <4>2
    <3>2. CASE wt \notin {0, 2}
      <4>1. arg = tag
            BY <3>2
      <4> HIDE DEF tag, wt, arg
      <4> QED
          BY <2>1, <4>1
    <3> QED
        BY <3>1, <3>2
  <2> HIDE DEF tag, wt, arg
  <2>5. arg.v \in Nat /\ arg.next \in Nat
        BY <2>4 DEF Reads
  <2>6. size \in Nat
        BY <2>5
  <2>7. slice \in Buffers
    <3>1. arg.next \in 1..End(buf)
          BY <2>3, <2>4
    <3> HIDE DEF size
    <3> QED
        BY <2>6, <3>1, SliceIs
  <2> HIDE DEF size, slice
  <2> QED
      BY <2>2, <2>3, <2>4, <2>5, <2>6, <2>7
<1> HIDE DEF tag, wt, arg, size, slice, is
<1>4. Field(buf, i).is = is /\ Field(buf, i).next = arg.next + size
      BY <1>1
<1>5. is \in {"int", "bytes"} => Field(buf, i) \in FieldRec
  <2> SUFFICES ASSUME is \in {"int", "bytes"} PROVE Field(buf, i) \in FieldRec
      OBVIOUS
  <2>1. is # "cut"
        OBVIOUS
  <2> QED
      BY <1>1, <1>3, <2>1 DEF FieldRec
<1> QED
    BY <1>2, <1>3, <1>4, <1>5

\* Where the next field is looked for; behind one that is not understood, nowhere.
NextAt(buf, i) == Min({Field(buf, i).next, End(buf)})

\* It is behind this one, and not behind the end.
LEMMA NextIs ==
    ASSUME NEW buf \in Buffers, NEW i \in 1..Len(buf), Field(buf, i).is # "cut"
    PROVE  /\ NextAt(buf, i) \in i + 1..End(buf)
           /\ Field(buf, i).next <= End(buf) => NextAt(buf, i) = Field(buf, i).next
<1> DEFINE k == Field(buf, i).next
<1>1. k \in Nat /\ k > i /\ End(buf) \in Nat /\ i < End(buf) /\ i \in Nat
  <2>1. Len(buf) \in Nat
        BY ByteAt
  <2> QED
      BY <2>1, FieldIs DEF End
<1> HIDE DEF k
<1>2. Min({k, End(buf)}) = IF k <= End(buf) THEN k ELSE End(buf)
      BY <1>1, MinIsLess
<1>3. Min({k, End(buf)}) \in i + 1..End(buf) /\ (k <= End(buf) => Min({k, End(buf)}) = k)
      BY <1>1, <1>2
<1> QED
    BY <1>3 DEF k, NextAt

\* The function of a buffer's fields is one.
LEMMA FieldsFromIs ==
    ASSUME NEW buf \in Buffers
    PROVE  \A i \in 1..End(buf) : FieldsFrom(buf)[i] =
              IF i = End(buf) THEN <<>>
              ELSE LET rest == FieldsFrom(buf)[NextAt(buf, i)]
                   IN CASE Field(buf, i).is = "cut" -> Failed
                        [] Field(buf, i).is = "group" -> <<>>
                        [] OTHER -> IF rest = Failed THEN Failed
                                    ELSE <<Field(buf, i)>> \o rest
<1> DEFINE D == 1..End(buf)
           V == Seq(FieldRec) \cup {Failed}
           After(i, x) == CASE Field(buf, i).is = "cut" -> Failed
                            [] Field(buf, i).is = "group" -> <<>>
                            [] OTHER -> IF x = Failed THEN Failed ELSE <<Field(buf, i)>> \o x
           Body(r, i) == IF i = End(buf) THEN <<>> ELSE After(i, r[NextAt(buf, i)])
           rank == [i \in D |-> End(buf) - i]
           prev == [i \in D |-> IF i = End(buf) \/ Field(buf, i).is = "cut"
                                THEN End(buf) ELSE NextAt(buf, i)]
           base == [i \in D |-> <<>>]
           step == [i \in D |-> [x \in V |-> IF i = End(buf) THEN <<>> ELSE After(i, x)]]
<1>1. /\ Len(buf) \in Nat /\ End(buf) = Len(buf) + 1 /\ End(buf) \in D
      /\ \A i \in D : i # End(buf) => i \in 1..Len(buf)
      BY ByteAt DEF End
<1>2. \A i \in D : /\ i # End(buf) /\ Field(buf, i).is # "cut" => NextAt(buf, i) \in i + 1..End(buf)
                   /\ prev[i] \in D
                   /\ i # End(buf) => prev[i] \in i + 1..End(buf)
  <2> SUFFICES ASSUME NEW i \in D
               PROVE  /\ i # End(buf) /\ Field(buf, i).is # "cut"
                           => NextAt(buf, i) \in i + 1..End(buf)
                      /\ prev[i] \in D
                      /\ i # End(buf) => prev[i] \in i + 1..End(buf)
      OBVIOUS
  <2>1. i # End(buf) /\ Field(buf, i).is # "cut" => NextAt(buf, i) \in i + 1..End(buf)
        BY <1>1, NextIs
  <2>2. prev[i] = IF i = End(buf) \/ Field(buf, i).is = "cut"
                  THEN End(buf) ELSE NextAt(buf, i)
        OBVIOUS
  <2> HIDE DEF prev
  <2> QED
      BY <1>1, <2>1, <2>2
<1>3. /\ rank \in [D -> Nat]
      /\ \A i \in D : rank[i] = End(buf) - i /\ (rank[i] = 0 <=> i = End(buf))
      BY <1>1
<1>4. prev \in [D -> D]
      BY <1>2
<1>5. ASSUME NEW i \in D, rank[i] # 0 PROVE rank[prev[i]] < rank[i]
  <2>1. i # End(buf) /\ prev[i] \in i + 1..End(buf) /\ prev[i] \in D
        BY <1>2, <1>3, <1>5
  <2> HIDE DEF prev, rank
  <2> QED
      BY <1>1, <1>3, <2>1
<1>6. ASSUME NEW i \in 1..Len(buf), NEW x \in V PROVE After(i, x) \in V
  <2>1. CASE Field(buf, i).is \in {"int", "bytes"}
    <3>1. Field(buf, i) \in FieldRec
          BY <2>1, FieldIs
    <3>2. x # Failed => <<Field(buf, i)>> \o x \in Seq(FieldRec)
          BY <3>1
    <3> QED
        BY <2>1, <3>2
  <2>2. CASE Field(buf, i).is \in {"cut", "group"}
        BY <2>2
  <2> QED
      BY <2>1, <2>2, FieldIs
<1>7. base \in [D -> V] /\ step \in [D -> [V -> V]]
  <2>1. <<>> \in V
        OBVIOUS
  <2> HIDE DEF After, V
  <2> QED
      BY <1>1, <1>6, <2>1
<1>8. Descends(D, V, rank, prev, base, step)
  <2> HIDE DEF D, V, rank, prev, base, step
  <2> QED
      BY <1>3, <1>4, <1>5, <1>7 DEF Descends
<1>9. PICK r \in [D -> V] : \A i \in D :
         r[i] = IF rank[i] = 0 THEN base[i] ELSE step[i][r[prev[i]]]
  <2> HIDE DEF D, V, rank, prev, base, step
  <2> QED
      BY <1>8, Recursion
<1>10. \A i \in D : r[i] = Body(r, i)
  <2> SUFFICES ASSUME NEW i \in D PROVE r[i] = Body(r, i)
      OBVIOUS
  <2>1. CASE i = End(buf)
        BY <1>3, <1>9, <2>1
  <2>2. CASE i # End(buf)
    <3>1. prev[i] \in D /\ r[i] = step[i][r[prev[i]]]
      <4> HIDE DEF rank, prev, step, base
      <4> QED
          BY <1>2, <1>3, <1>9, <2>2
    <3>2. r[i] = After(i, r[prev[i]])
      <4> HIDE DEF prev, After, V, D
      <4> QED
          BY <2>2, <3>1
    <3>3. Field(buf, i).is # "cut" => prev[i] = NextAt(buf, i)
          BY <2>2
    <3>4. After(i, r[prev[i]]) = After(i, r[NextAt(buf, i)])
      <4> HIDE DEF prev
      <4> QED
          BY <3>3
    <3> HIDE DEF After
    <3> QED
        BY <2>2, <3>2, <3>4
  <2> QED
      BY <2>1, <2>2
<1>11. r = [i \in D |-> Body(r, i)]
  <2> HIDE DEF Body, D, V
  <2> QED
      BY <1>10
<1>12. FieldsFrom(buf) = [i \in D |-> Body(FieldsFrom(buf), i)]
      BY <1>11 DEF FieldsFrom, NextAt
<1> HIDE DEF Body
<1>13. \A i \in D : FieldsFrom(buf)[i] = Body(FieldsFrom(buf), i)
      BY <1>12
<1> QED
    BY <1>13 DEF Body

\* Fields that decode are all understood.
LEMMA FieldsAre ==
    ASSUME NEW buf \in Buffers
    PROVE  \A i \in 1..End(buf) : FieldsFrom(buf)[i] \in Seq(FieldRec) \cup {Failed}
<1> DEFINE D == 1..End(buf)
           V == Seq(FieldRec) \cup {Failed}
           P == {i \in D : FieldsFrom(buf)[i] \in V}
           rank == [i \in D |-> End(buf) - i]
<1>1. /\ Len(buf) \in Nat /\ End(buf) = Len(buf) + 1
      /\ \A i \in D : i # End(buf) => i \in 1..Len(buf)
      BY ByteAt DEF End
<1>2. rank \in [D -> Nat]
      BY <1>1
<1>3. ASSUME NEW i \in D, \A j \in D : rank[j] < rank[i] => j \in P PROVE i \in P
  <2> SUFFICES FieldsFrom(buf)[i] \in V
      OBVIOUS
  <2> DEFINE rest == FieldsFrom(buf)[NextAt(buf, i)]
  <2>0. <<>> \in V /\ Failed \in V
        OBVIOUS
  <2>1. CASE i = End(buf)
    <3>1. FieldsFrom(buf)[i] = <<>>
          BY <2>1, FieldsFromIs
    <3> HIDE DEF V
    <3> QED
        BY <2>0, <3>1
  <2>2. CASE i # End(buf) /\ Field(buf, i).is \in {"cut", "group"}
    <3>1. FieldsFrom(buf)[i] \in {Failed, <<>>}
          BY <2>2, FieldsFromIs
    <3> HIDE DEF V
    <3> QED
        BY <2>0, <3>1
  <2>3. CASE i # End(buf) /\ Field(buf, i).is \in {"int", "bytes"}
    <3>1. i \in 1..Len(buf) /\ NextAt(buf, i) \in i + 1..End(buf)
          BY <1>1, <2>3, NextIs
    <3>2. NextAt(buf, i) \in D /\ rank[NextAt(buf, i)] < rank[i]
          BY <1>1, <3>1
    <3>3. rest \in V
          BY <1>3, <3>2
    <3>4. Field(buf, i) \in FieldRec
          BY <2>3, <3>1, FieldIs
    <3>5. FieldsFrom(buf)[i] = IF rest = Failed THEN Failed ELSE <<Field(buf, i)>> \o rest
      <4> HIDE DEF rest
      <4> QED
          BY <2>3, FieldsFromIs DEF rest
    <3> HIDE DEF rest
    <3>6. rest # Failed => <<Field(buf, i)>> \o rest \in V
          BY <3>3, <3>4
    <3> HIDE DEF V
    <3> QED
        BY <2>0, <3>5, <3>6
  <2> QED
      BY <1>1, <2>1, <2>2, <2>3, FieldIs
<1>4. D \subseteq P
  <2> HIDE DEF D, P, rank
  <2> QED
      BY <1>2, <1>3, RankInduction
<1> QED
    BY <1>4

\* The function that tells valid messages is one.
LEMMA ValidFromIs ==
    ASSUME NEW buf \in Buffers
    PROVE  \A i \in 1..End(buf) : ValidFrom(buf)[i] =
              (i = End(buf) \/ /\ Field(buf, i).is \notin {"cut", "group"}
                               /\ Field(buf, i).next <= End(buf)
                               /\ ValidFrom(buf)[Field(buf, i).next])
<1> DEFINE D == 1..End(buf)
           Ok(i) == Field(buf, i).is \notin {"cut", "group"} /\ Field(buf, i).next <= End(buf)
           Body(r, i) == i = End(buf) \/ (Ok(i) /\ r[Field(buf, i).next])
           rank == [i \in D |-> End(buf) - i]
           prev == [i \in D |-> IF i # End(buf) /\ Ok(i) THEN Field(buf, i).next ELSE End(buf)]
           base == [i \in D |-> TRUE]
           step == [i \in D |-> [x \in BOOLEAN |-> Ok(i) /\ x]]
<1>1. /\ Len(buf) \in Nat /\ End(buf) = Len(buf) + 1 /\ End(buf) \in D
      /\ \A i \in D : i # End(buf) => i \in 1..Len(buf)
      BY ByteAt DEF End
<1>2. \A i \in D : /\ i # End(buf) /\ Ok(i) => Field(buf, i).next \in i + 1..End(buf)
                   /\ prev[i] \in D
                   /\ i # End(buf) => prev[i] \in i + 1..End(buf)
  <2> SUFFICES ASSUME NEW i \in D
               PROVE  /\ i # End(buf) /\ Ok(i) => Field(buf, i).next \in i + 1..End(buf)
                      /\ prev[i] \in D
                      /\ i # End(buf) => prev[i] \in i + 1..End(buf)
      OBVIOUS
  <2>1. i # End(buf) /\ Ok(i) => Field(buf, i).next \in i + 1..End(buf)
        BY <1>1, NextIs
  <2>2. prev[i] = IF i # End(buf) /\ Ok(i) THEN Field(buf, i).next ELSE End(buf)
        OBVIOUS
  <2> HIDE DEF prev, Ok
  <2> QED
      BY <1>1, <2>1, <2>2
<1>3. /\ rank \in [D -> Nat]
      /\ \A i \in D : rank[i] = End(buf) - i /\ (rank[i] = 0 <=> i = End(buf))
      BY <1>1
<1>4. prev \in [D -> D]
      BY <1>2
<1>5. ASSUME NEW i \in D, rank[i] # 0 PROVE rank[prev[i]] < rank[i]
  <2>1. i # End(buf) /\ prev[i] \in i + 1..End(buf) /\ prev[i] \in D
        BY <1>2, <1>3, <1>5
  <2> HIDE DEF prev, rank
  <2> QED
      BY <1>1, <1>3, <2>1
<1>6. base \in [D -> BOOLEAN] /\ step \in [D -> [BOOLEAN -> BOOLEAN]]
      OBVIOUS
<1>7. Descends(D, BOOLEAN, rank, prev, base, step)
  <2> HIDE DEF D, rank, prev, base, step
  <2> QED
      BY <1>3, <1>4, <1>5, <1>6 DEF Descends
<1>8. PICK r \in [D -> BOOLEAN] : \A i \in D :
         r[i] = IF rank[i] = 0 THEN base[i] ELSE step[i][r[prev[i]]]
  <2> HIDE DEF D, rank, prev, base, step
  <2> QED
      BY <1>7, Recursion
<1>9. \A i \in D : r[i] = Body(r, i)
  <2> SUFFICES ASSUME NEW i \in D PROVE r[i] = Body(r, i)
      OBVIOUS
  <2>1. CASE i = End(buf)
    <3>1. r[i] = base[i]
      <4> HIDE DEF rank, prev, step, base
      <4> QED
          BY <1>3, <1>8, <2>1
    <3>2. r[i] = TRUE
          BY <3>1
    <3> QED
        BY <2>1, <3>2
  <2>2. CASE i # End(buf)
    <3>1. prev[i] \in D /\ r[i] = step[i][r[prev[i]]] /\ r[prev[i]] \in BOOLEAN
      <4> HIDE DEF rank, prev, step, base
      <4> QED
          BY <1>2, <1>3, <1>8, <2>2
    <3>2. r[i] = (Ok(i) /\ r[prev[i]])
      <4> HIDE DEF prev, Ok, D
      <4> QED
          BY <2>2, <3>1
    <3>3. Ok(i) => prev[i] = Field(buf, i).next
          BY <2>2
    <3> HIDE DEF prev, Ok
    <3> QED
        BY <2>2, <3>2, <3>3
  <2> QED
      BY <2>1, <2>2
<1>10. r = [i \in D |-> Body(r, i)]
  <2> HIDE DEF Body, D
  <2> QED
      BY <1>9
<1>11. ValidFrom(buf) = [i \in D |-> Body(ValidFrom(buf), i)]
      BY <1>10 DEF ValidFrom
<1> HIDE DEF Body
<1>12. \A i \in D : ValidFrom(buf)[i] = Body(ValidFrom(buf), i)
      BY <1>11
<1> QED
    BY <1>12 DEF Body

\* What _valid_message lets through, decode_fields takes.
LEMMA ValidDecodes ==
    ASSUME NEW buf \in Buffers, ValidMessage(buf) PROVE Fields(buf) # Failed
<1> DEFINE D == 1..End(buf)
           P == {i \in D : ValidFrom(buf)[i] => FieldsFrom(buf)[i] # Failed}
           rank == [i \in D |-> End(buf) - i]
<1>1. /\ Len(buf) \in Nat /\ End(buf) = Len(buf) + 1 /\ 1 \in D
      /\ \A i \in D : i # End(buf) => i \in 1..Len(buf)
      BY ByteAt DEF End
<1>2. rank \in [D -> Nat]
      BY <1>1
<1>3. <<>> # Failed
      BY DEF Failed
<1>4. ASSUME NEW i \in D, \A j \in D : rank[j] < rank[i] => j \in P PROVE i \in P
  <2> SUFFICES ASSUME ValidFrom(buf)[i] PROVE FieldsFrom(buf)[i] # Failed
      OBVIOUS
  <2>1. CASE i = End(buf)
    <3>1. FieldsFrom(buf)[i] = <<>>
          BY <2>1, FieldsFromIs
    <3> QED
        BY <1>3, <3>1
  <2>2. CASE i # End(buf)
    <3> DEFINE k == NextAt(buf, i)
    <3>1. /\ Field(buf, i).is \notin {"cut", "group"} /\ Field(buf, i).next <= End(buf)
          /\ ValidFrom(buf)[Field(buf, i).next]
          BY <2>2, ValidFromIs
    <3>2. i \in 1..Len(buf) /\ k \in i + 1..End(buf) /\ k = Field(buf, i).next
          BY <1>1, <2>2, <3>1, NextIs
    <3> HIDE DEF k
    <3>3. k \in D /\ rank[k] < rank[i]
          BY <1>1, <3>2
    <3>4. FieldsFrom(buf)[k] # Failed
          BY <1>4, <3>1, <3>2, <3>3
    <3>5. FieldsFrom(buf)[k] \in Seq(FieldRec)
          BY <3>3, <3>4, FieldsAre
    <3>6. FieldsFrom(buf)[i] = <<Field(buf, i)>> \o FieldsFrom(buf)[k]
          BY <2>2, <3>1, <3>4, FieldsFromIs DEF k
    <3>7. Field(buf, i) \in FieldRec
          BY <3>1, <3>2, FieldIs
    <3>8. FieldsFrom(buf)[i][1] = Field(buf, i)
          BY <3>5, <3>6, <3>7
    <3>9. Failed[1].is = "cut"
          BY DEF Failed
    <3> QED
        BY <3>1, <3>8, <3>9
  <2> QED
      BY <2>1, <2>2
<1>5. D \subseteq P
  <2> HIDE DEF D, P, rank
  <2> QED
      BY <1>2, <1>4, RankInduction
<1> QED
    BY <1>1, <1>5 DEF ValidMessage, Fields

-----------------------------------------------------------------------------
(* Trees.                                                                  *)

\* No value is nested in the deepest one.
LEMMA DeepestIs ==
    ASSUME NEW fields, NEW x, NEW y
    PROVE  Tree(fields, 0, x) = Tree(fields, 0, y)
<1>1. \A f : Value(f, 0, x) = Value(f, 0, y)
  <2>1. \A f : ~Nested(f, 0)
        BY DEF Nested
  <2> QED
      BY <2>1 DEF Value
<1> QED
    BY <1>1 DEF Tree, Together

\* The functions that decode at each depth are one.
LEMMA DecodeIs ==
    \A depth \in 0..MaxDepth : \A buf \in Buffers :
        decode[depth][buf] = Tree(Fields(buf), depth, decode[depth - 1])
<1> DEFINE Level(n, x) == [buf \in Buffers |-> Tree(Fields(buf), n, x)]
           Part(g, n) == g = [m \in 0..n |-> Level(m, g[m - 1])]
           P == {n \in Nat : \E g : Part(g, n)}
<1>1. \A x, y : Level(0, x) = Level(0, y)
      BY DeepestIs
<1> HIDE DEF Level
<1>2. ASSUME NEW n \in Nat, \A m \in Nat : m < n => m \in P PROVE n \in P
  <2>1. CASE n = 0
    <3> DEFINE g == [m \in 0..n |-> Level(0, 0)]
    <3>1. \A m \in 0..n : Level(m, g[m - 1]) = Level(0, 0)
          BY <1>1, <2>1
    <3>2. g = [m \in 0..n |-> Level(m, g[m - 1])]
          BY <3>1
    <3> QED
        BY <3>2
  <2>2. CASE n # 0
    <3>1. n - 1 \in Nat /\ n - 1 < n
          BY <2>2
    <3>2. PICK q : Part(q, n - 1)
          BY <1>2, <3>1
    <3> DEFINE g == [m \in 0..n |-> IF m = n THEN Level(n, q[n - 1]) ELSE q[m]]
    <3>3. ASSUME NEW m \in 0..n PROVE g[m] = Level(m, g[m - 1])
      <4>1. CASE m = 0
        <5>1. 0 \in 0..n - 1 /\ m # n
              BY <2>2, <4>1
        <5>2. q[0] = Level(0, q[0 - 1])
              BY <3>2, <5>1
        <5>3. g[m] = q[0]
              BY <4>1, <5>1
        <5>4. Level(0, q[0 - 1]) = Level(0, g[m - 1])
          <6> HIDE DEF g
          <6> QED
              BY <1>1
        <5> HIDE DEF g
        <5> QED
            BY <4>1, <5>2, <5>3, <5>4
      <4>2. CASE m # 0 /\ m # n
        <5>1. m \in 0..n - 1 /\ m - 1 \in 0..n /\ m - 1 # n
              BY <3>1, <4>2
        <5>2. q[m] = Level(m, q[m - 1])
              BY <3>2, <5>1
        <5>3. g[m] = q[m] /\ g[m - 1] = q[m - 1]
              BY <4>2, <5>1
        <5> HIDE DEF g
        <5> QED
            BY <5>2, <5>3
      <4>3. CASE m = n
        <5>1. n - 1 \in 0..n /\ n - 1 # n
              BY <3>1
        <5>2. g[m] = Level(n, q[n - 1]) /\ g[n - 1] = q[n - 1]
              BY <4>3, <5>1
        <5> HIDE DEF g
        <5> QED
            BY <4>3, <5>2
      <4> QED
          BY <4>1, <4>2, <4>3
    <3>4. g = [m \in 0..n |-> Level(m, g[m - 1])]
      <4>1. DOMAIN g = 0..n /\ g = [m \in 0..n |-> g[m]]
            OBVIOUS
      <4> HIDE DEF g
      <4> QED
          BY <3>3, <4>1
    <3> HIDE DEF g
    <3> QED
        BY <3>4
  <2> QED
      BY <2>1, <2>2
<1>3. Nat \subseteq P
  <2> HIDE DEF P
  <2> QED
      BY <1>2, NatInductionIn
<1>4. MaxDepth \in Nat
      BY DEF MaxDepth
<1>5. \E g : Part(g, MaxDepth)
      BY <1>3, <1>4
<1>6. Part(decode, MaxDepth)
  <2>1. decode = CHOOSE g : Part(g, MaxDepth)
        BY DEF decode, Level
  <2> HIDE DEF Part
  <2> QED
      BY <1>5, <2>1
<1>7. \A m \in 0..MaxDepth : decode[m] = Level(m, decode[m - 1])
      BY <1>6
<1> QED
    BY <1>7 DEF Level

\* The values so far, put together by number, are the tree of a prefix.
LEMMA GroupedIs ==
    ASSUME NEW S, NEW values, values \in Seq(S)
    PROVE  \E g : /\ g[0] = <<>>
                  /\ \A i \in 1..Len(values) : g[i] = Put(g[i - 1], values[i])
                  /\ Grouped(values) = g[Len(values)]
<1> DEFINE Body(g, i) == IF i = 0 THEN <<>> ELSE Put(g[i - 1], values[i])
           Part(g, n) == g = [i \in 0..n |-> Body(g, i)]
           P == {n \in Nat : \E g : Part(g, n)}
<1>1. ASSUME NEW n \in Nat, \A m \in Nat : m < n => m \in P PROVE n \in P
  <2>1. CASE n = 0
    <3> DEFINE g == [i \in 0..n |-> <<>>]
    <3>1. \A i \in 0..n : Body(g, i) = <<>>
          BY <2>1
    <3>2. g = [i \in 0..n |-> Body(g, i)]
          BY <3>1
    <3> QED
        BY <3>2
  <2>2. CASE n # 0
    <3>1. n - 1 \in Nat /\ n - 1 < n
          BY <2>2
    <3>2. PICK q : Part(q, n - 1)
          BY <1>1, <3>1
    <3> DEFINE g == [i \in 0..n |-> IF i = n THEN Put(q[n - 1], values[n]) ELSE q[i]]
    <3>3. ASSUME NEW i \in 0..n PROVE g[i] = Body(g, i)
      <4>1. CASE i = n
        <5>1. n - 1 \in 0..n /\ n - 1 # n
              BY <3>1
        <5>2. g[i] = Put(q[n - 1], values[n]) /\ g[n - 1] = q[n - 1]
              BY <4>1, <5>1
        <5> HIDE DEF g
        <5> QED
            BY <2>2, <4>1, <5>2
      <4>2. CASE i # n
        <5>1. i \in 0..n - 1 /\ g[i] = q[i]
              BY <3>1, <4>2
        <5>2. q[i] = Body(q, i)
              BY <3>2, <5>1
        <5>3. i # 0 => g[i - 1] = q[i - 1]
          <6> SUFFICES ASSUME i # 0 PROVE g[i - 1] = q[i - 1]
              OBVIOUS
          <6>1. i - 1 \in 0..n /\ i - 1 # n
                BY <3>1, <4>2
          <6> QED
              BY <6>1
        <5> HIDE DEF g
        <5> QED
            BY <5>1, <5>2, <5>3
      <4> QED
          BY <4>1, <4>2
    <3>4. g = [i \in 0..n |-> Body(g, i)]
      <4>1. DOMAIN g = 0..n /\ g = [i \in 0..n |-> g[i]]
            OBVIOUS
      <4> HIDE DEF g, Body
      <4> QED
          BY <3>3, <4>1
    <3> HIDE DEF g, Body
    <3> QED
        BY <3>4
  <2> QED
      BY <2>1, <2>2
<1>2. Nat \subseteq P
  <2> HIDE DEF P
  <2> QED
      BY <1>1, NatInductionIn
<1>3. Len(values) \in Nat
      BY LenProperties
<1> DEFINE grouped == CHOOSE g : Part(g, Len(values))
<1>4. Part(grouped, Len(values))
  <2>1. \E g : Part(g, Len(values))
        BY <1>2, <1>3
  <2> HIDE DEF Part
  <2> QED
      BY <2>1
<1>5. Grouped(values) = grouped[Len(values)]
      BY DEF Grouped
<1> HIDE DEF grouped
<1>6. \A i \in 0..Len(values) : grouped[i] = Body(grouped, i)
  <2> HIDE DEF Body
  <2> QED
      BY <1>4
<1> QED
    BY <1>3, <1>5, <1>6

\* What a tree of values out of S holds under a number.
Groups(S) == [num : {v.num : v \in S}, vals : Seq(S)]

\* A value put into a tree makes a tree.
LEMMA PutIs ==
    ASSUME NEW S, NEW tree, tree \in Seq(Groups(S)), NEW v \in S
    PROVE  /\ Put(tree, v) \in Seq(Groups(S)) /\ Put(tree, v) # <<>>
           /\ \A num : Has(Put(tree, v), num) <=> Has(tree, num) \/ num = v.num
<1> DEFINE n == Len(tree)
           new == [num |-> v.num, vals |-> <<v>>]
           More(g) == [num |-> v.num, vals |-> Append(tree[g].vals, v)]
           Next(g) == IF tree[g].num = v.num THEN More(g) ELSE tree[g]
<1>1. n \in Nat /\ DOMAIN tree = 1..n /\ \A g \in 1..n : tree[g] \in Groups(S)
  <2> HIDE DEF Groups
  <2> QED
      BY ElementOfSeq, LenProperties
<1>2. new \in Groups(S)
      BY DEF Groups
<1>3. \A g \in 1..n : More(g) \in Groups(S)
      BY <1>1 DEF Groups
<1> HIDE DEF More, new, n
<1>4. CASE Has(tree, v.num)
  <2>1. Put(tree, v) = [g \in 1..n |-> Next(g)]
        BY <1>1, <1>4 DEF Put, More
  <2>2. \A g \in 1..n : Next(g) \in Groups(S)
        BY <1>1, <1>3
  <2>3. \A g \in 1..n : Next(g).num = tree[g].num
        BY DEF More
  <2> HIDE DEF Next
  <2>4. Put(tree, v) \in [1..n -> Groups(S)]
        BY <2>1, <2>2
  <2>5. Put(tree, v) \in Seq(Groups(S)) /\ Len(Put(tree, v)) = n
    <3> HIDE DEF Groups
    <3> QED
        BY <1>1, <2>4, IsASeq, LenProperties
  <2>6. n # 0
        BY <1>1, <1>4 DEF Has
  <2>7. DOMAIN Put(tree, v) = 1..n /\ \A g \in 1..n : Put(tree, v)[g].num = tree[g].num
        BY <2>1, <2>3
  <2>8. \A num : Has(Put(tree, v), num) <=> Has(tree, num)
        BY <1>1, <2>7 DEF Has
  <2>9. Put(tree, v) # <<>>
        BY <2>5, <2>6, EmptySeq
  <2> QED
      BY <1>4, <2>5, <2>8, <2>9
<1>5. CASE ~Has(tree, v.num)
  <2>1. Put(tree, v) = Append(tree, new)
        BY <1>5 DEF Put, new
  <2>2. /\ Append(tree, new) \in Seq(Groups(S)) /\ Len(Append(tree, new)) = n + 1
        /\ \A i \in 1..n : Append(tree, new)[i] = tree[i]
        /\ Append(tree, new)[n + 1] = new
    <3> HIDE DEF Groups
    <3> QED
        BY <1>2, AppendProperties DEF n
  <2>3. DOMAIN Append(tree, new) = 1..n + 1
    <3> HIDE DEF Groups
    <3> QED
        BY <2>2, LenProperties
  <2>4. new.num = v.num
        BY DEF new
  <2>5. \A num : Has(Append(tree, new), num) <=> Has(tree, num) \/ num = v.num
    <3> SUFFICES ASSUME NEW num
                 PROVE  Has(Append(tree, new), num) <=> Has(tree, num) \/ num = v.num
        OBVIOUS
    <3>1. \A g \in 1..n + 1 : g \in 1..n \/ g = n + 1
          BY <1>1
    <3>2. 1..n \subseteq 1..n + 1 /\ n + 1 \in 1..n + 1
          BY <1>1
    <3> HIDE DEF Groups
    <3> QED
        BY <1>1, <2>2, <2>3, <2>4, <3>1, <3>2 DEF Has
  <2>6. Append(tree, new) # <<>>
        BY <2>3, <1>1
  <2> QED
      BY <2>1, <2>2, <2>5, <2>6
<1> QED
    BY <1>4, <1>5

\* Values put together by number make a tree, with every number they have.
LEMMA GroupedTree ==
    ASSUME NEW S, NEW values, values \in Seq(S)
    PROVE  /\ Grouped(values) \in Seq(Groups(S))
           /\ \A num : Has(Grouped(values), num) <=> \E i \in 1..Len(values) : values[i].num = num
<1>1. PICK g : /\ g[0] = <<>>
               /\ \A i \in 1..Len(values) : g[i] = Put(g[i - 1], values[i])
               /\ Grouped(values) = g[Len(values)]
      BY GroupedIs
<1> DEFINE n == Len(values)
           Claim(i) == /\ g[i] \in Seq(Groups(S))
                       /\ \A num : Has(g[i], num) <=> \E j \in 1..i : values[j].num = num
           P == {i \in Nat : i <= n => Claim(i)}
<1>2. n \in Nat /\ \A i \in 1..n : values[i] \in S
      BY ElementOfSeq, LenProperties
<1>3. ASSUME NEW i \in Nat, \A m \in Nat : m < i => m \in P PROVE i \in P
  <2> SUFFICES ASSUME i <= n PROVE Claim(i)
      OBVIOUS
  <2>1. CASE i = 0
    <3>1. <<>> \in Seq(Groups(S)) /\ \A num : ~Has(<<>>, num)
          BY DEF Has
    <3>2. g[i] = <<>> /\ \A j : j \notin 1..i
          BY <1>1, <2>1
    <3>3. \A num : ~\E j \in 1..i : values[j].num = num
          BY <3>2
    <3> QED
        BY <3>1, <3>2, <3>3, ZenonT(30)
  <2>2. CASE i # 0
    <3>1. i - 1 \in Nat /\ i - 1 < i /\ i - 1 <= n /\ i \in 1..n
          BY <1>2, <2>2
    <3>2. Claim(i - 1)
      <4> HIDE DEF Claim
      <4> QED
          BY <1>3, <3>1
    <3>3. g[i] = Put(g[i - 1], values[i]) /\ values[i] \in S
          BY <1>1, <1>2, <3>1
    <3>4. /\ g[i] \in Seq(Groups(S))
          /\ \A num : Has(g[i], num) <=> Has(g[i - 1], num) \/ num = values[i].num
      <4>1. g[i - 1] \in Seq(Groups(S))
            BY <3>2
      <4> HIDE DEF Claim
      <4>2. /\ Put(g[i - 1], values[i]) \in Seq(Groups(S))
            /\ \A num : Has(Put(g[i - 1], values[i]), num)
                        <=> Has(g[i - 1], num) \/ num = values[i].num
        <5> DEFINE t == g[i - 1]
                   v == values[i]
        <5>1. t \in Seq(Groups(S)) /\ v \in S
              BY <3>3, <4>1
        <5> HIDE DEF t, v
        <5>2. /\ Put(t, v) \in Seq(Groups(S))
              /\ \A num : Has(Put(t, v), num) <=> Has(t, num) \/ num = v.num
              BY <5>1, PutIs
        <5> QED
            BY <5>2 DEF t, v
      <4> QED
          BY <3>3, <4>2
    <3>5. \A j : j \in 1..i <=> j \in 1..i - 1 \/ j = i
          BY <3>1
    <3>6. \A num : (\E j \in 1..i : values[j].num = num)
                    <=> (\E j \in 1..i - 1 : values[j].num = num) \/ num = values[i].num
          BY <3>5, ZenonT(30)
    <3>7. \A num : Has(g[i], num) <=> \E j \in 1..i : values[j].num = num
          BY <3>2, <3>4, <3>6, ZenonT(30)
    <3> QED
        BY <3>4, <3>7
  <2> QED
      BY <2>1, <2>2
<1>4. Nat \subseteq P
  <2> HIDE DEF P
  <2> QED
      BY <1>3, NatInductionIn
<1>5. Claim(n)
  <2> HIDE DEF Claim
  <2> QED
      BY <1>2, <1>4
<1> QED
    BY <1>1, <1>5

\* They are never taken for a failure.
LEMMA GroupedDecodes ==
    ASSUME NEW S, NEW values, values \in Seq(S) PROVE Grouped(values) # Failed
<1> SUFFICES ASSUME Grouped(values) = Failed PROVE FALSE
    OBVIOUS
<1>1. Grouped(values) \in Seq(Groups(S))
      BY GroupedTree
<1>2. Len(Failed) = 1 /\ Failed[1] = [is |-> "cut"]
      BY DEF Failed
<1>3. Failed[1] \in Groups(S)
  <2> HIDE DEF Groups
  <2> QED
      BY <1>1, <1>2, ElementOfSeq
<1>4. DOMAIN Failed[1] = {"num", "vals"}
      BY <1>3 DEF Groups
<1>5. DOMAIN [is |-> "cut"] = {"is"}
      OBVIOUS
<1> QED
    BY <1>2, <1>4, <1>5

\* A buffer whose fields decode, decodes, down to any depth.
LEMMA DecodesAt ==
    \A n \in 0..MaxDepth : \A buf \in Buffers :
        decode[n][buf] = Failed => Fields(buf) = Failed
<1> DEFINE Good(n) == n \in 0..MaxDepth =>
              \A buf \in Buffers : decode[n][buf] = Failed => Fields(buf) = Failed
           P == {n \in Nat : Good(n)}
<1>1. ASSUME NEW n \in Nat, \A m \in Nat : m < n => m \in P,
             n \in 0..MaxDepth, NEW buf \in Buffers, decode[n][buf] = Failed,
             Fields(buf) # Failed
      PROVE  FALSE
  <2> DEFINE fields == Fields(buf)
             values == [i \in DOMAIN fields |-> Value(fields[i], n, decode[n - 1])]
  <2>1. Tree(fields, n, decode[n - 1]) = Failed
        BY <1>1, DecodeIs
  <2>2. fields \in Seq(FieldRec)
    <3>1. 1 \in 1..End(buf)
          BY ByteAt DEF End
    <3> QED
        BY <1>1, <3>1, FieldsAre DEF Fields
  <2> HIDE DEF fields
  <2>3. PICK i \in DOMAIN fields : fields[i].is = "cut" \/ values[i].tree = Failed
    <3>1. Together(fields, values) = Failed
          BY <2>1 DEF Tree
    <3>2. values \in Seq({values[i] : i \in DOMAIN fields})
      <4>1. DOMAIN fields = 1..Len(fields) /\ Len(fields) \in Nat
            BY <2>2, LenProperties
      <4>2. values \in [1..Len(fields) -> {values[i] : i \in DOMAIN fields}]
            BY <4>1
      <4> HIDE DEF values
      <4> QED
          BY <4>1, <4>2, IsASeq
    <3> HIDE DEF values
    <3>3. Grouped(values) # Failed
          BY <3>2, GroupedDecodes
    <3> QED
        BY <3>1, <3>3 DEF Together
  <2>4. fields[i] \in FieldRec
        BY <2>2, <2>3
  <2>5. fields[i].is # "cut" /\ fields[i].bytes \in Buffers
        BY <2>4 DEF FieldRec
  <2>6. Value(fields[i], n, decode[n - 1]).tree = Failed
        BY <2>3, <2>5
  <2>7. Nested(fields[i], n) /\ decode[n - 1][fields[i].bytes] = Failed
    <3>1. <<>> # Failed
          BY DEF Failed
    <3> QED
        BY <2>6, <3>1 DEF Value
  <2>8. n > 0 /\ ValidMessage(fields[i].bytes)
        BY <2>7 DEF Nested
  <2>9. n - 1 \in Nat /\ n - 1 < n /\ n - 1 \in 0..MaxDepth
        BY <1>1, <2>8 DEF MaxDepth
  <2>10. Fields(fields[i].bytes) = Failed
        BY <1>1, <2>5, <2>7, <2>9
  <2> QED
      BY <2>5, <2>8, <2>10, ValidDecodes
<1>2. \A n \in Nat : (\A m \in Nat : m < n => m \in P) => n \in P
      BY <1>1
<1>3. Nat \subseteq P
  <2> HIDE DEF P
  <2> QED
      BY <1>2, NatInductionIn
<1>4. \A n \in 0..MaxDepth : n \in Nat
      BY DEF MaxDepth
<1> QED
    BY <1>3, <1>4

\* At no depth does the guess that bytes are a nested message lose the message they
\* are in.
THEOREM NestedNeverFails == \A buf \in Buffers : NestedDecodes(buf)
<1>1. MaxDepth \in 0..MaxDepth
      BY DEF MaxDepth
<1> QED
    BY <1>1, DecodesAt DEF NestedDecodes, DecodeTree

-----------------------------------------------------------------------------
(* What encode_fields writes.                                              *)

\* A field as encode_fields is given it, and that it was read as.
Sent == [num : Nat, is : {"int", "bytes"}, int : Nat, bytes : Buffers]
ReadAs(f, g) == /\ g.is = f.is /\ g.num = f.num
                /\ f.is = "int" => g.int = f.int
                /\ f.is = "bytes" => g.bytes = f.bytes

\* A slice as Field takes it.
Slice(buf, i, size) == SubSeq(buf, i, Min({i + size - 1, Len(buf)}))

\* The slice of a buffer where another one was put.
LEMMA SliceIsRead ==
    ASSUME NEW a \in Buffers, NEW b \in Buffers, NEW c \in Buffers, NEW buf,
           buf = Join(Join(a, b), c)
    PROVE  Slice(buf, End(a), Len(b)) = b
<1> DEFINE k == End(a) + Len(b) - 1
           s == SubSeq(buf, End(a), k)
<1>1. /\ Len(a) \in Nat /\ Len(b) \in Nat /\ Len(c) \in Nat
      /\ buf \in Buffers /\ Len(buf) = Len(a) + Len(b) + Len(c)
  <2> DEFINE p == Join(a, b)
  <2>1. p \in Buffers /\ Len(p) = Len(a) + Len(b)
        BY JoinIs
  <2> HIDE DEF p
  <2>2. Join(p, c) \in Buffers /\ Len(Join(p, c)) = Len(p) + Len(c)
        BY <2>1, JoinIs
  <2>3. Len(a) \in Nat /\ Len(b) \in Nat /\ Len(c) \in Nat
        BY ByteAt
  <2> QED
      BY <2>1, <2>2, <2>3 DEF p
<1>2. End(a) = Len(a) + 1 /\ End(a) \in 1..End(buf) /\ Len(b) \in Nat
      BY <1>1 DEF End
<1>3. End(a) + Len(b) - 1 <= Len(buf) /\ k = Len(a) + Len(b)
      BY <1>1, <1>2
<1>4. Min({End(a) + Len(b) - 1, Len(buf)}) = k
      BY <1>1, <1>2, <1>3, SliceIs
<1> HIDE DEF k
<1>5. End(a) \in Int /\ k \in Int /\ \A j \in End(a)..k : j \in 1..Len(buf)
      BY <1>1, <1>2, <1>3
<1>6. \A j \in End(a)..k : buf[j] \in 0..255
      BY <1>1, <1>5, ByteAt
<1>7. /\ s \in Buffers
      /\ Len(s) = IF End(a) <= k THEN k - End(a) + 1 ELSE 0
      /\ \A i \in 1..k - End(a) + 1 : s[i] = buf[End(a) + i - 1]
      BY <1>5, <1>6, SubSeqProperties DEF Buffers
<1>8. Len(s) = Len(b)
  <2> HIDE DEF s
  <2> QED
      BY <1>1, <1>2, <1>3, <1>7
<1>9. ASSUME NEW i \in 1..Len(s) PROVE s[i] = b[i]
  <2> HIDE DEF s
  <2>1. i \in 1..Len(b) /\ i \in 1..k - End(a) + 1 /\ End(a) + i - 1 = Len(a) + i
        BY <1>1, <1>2, <1>3, <1>8
  <2>2. i \in DOMAIN b
        BY <2>1, ByteAt
  <2>3. s[i] = buf[Len(a) + i]
        BY <1>7, <2>1
  <2> QED
      BY <2>2, <2>3, JoinAt
<1>10. s = b
  <2> HIDE DEF s
  <2> QED
      BY <1>7, <1>8, <1>9, SeqEqual DEF Buffers
<1> QED
    BY <1>4, <1>10 DEF Slice

\* The place behind two buffers in a row.
LEMMA JoinEnds ==
    ASSUME NEW a \in Buffers, NEW b \in Buffers
    PROVE  End(Join(a, b)) = End(a) + Len(b)
<1>1. Len(a) \in Nat /\ Len(b) \in Nat /\ Len(Join(a, b)) = Len(a) + Len(b)
      BY ByteAt, JoinIs
<1> QED
    BY <1>1 DEF End

\* Bytes are read where they were written.
LEMMA DelimitedIsRead ==
    ASSUME NEW pre \in Buffers, NEW rest \in Buffers, NEW num \in Nat, NEW b \in Buffers,
           NEW buf, buf = Join(Join(pre, Delimited(num, b)), rest)
    PROVE  /\ Delimited(num, b) \in Buffers
           /\ Field(buf, End(pre)).is = "bytes" /\ Field(buf, End(pre)).num = num
           /\ Field(buf, End(pre)).bytes = b
           /\ Field(buf, End(pre)).next = End(pre) + Len(Delimited(num, b))
<1> DEFINE t == varint[8 * num + 2]
           l == varint[Len(b)]
           pre1 == Join(pre, t)
           pre2 == Join(pre1, l)
<1>1. /\ 8 * num + 2 \in Nat /\ Len(b) \in Nat
      /\ t \in Buffers /\ l \in Buffers /\ Delimited(num, b) = Join(Join(t, l), b)
  <2>1. 8 * num + 2 \in Nat /\ Len(b) \in Nat
        BY ByteAt
  <2> QED
      BY <2>1, VarintIs DEF Delimited, WriteVarint, Join
<1> HIDE DEF t, l
<1>2. /\ pre1 \in Buffers /\ pre2 \in Buffers /\ Join(b, rest) \in Buffers
      /\ Join(t, l) \in Buffers /\ Delimited(num, b) \in Buffers
  <2>1. pre1 \in Buffers /\ Join(t, l) \in Buffers /\ Join(b, rest) \in Buffers
        BY <1>1, JoinIs
  <2>2. Join(Join(t, l), b) \in Buffers
    <3> HIDE DEF pre1
    <3> QED
        BY <2>1, JoinIs
  <2> HIDE DEF pre1
  <2>3. pre2 \in Buffers
        BY <1>1, <2>1, JoinIs
  <2> QED
      BY <1>1, <2>1, <2>2, <2>3
<1>3. Len(Delimited(num, b)) = Len(t) + Len(l) + Len(b)
  <2> HIDE DEF pre1, pre2
  <2>1. Len(Join(t, l)) = Len(t) + Len(l)
        BY <1>1, JoinIs
  <2>2. Len(Join(Join(t, l), b)) = Len(Join(t, l)) + Len(b)
        BY <1>2, JoinIs
  <2> QED
      BY <1>1, <2>1, <2>2
<1>4. Join(pre, Delimited(num, b)) = Join(pre2, b)
  <2>1. Join(pre, Join(t, l)) = pre2
        BY <1>1, JoinAssociates
  <2>2. Join(pre, Join(Join(t, l), b)) = Join(Join(pre, Join(t, l)), b)
        BY <1>2, JoinAssociates
  <2> QED
      BY <1>1, <2>1, <2>2
<1> HIDE DEF pre1, pre2
<1>5. /\ buf = Join(Join(pre2, b), rest) /\ buf = Join(pre2, Join(b, rest))
      BY <1>2, <1>4, JoinAssociates
<1>6. buf = Join(pre1, Join(l, Join(b, rest))) /\ Join(l, Join(b, rest)) \in Buffers
      BY <1>1, <1>2, <1>5, JoinIs, JoinAssociates DEF pre2
<1>7. ReadVarint(buf, End(pre)) = [v |-> 8 * num + 2, next |-> End(pre) + Len(t)]
      BY <1>1, <1>6, VarintReads DEF pre1, t
<1>8. ReadVarint(buf, End(pre1)) = [v |-> Len(b), next |-> End(pre1) + Len(l)]
      BY <1>1, <1>2, <1>5, VarintReads DEF pre2, l
<1>9. /\ End(pre1) = End(pre) + Len(t) /\ End(pre2) = End(pre1) + Len(l)
      /\ End(pre2) + Len(b) = End(pre) + Len(Delimited(num, b))
      /\ End(pre1) # 0 /\ End(pre2) # 0
  <2>1. /\ Len(t) \in Nat /\ Len(l) \in Nat /\ Len(b) \in Nat
        /\ End(pre) \in Nat /\ End(pre) # 0
        BY <1>1, ByteAt DEF End
  <2>2. End(pre1) = End(pre) + Len(t)
        BY <1>1, JoinEnds DEF pre1
  <2>3. End(pre2) = End(pre1) + Len(l)
        BY <1>1, <1>2, JoinEnds DEF pre2
  <2>4. \A e, x, y, z \in Nat : e # 0 => /\ e + x # 0 /\ e + x + y # 0
                                        /\ e + x + y + z = e + (x + y + z)
        OBVIOUS
  <2>5. End(pre2) = End(pre) + Len(t) + Len(l)
        BY <2>2, <2>3
  <2> QED
      BY <1>3, <2>1, <2>2, <2>3, <2>4, <2>5
<1> DEFINE tag == ReadVarint(buf, End(pre))
           arg == ReadVarint(buf, tag.next)
<1>10. /\ tag.v = 8 * num + 2 /\ arg.v = Len(b) /\ arg.next = End(pre2)
       /\ tag.next = End(pre1)
      BY <1>7, <1>8, <1>9
<1> HIDE DEF tag, arg
<1>11. tag # Cut /\ arg # Cut
      BY <1>9, <1>10 DEF Cut
<1>12. tag.v % 8 = 2 /\ tag.v \div 8 = num
      BY <1>10, ThreeBits
<1>13. Slice(buf, arg.next, arg.v) = b
  <2>1. Slice(buf, End(pre2), Len(b)) = b
        BY <1>2, <1>5, SliceIsRead, ZenonT(30)
  <2> QED
      BY <1>10, <2>1
<1>14. /\ Field(buf, End(pre)).is = "bytes" /\ Field(buf, End(pre)).num = num
       /\ Field(buf, End(pre)).bytes = b
       /\ Field(buf, End(pre)).next = arg.next + arg.v
  <2>1. Field(buf, End(pre)) =
          [is |-> "bytes", num |-> tag.v \div 8, int |-> arg.v,
           bytes |-> Slice(buf, arg.next, arg.v), next |-> arg.next + arg.v]
    <3> DEFINE wt == tag.v % 8
               Sizes(w) == CASE w = 2 -> arg.v [] w = 5 -> 4 [] w = 1 -> 8 [] OTHER -> 0
               Is(w) == IF tag = Cut \/ arg = Cut THEN "cut"
                        ELSE CASE w = 0 -> "int" [] w \in {1, 2, 5} -> "bytes" [] OTHER -> "group"
    <3>1. arg = IF wt \in {0, 2} THEN ReadVarint(buf, tag.next) ELSE tag
          BY <1>12 DEF arg
    <3>2. Sizes(2) = arg.v /\ Is(2) = "bytes" /\ wt = 2
          BY <1>11, <1>12
    <3>3. Field(buf, End(pre)) =
            [is |-> Is(wt), num |-> tag.v \div 8, int |-> arg.v,
             bytes |-> Slice(buf, arg.next, Sizes(wt)), next |-> arg.next + Sizes(wt)]
          BY <3>1 DEF Field, tag, Slice
    <3> HIDE DEF Sizes, Is
    <3> QED
        BY <3>2, <3>3
  <2> QED
      BY <1>12, <1>13, <2>1
<1> QED
    BY <1>2, <1>9, <1>10, <1>14

\* A field is read where it was written.
LEMMA FieldIsRead ==
    ASSUME NEW pre \in Buffers, NEW rest \in Buffers, NEW f \in Sent, NEW buf,
           buf = Join(Join(pre, EncodeField(f)), rest)
    PROVE  /\ EncodeField(f) \in Buffers
           /\ ReadAs(f, Field(buf, End(pre)))
           /\ Field(buf, End(pre)).next = End(pre) + Len(EncodeField(f))
<1>1. f.num \in Nat /\ f.int \in Nat /\ f.bytes \in Buffers /\ f.is \in {"int", "bytes"}
      BY DEF Sent
<1>2. CASE f.is = "int"
  <2> DEFINE t == varint[8 * f.num]
             v == varint[f.int]
             pre1 == Join(pre, t)
  <2>1. 8 * f.num \in Nat /\ t \in Buffers /\ v \in Buffers /\ EncodeField(f) = Join(t, v)
        BY <1>1, <1>2, VarintIs DEF EncodeField, WriteVarint, Join
  <2> HIDE DEF t, v
  <2>2. pre1 \in Buffers /\ Join(v, rest) \in Buffers /\ Join(t, v) \in Buffers
        /\ Len(Join(t, v)) = Len(t) + Len(v)
        BY <2>1, JoinIs
  <2>3. Join(pre, Join(t, v)) = Join(pre1, v)
        BY <2>1, JoinAssociates
  <2> HIDE DEF pre1
  <2>4. buf = Join(Join(pre1, v), rest) /\ buf = Join(pre1, Join(v, rest))
        BY <2>1, <2>2, <2>3, JoinAssociates
  <2>5. ReadVarint(buf, End(pre)) = [v |-> 8 * f.num, next |-> End(pre) + Len(t)]
        BY <2>1, <2>2, <2>4, VarintReads DEF pre1, t
  <2>6. End(pre1) = End(pre) + Len(t) /\ End(pre1) + Len(v) = End(pre) + Len(EncodeField(f))
    <3>1. Len(t) \in Nat /\ Len(v) \in Nat /\ End(pre) \in Nat
          BY <2>1, ByteAt DEF End
    <3>2. End(pre1) = End(pre) + Len(t)
          BY <2>1, JoinEnds DEF pre1
    <3> QED
        BY <2>1, <2>2, <3>1, <3>2
  <2>7. ReadVarint(buf, End(pre1)) = [v |-> f.int, next |-> End(pre1) + Len(v)]
        BY <1>1, <2>2, <2>4, VarintReads DEF v
  <2> DEFINE tag == ReadVarint(buf, End(pre))
             arg == ReadVarint(buf, tag.next)
  <2>8. /\ tag.v = 8 * f.num /\ arg.v = f.int
        /\ arg.next = End(pre) + Len(EncodeField(f))
        BY <2>5, <2>6, <2>7
  <2>9. tag # Cut /\ arg # Cut
    <3>1. tag.next = End(pre1) /\ arg.next = End(pre1) + Len(v)
          BY <2>5, <2>6, <2>7
    <3>2. End(pre1) # 0 /\ End(pre1) + Len(v) # 0
          BY <2>1, <2>2, ByteAt DEF End
    <3> HIDE DEF tag, arg
    <3> QED
        BY <3>1, <3>2 DEF Cut
  <2>10. tag.v % 8 = 0 /\ tag.v \div 8 = f.num /\ arg.next \in Nat
    <3>1. End(pre) + Len(EncodeField(f)) \in Nat
          BY <2>1, <2>2, ByteAt DEF End
    <3> HIDE DEF tag, arg
    <3> QED
        BY <1>1, <2>8, <3>1, ThreeBits
  <2> HIDE DEF tag, arg
  <2>11. /\ Field(buf, End(pre)).is = "int" /\ Field(buf, End(pre)).num = f.num
         /\ Field(buf, End(pre)).int = f.int /\ Field(buf, End(pre)).next = arg.next + 0
        BY <2>8, <2>9, <2>10 DEF Field, tag, arg
  <2> QED
      BY <1>2, <2>1, <2>2, <2>8, <2>10, <2>11 DEF ReadAs
<1>3. CASE f.is = "bytes"
  <2>1. EncodeField(f) = Delimited(f.num, f.bytes)
        BY <1>3 DEF EncodeField
  <2> QED
      BY <1>1, <1>3, <2>1, DelimitedIsRead DEF ReadAs
<1> QED
    BY <1>1, <1>2, <1>3

\* FlattenSeq puts sequences in a row, one after the other.
LEMMA FlattenIs ==
    ASSUME NEW S, NEW s, s \in Seq(Seq(S))
    PROVE  \E g : /\ g[0] = <<>>
                  /\ \A k \in 1..Len(s) : g[k] = Join(g[k - 1], s[k])
                  /\ \A k \in 0..Len(s) : g[k] \in Seq(S)
                  /\ FlattenSeq(s) = g[Len(s)]
<1> DEFINE V == Seq(S)
           n == Len(s)
           D == 1..n
           rank == [i \in D |-> i - 1]
           prev == [i \in D |-> IF i = 1 THEN 1 ELSE i - 1]
           base == [i \in D |-> s[i]]
           step == [i \in D |-> [x \in V |-> Join(x, s[i])]]
           Body(r, i) == IF i = 1 THEN s[i] ELSE Join(r[i - 1], s[i])
<1>1. n \in Nat /\ \A i \in D : s[i] \in V
      BY ElementOfSeq, LenProperties
<1>2. <<>> \in V
      BY DEF V
<1>3. CASE n = 0
  <2>1. s = <<>>
        BY <1>3, EmptySeq
  <2>2. FlattenSeq(s) = <<>>
        BY <2>1 DEF FlattenSeq
  <2> DEFINE g == [k \in {0} |-> <<>>]
  <2>3. /\ g[0] = <<>> /\ \A k \in 1..n : g[k] = Join(g[k - 1], s[k])
        /\ \A k \in 0..n : g[k] \in V
        /\ FlattenSeq(s) = g[n]
        BY <1>2, <1>3, <2>2
  <2> HIDE DEF g
  <2> QED
      BY <2>3
<1>4. CASE n # 0
  <2> HIDE DEF n
  <2>1. rank \in [D -> Nat] /\ prev \in [D -> D]
        BY <1>1, <1>4
  <2>2. base \in [D -> V]
        BY <1>1
  <2>3. step \in [D -> [V -> V]]
    <3>1. \A x, y \in V : Join(x, y) \in V
          BY ConcatProperties DEF Join
    <3> HIDE DEF V
    <3> QED
        BY <1>1, <3>1
  <2>4. \A i \in D : rank[i] # 0 => rank[prev[i]] < rank[i]
        BY <1>1, <1>4
  <2>5. Descends(D, V, rank, prev, base, step)
    <3> HIDE DEF D, rank, prev, base, step
    <3> QED
        BY <2>1, <2>2, <2>3, <2>4 DEF Descends
  <2>6. PICK r \in [D -> V] : \A i \in D :
           r[i] = IF rank[i] = 0 THEN base[i] ELSE step[i][r[prev[i]]]
    <3> HIDE DEF D, rank, prev, base, step
    <3> QED
        BY <2>5, Recursion
  <2>7. \A i \in D : r[i] = Body(r, i)
    <3> SUFFICES ASSUME NEW i \in D PROVE r[i] = Body(r, i)
        OBVIOUS
    <3>1. CASE i = 1
      <4>1. rank[i] = 0 /\ base[i] = s[i]
            BY <3>1
      <4> HIDE DEF rank, prev, base, step, D
      <4> QED
          BY <2>6, <3>1, <4>1
    <3>2. CASE i # 1
      <4>1. rank[i] # 0 /\ prev[i] = i - 1 /\ i - 1 \in D
            BY <1>1, <3>2
      <4>2. r[i - 1] \in V
        <5> HIDE DEF D
        <5> QED
            BY <4>1
      <4>3. step[i][r[i - 1]] = Join(r[i - 1], s[i])
        <5> HIDE DEF D
        <5> QED
            BY <4>2
      <4> HIDE DEF rank, prev, base, step, D
      <4> QED
          BY <2>6, <3>2, <4>1, <4>3
    <3> QED
        BY <3>1, <3>2
  <2>8. r = [i \in D |-> Body(r, i)]
    <3> HIDE DEF Body, D
    <3> QED
        BY <2>7
  <2> DEFINE h == CHOOSE q : q = [i \in D |-> Body(q, i)]
  <2>9. h = [i \in D |-> Body(h, i)]
    <3> HIDE DEF Body, D
    <3> QED
        BY <2>8
  <2>10. FlattenSeq(s) = h[n]
        BY <1>4 DEF FlattenSeq, n, Join
  <2> HIDE DEF h
  <2>11. \A i \in D : h[i] = Body(h, i)
    <3> HIDE DEF Body, D
    <3> QED
        BY <2>9
  <2> DEFINE g == [k \in 0..n |-> IF k = 0 THEN <<>> ELSE h[k]]
  <2>12. g[0] = <<>> /\ g[n] = h[n] /\ \A k \in D : g[k] = h[k]
        BY <1>1, <1>4
  <2>13. ASSUME NEW k \in D PROVE g[k] = Join(g[k - 1], s[k])
    <3>1. CASE k = 1
      <4>1. Join(<<>>, s[1]) = s[1]
        <5>1. s[1] \in V
              BY <1>1, <3>1
        <5> QED
            BY <5>1, ConcatEmptySeq DEF Join, V
      <4>2. g[k] = s[1] /\ g[k - 1] = <<>>
        <5> HIDE DEF g
        <5> QED
            BY <2>11, <2>12, <3>1
      <4> HIDE DEF g
      <4> QED
          BY <3>1, <4>1, <4>2
    <3>2. CASE k # 1
      <4>1. k - 1 \in D
            BY <1>1, <3>2
      <4> HIDE DEF g
      <4> QED
          BY <2>11, <2>12, <3>2, <4>1
    <3> QED
        BY <3>1, <3>2
  <2> HIDE DEF g
  <2>14. ASSUME NEW k \in Nat, \A m \in Nat : m < k => m \in {j \in Nat : j <= n => g[j] \in V}
         PROVE  k \in {j \in Nat : j <= n => g[j] \in V}
    <3>1. CASE k = 0 \/ ~(k <= n)
          BY <1>2, <2>12, <3>1
    <3>2. CASE k # 0 /\ k <= n
      <4>1. k - 1 \in Nat /\ k - 1 < k /\ k - 1 <= n /\ k \in D
            BY <1>1, <3>2
      <4>2. g[k - 1] \in V /\ s[k] \in V
            BY <1>1, <2>14, <4>1
      <4>3. Join(g[k - 1], s[k]) \in V
            BY <4>2, ConcatProperties DEF Join
      <4> HIDE DEF V
      <4> QED
          BY <2>13, <4>1, <4>3
    <3> QED
        BY <3>1, <3>2
  <2>15. Nat \subseteq {j \in Nat : j <= n => g[j] \in V}
        BY <2>14, NatInductionIn
  <2>16. \A k \in 0..n : g[k] \in V
        BY <1>1, <2>15
  <2> QED
      BY <2>10, <2>12, <2>13, <2>16 DEF n
<1> QED
    BY <1>3, <1>4

\* decode_fields inverts encode_fields: for any fields, in any number and order, as
\* many are read as were sent, each as it was, in the order they were sent in; and
\* where they are nested in another message they are taken for one.
THEOREM FieldsAreRead ==
    \A sent \in Seq(Sent) :
        LET buf == EncodeFields(sent) IN
        /\ Fields(buf) \in Seq(FieldRec) /\ Len(Fields(buf)) = Len(sent)
        /\ \A k \in 1..Len(sent) : ReadAs(sent[k], Fields(buf)[k])
        /\ sent # <<>> => ValidMessage(buf)
<1> SUFFICES ASSUME NEW sent, sent \in Seq(Sent)
             PROVE  /\ Fields(EncodeFields(sent)) \in Seq(FieldRec)
                    /\ Len(Fields(EncodeFields(sent))) = Len(sent)
                    /\ \A k \in 1..Len(sent) : ReadAs(sent[k], Fields(EncodeFields(sent))[k])
                    /\ sent # <<>> => ValidMessage(EncodeFields(sent))
    OBVIOUS
<1> DEFINE n == Len(sent)
           s == [i \in DOMAIN sent |-> EncodeField(sent[i])]
<1>1. n \in Nat /\ DOMAIN sent = 1..n /\ \A k \in 1..n : sent[k] \in Sent
      BY ElementOfSeq, LenProperties
<1>2. \A k \in 1..n : s[k] = EncodeField(sent[k]) /\ s[k] \in Buffers
  <2> SUFFICES ASSUME NEW k \in 1..n
               PROVE  s[k] = EncodeField(sent[k]) /\ s[k] \in Buffers
      OBVIOUS
  <2>1. s[k] = EncodeField(sent[k])
        BY <1>1
  <2>2. <<>> \in Buffers /\ sent[k] \in Sent
        BY <1>1 DEF Buffers
  <2>3. EncodeField(sent[k]) \in Buffers
        BY <2>2, FieldIsRead
  <2> QED
      BY <2>1, <2>3
<1>3. s \in Seq(Buffers) /\ Len(s) = n
  <2>1. s \in [1..n -> Buffers]
        BY <1>1, <1>2
  <2> HIDE DEF s, n
  <2> QED
      BY <1>1, <2>1, IsASeq, LenProperties
<1>4. PICK g : /\ g[0] = <<>>
               /\ \A k \in 1..n : g[k] = Join(g[k - 1], s[k])
               /\ \A k \in 0..n : g[k] \in Buffers
               /\ FlattenSeq(s) = g[n]
  <2> HIDE DEF s
  <2> QED
      BY <1>3, FlattenIs DEF Buffers
<1>5. EncodeFields(sent) = g[n]
      BY <1>4 DEF EncodeFields
<1> HIDE DEF n, s
<1> DEFINE From(buf, k) == FieldsFrom(buf)[End(g[k])]
           Begins(buf, k, h) ==
                              /\ h \in Seq(FieldRec) /\ Len(h) = k
                              /\ \A j \in 1..k : ReadAs(sent[j], h[j])
                              /\ FieldsFrom(buf)[1] = h \o From(buf, k)
           Claim(k) == \A rest \in Buffers : LET buf == Join(g[k], rest) IN
              /\ From(buf, k) # Failed => \E h : Begins(buf, k, h)
              /\ ValidFrom(buf)[End(g[k])] => ValidFrom(buf)[1]
           P == {k \in Nat : k <= n => Claim(k)}
<1>6. Claim(0)
  <2> SUFFICES ASSUME NEW rest \in Buffers, NEW buf, buf = Join(g[0], rest)
               PROVE  /\ From(buf, 0) # Failed => \E h : Begins(buf, 0, h)
                      /\ ValidFrom(buf)[End(g[0])] => ValidFrom(buf)[1]
      OBVIOUS
  <2>1. g[0] \in Buffers /\ End(g[0]) = 1
    <3>1. 0 \in 0..n
          BY <1>1
    <3> QED
        BY <1>4, <3>1 DEF End
  <2>2. buf \in Buffers
        BY <2>1, JoinIs
  <2>3. 1 \in 1..End(buf)
        BY <2>2, ByteAt DEF End
  <2>4. ASSUME From(buf, 0) # Failed PROVE Begins(buf, 0, <<>>)
    <3>1. FieldsFrom(buf)[1] \in Seq(FieldRec)
          BY <2>1, <2>2, <2>3, <2>4, FieldsAre
    <3>2. <<>> \o FieldsFrom(buf)[1] = FieldsFrom(buf)[1]
          BY <3>1, ConcatEmptySeq
    <3> QED
        BY <2>1, <3>2
  <2> HIDE DEF Begins
  <2> QED
      BY <2>1, <2>4
<1>7. ASSUME NEW k \in 1..n, Claim(k - 1), NEW rest \in Buffers,
             NEW buf, buf = Join(g[k], rest)
      PROVE  /\ From(buf, k) # Failed => \E h : Begins(buf, k, h)
             /\ ValidFrom(buf)[End(g[k])] => ValidFrom(buf)[1]
  <2> DEFINE pre == g[k - 1]
             e == EncodeField(sent[k])
             f == Field(buf, End(pre))
  <2>1. /\ k - 1 \in 0..n /\ k \in 0..n /\ pre \in Buffers /\ g[k] \in Buffers
        /\ e \in Buffers /\ g[k] = Join(pre, e) /\ sent[k] \in Sent
    <3>1. k - 1 \in 0..n /\ k \in 0..n
          BY <1>1
    <3>2. s[k] = e /\ e \in Buffers /\ sent[k] \in Sent
          BY <1>1, <1>2
    <3> HIDE DEF e
    <3> QED
        BY <1>4, <3>1, <3>2
  <2>2. buf = Join(Join(pre, e), rest) /\ buf \in Buffers
        BY <1>7, <2>1, JoinIs
  <2>3. ReadAs(sent[k], f) /\ f.next = End(pre) + Len(e)
        BY <2>1, <2>2, FieldIsRead
  <2> HIDE DEF pre, e
  <2>4. End(g[k]) = f.next
        BY <2>1, <2>3, JoinEnds
  <2>5. f.is \in {"int", "bytes"}
        BY <2>1, <2>3 DEF ReadAs, Sent
  <2>6. buf = Join(pre, Join(e, rest)) /\ Join(e, rest) \in Buffers
        BY <2>1, <2>2, JoinIs, JoinAssociates
  <2>7. /\ End(pre) \in Nat \ {0} /\ f.next \in Nat
        /\ f.next <= End(buf) /\ End(pre) <= End(buf)
    <3>1. End(g[k]) + Len(rest) = End(buf)
          BY <1>7, <2>1, JoinEnds
    <3>2. End(pre) \in Nat \ {0} /\ Len(e) \in Nat /\ Len(rest) \in Nat
          BY <2>1, ByteAt DEF End
    <3> HIDE DEF f
    <3> QED
        BY <2>3, <2>4, <3>1, <3>2
  <2>8. End(pre) \in 1..Len(buf) /\ End(pre) # End(buf) /\ End(pre) \in 1..End(buf)
    <3>1. CASE End(pre) = End(buf)
      <4>1. Len(buf) \in Nat /\ DOMAIN buf = 1..Len(buf) /\ End(buf) = Len(buf) + 1
            BY <2>2, ByteAt DEF End
      <4>2. End(buf) \notin DOMAIN buf /\ End(buf) \in 1..End(buf)
            BY <4>1
      <4>3. Varints(buf)[End(pre)] = Cut
        <5>1. Varints(buf)[End(buf)] = Cut
          <6> HIDE DEF f, Claim, Begins, From, P
          <6> QED
              BY <2>2, <4>2, VarintsAre
        <5> QED
            BY <3>1, <5>1
      <4>4. ReadVarint(buf, End(pre)) = Cut
            BY <4>3 DEF ReadVarint
      <4>5. f.is = "cut"
            BY <4>4 DEF Field
      <4> QED
          BY <2>5, <4>5
    <3>2. CASE End(pre) # End(buf)
          BY <2>2, <2>7, <3>2, ByteAt DEF End
    <3> QED
        BY <3>1, <3>2
  <2>9. NextAt(buf, End(pre)) = f.next /\ f \in FieldRec
        BY <2>2, <2>5, <2>7, <2>8, NextIs, FieldIs
  <2>10. ASSUME From(buf, k) # Failed PROVE \E h : Begins(buf, k, h)
    <3> DEFINE rest1 == From(buf, k)
    <3>1. FieldsFrom(buf)[End(pre)] = <<f>> \o rest1
      <4>1. FieldsFrom(buf)[NextAt(buf, End(pre))] = rest1
            BY <2>4, <2>9
      <4> HIDE DEF rest1
      <4> QED
          BY <2>2, <2>5, <2>8, <2>10, <4>1, FieldsFromIs DEF f, rest1
    <3>2. rest1 \in Seq(FieldRec)
      <4>1. End(g[k]) \in 1..End(buf)
        <5>1. f.next > End(pre)
              BY <2>2, <2>5, <2>8, FieldIs
        <5> HIDE DEF f
        <5> QED
            BY <2>4, <2>7, <5>1
      <4> QED
          BY <2>2, <2>10, <4>1, FieldsAre
    <3> HIDE DEF rest1
    <3>3. FieldsFrom(buf)[End(pre)] # Failed
      <4>1. (<<f>> \o rest1)[1] = f
            BY <2>9, <3>2
      <4>2. Failed[1].is = "cut"
            BY DEF Failed
      <4> QED
          BY <2>5, <3>1, <4>1, <4>2
    <3>4. PICK q : Begins(buf, k - 1, q)
          BY <1>7, <2>6, <3>3 DEF pre
    <3> DEFINE h == q \o <<f>>
    <3>5. /\ h \in Seq(FieldRec) /\ Len(h) = k
          /\ \A j \in 1..k : h[j] = IF j < k THEN q[j] ELSE f
      <4>1. q \in Seq(FieldRec) /\ Len(q) = k - 1 /\ k \in Nat
            BY <1>1, <3>4
      <4>2. <<f>> \in Seq(FieldRec) /\ Len(<<f>>) = 1 /\ <<f>>[1] = f
            BY <2>9
      <4> HIDE DEF f, Begins
      <4>3. /\ h \in Seq(FieldRec) /\ Len(h) = Len(q) + Len(<<f>>)
            /\ \A j \in 1..Len(q) + Len(<<f>>) :
                  h[j] = IF j <= Len(q) THEN q[j] ELSE <<f>>[j - Len(q)]
            BY <4>1, <4>2, ConcatProperties
      <4> HIDE DEF h
      <4>4. (k - 1) + 1 = k /\ \A j \in 1..k : j <= k - 1 <=> j < k
            BY <4>1
      <4>5. \A j \in 1..k : ~(j < k) => j - (k - 1) = 1
            BY <4>1
      <4> QED
          BY <4>1, <4>2, <4>3, <4>4, <4>5
    <3>6. FieldsFrom(buf)[1] = h \o rest1
      <4>1. FieldsFrom(buf)[1] = q \o (<<f>> \o rest1) /\ q \in Seq(FieldRec)
            BY <3>1, <3>4 DEF pre
      <4>2. <<f>> \in Seq(FieldRec)
            BY <2>9
      <4>3. (q \o <<f>>) \o rest1 = q \o (<<f>> \o rest1)
        <5> HIDE DEF f, Begins
        <5> QED
            BY <3>2, <4>1, <4>2, ConcatAssociative
      <4> QED
          BY <4>1, <4>3
    <3>7. \A j \in 1..k : ReadAs(sent[j], h[j])
      <4> SUFFICES ASSUME NEW j \in 1..k PROVE ReadAs(sent[j], h[j])
          OBVIOUS
      <4>1. CASE j < k
        <5>1. j \in 1..k - 1
              BY <1>1, <4>1
        <5> HIDE DEF h
        <5> QED
            BY <3>4, <3>5, <4>1, <5>1
      <4>2. CASE ~(j < k)
        <5>1. j = k
              BY <1>1, <4>2
        <5> HIDE DEF h
        <5> QED
            BY <2>3, <3>5, <4>2, <5>1
      <4> QED
          BY <4>1, <4>2
    <3> HIDE DEF h
    <3> QED
        BY <3>5, <3>6, <3>7 DEF rest1
  <2>11. ASSUME ValidFrom(buf)[End(g[k])] PROVE ValidFrom(buf)[1]
    <3>1. ValidFrom(buf)[End(pre)]
      <4>1. /\ f.is \notin {"cut", "group"} /\ f.next <= End(buf)
            /\ ValidFrom(buf)[f.next]
            BY <2>4, <2>5, <2>7, <2>11
      <4> QED
          BY <2>2, <2>8, <4>1, ValidFromIs
    <3> QED
        BY <1>7, <2>6, <3>1 DEF pre
  <2> QED
      BY <2>10, <2>11
<1>8. ASSUME NEW k \in Nat, \A m \in Nat : m < k => m \in P PROVE k \in P
  <2> SUFFICES ASSUME k <= n PROVE Claim(k)
      OBVIOUS
  <2>1. CASE k = 0
    <3> HIDE DEF Claim
    <3> QED
        BY <1>6, <2>1
  <2>2. CASE k # 0
    <3>1. k - 1 \in Nat /\ k - 1 < k /\ k - 1 <= n /\ k \in 1..n
          BY <1>1, <2>2
    <3>2. Claim(k - 1)
      <4> HIDE DEF Claim
      <4> QED
          BY <1>8, <3>1
    <3> HIDE DEF Begins, From
    <3> QED
        BY <1>7, <3>1, <3>2
  <2> QED
      BY <2>1, <2>2
<1>9. Claim(n)
  <2>1. Nat \subseteq P
    <3> HIDE DEF P
    <3> QED
        BY <1>8, NatInductionIn
  <2> HIDE DEF Claim
  <2>2. n \in P /\ n <= n
    <3> HIDE DEF P
    <3> QED
        BY <1>1, <2>1
  <2> QED
      BY <2>2
<1> DEFINE buf == g[n]
<1>10. /\ <<>> \in Buffers /\ buf \in Buffers /\ Join(buf, <<>>) = buf
  <2>1. <<>> \in Buffers /\ n \in 0..n
        BY <1>1 DEF Buffers
  <2>2. buf \in Buffers
        BY <1>4, <2>1
  <2> HIDE DEF buf
  <2> QED
      BY <2>1, <2>2, ConcatEmptySeq DEF Join, Buffers
<1>11. /\ From(buf, n) # Failed => \E h : Begins(buf, n, h)
       /\ ValidFrom(buf)[End(buf)] => ValidFrom(buf)[1]
  <2> HIDE DEF From, Begins
  <2> QED
      BY <1>9, <1>10
<1>12. End(buf) \in 1..End(buf)
      BY <1>10, ByteAt DEF End
<1>13. FieldsFrom(buf)[End(buf)] = <<>> /\ ValidFrom(buf)[End(buf)]
      BY <1>10, <1>12, FieldsFromIs, ValidFromIs
<1>14. PICK h : Begins(buf, n, h)
  <2>1. <<>> # Failed
        BY DEF Failed
  <2> HIDE DEF Begins
  <2> QED
      BY <1>11, <1>13, <2>1
<1>15. Fields(buf) = h
  <2>1. h \o <<>> = h
        BY <1>14, ConcatEmptySeq
  <2> QED
      BY <1>13, <1>14, <2>1 DEF Fields
<1>16. sent # <<>> => ValidMessage(buf)
  <2> SUFFICES ASSUME buf = <<>>, sent # <<>> PROVE FALSE
      BY <1>11, <1>13 DEF ValidMessage
  <2>1. Fields(buf) = <<>>
    <3>1. End(buf) = 1
          BY DEF End
    <3> QED
        BY <1>13, <3>1 DEF Fields
  <2>2. n = 0
        BY <1>14, <1>15, <2>1
  <2> QED
      BY <2>2, EmptySeq DEF n
<1> HIDE DEF buf
<1> QED
    BY <1>5, <1>14, <1>15, <1>16 DEF n, buf
=============================================================================
