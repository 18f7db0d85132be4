--------------------------- MODULE FrontierProofs ---------------------------
(***************************************************************************)
(* TLAPS proofs about Frontier, for buffers, contents and numbers of any   *)
(* size: which messages encode_tree writes as decode_tree read them, and   *)
(* that a message arrives by frame, backlog and history page with the text *)
(* it spells.                                                              *)
(***************************************************************************)
EXTENDS Frontier, CodecProofs

-----------------------------------------------------------------------------
(* Sequences in a row.                                                     *)

\* A sequence without its last element.
Shorter(s) == [i \in 1..Len(s) - 1 |-> s[i]]

\* The elements of a sequence, by their place.
LEMMA SeqIs ==
    ASSUME NEW S, NEW s, s \in Seq(S)
    PROVE  /\ Len(s) \in Nat /\ DOMAIN s = 1..Len(s)
           /\ \A i \in 1..Len(s) : s[i] \in S
BY ElementOfSeq, LenProperties

\* What is defined for each place is a sequence.
LEMMA MadeSeq ==
    ASSUME NEW S, NEW n \in Nat, NEW s, s \in [1..n -> S]
    PROVE  s \in Seq(S) /\ Len(s) = n /\ DOMAIN s = 1..n
BY IsASeq, LenProperties

\* A shorter one is a sequence, too.
LEMMA ShorterIs ==
    ASSUME NEW S, NEW s, s \in Seq(S), s # <<>>
    PROVE  /\ Len(s) \in Nat \ {0}
           /\ Shorter(s) \in Seq(S) /\ Len(Shorter(s)) = Len(s) - 1
           /\ \A i \in 1..Len(s) - 1 : Shorter(s)[i] = s[i]
<1>1. Len(s) \in Nat /\ Len(s) # 0 /\ \A i \in 1..Len(s) : s[i] \in S
      BY SeqIs, EmptySeq
<1>2. Len(s) - 1 \in Nat /\ \A i \in 1..Len(s) - 1 : i \in 1..Len(s)
      BY <1>1
<1>3. Shorter(s) \in [1..Len(s) - 1 -> S]
      BY <1>1, <1>2 DEF Shorter
<1>4. Shorter(s) \in Seq(S) /\ Len(Shorter(s)) = Len(s) - 1
      BY <1>2, <1>3, MadeSeq
<1> QED
    BY <1>1, <1>4 DEF Shorter

\* The same, of a known length.
LEMMA ShorterHas ==
    ASSUME NEW S, NEW s, s \in Seq(S), NEW n \in Nat, Len(s) = n, n # 0
    PROVE  /\ s # <<>> /\ Shorter(s) \in Seq(S) /\ Len(Shorter(s)) = n - 1
           /\ \A i \in 1..n - 1 : Shorter(s)[i] = s[i]
<1>1. s # <<>>
      BY EmptySeq
<1>2. /\ Shorter(s) \in Seq(S) /\ Len(Shorter(s)) = Len(s) - 1
      /\ \A i \in 1..Len(s) - 1 : Shorter(s)[i] = s[i]
      BY <1>1, ShorterIs
<1> QED
    BY <1>1, <1>2

\* Nothing in a row is nothing.
LEMMA FlattenNone == FlattenSeq(<<>>) = <<>>
BY DEF FlattenSeq

\* The last sequence comes behind those before it.
LEMMA FlattenStep ==
    ASSUME NEW S, NEW s, s \in Seq(Seq(S)), s # <<>>
    PROVE  /\ FlattenSeq(s) \in Seq(S)
           /\ FlattenSeq(s) = FlattenSeq(Shorter(s)) \o s[Len(s)]
<1> DEFINE n == Len(s)
           t == Shorter(s)
<1>1. /\ n \in Nat \ {0} /\ t \in Seq(Seq(S)) /\ Len(t) = n - 1
      /\ \A i \in 1..n - 1 : t[i] = s[i]
      BY ShorterIs
<1> HIDE DEF n, t
<1>2. PICK g : /\ g[0] = <<>>
               /\ \A k \in 1..n : g[k] = Join(g[k - 1], s[k])
               /\ \A k \in 0..n : g[k] \in Seq(S)
               /\ FlattenSeq(s) = g[n]
      BY FlattenIs DEF n
<1>3. PICK h : /\ h[0] = <<>>
               /\ \A k \in 1..n - 1 : h[k] = Join(h[k - 1], t[k])
               /\ FlattenSeq(t) = h[n - 1]
  <2>1. \E h : /\ h[0] = <<>>
               /\ \A k \in 1..Len(t) : h[k] = Join(h[k - 1], t[k])
               /\ \A k \in 0..Len(t) : h[k] \in Seq(S)
               /\ FlattenSeq(t) = h[Len(t)]
        BY <1>1, FlattenIs
  <2> QED
      BY <1>1, <2>1
<1> DEFINE P == {k \in Nat : k <= n - 1 => h[k] = g[k]}
<1>4. ASSUME NEW k \in Nat, \A m \in Nat : m < k => m \in P PROVE k \in P
  <2> SUFFICES ASSUME k <= n - 1 PROVE h[k] = g[k]
      OBVIOUS
  <2>1. CASE k = 0
        BY <1>2, <1>3, <2>1
  <2>2. CASE k # 0
    <3>1. k - 1 \in Nat /\ k - 1 < k /\ k - 1 <= n - 1 /\ k \in 1..n - 1 /\ k \in 1..n
          BY <1>1, <2>2
    <3>2. h[k - 1] = g[k - 1]
          BY <1>4, <3>1
    <3> QED
        BY <1>1, <1>2, <1>3, <3>1, <3>2
  <2> QED
      BY <2>1, <2>2
<1>5. Nat \subseteq P
  <2> HIDE DEF P
  <2> QED
      BY <1>4, NatInductionIn
<1>6. h[n - 1] = g[n - 1]
      BY <1>1, <1>5
<1>7. n \in 1..n /\ n \in 0..n
      BY <1>1
<1> QED
    BY <1>2, <1>3, <1>6, <1>7 DEF n, t, Join

\* What is put in a row is of the same elements.
LEMMA FlattenAre ==
    ASSUME NEW S, NEW s, s \in Seq(Seq(S)) PROVE FlattenSeq(s) \in Seq(S)
<1>1. CASE s = <<>>
  <2>1. FlattenSeq(s) = <<>>
        BY <1>1, FlattenNone, Zenon
  <2> QED
      BY <2>1
<1>2. CASE s # <<>>
      BY <1>2, FlattenStep
<1> QED
    BY <1>1, <1>2

\* One sequence in a row is that one.
LEMMA FlattenOne ==
    ASSUME NEW S, NEW x, x \in Seq(S)
    PROVE  FlattenSeq(<<x>>) = x
<1>1. <<x>> \in Seq(Seq(S)) /\ <<x>> # <<>> /\ Len(<<x>>) = 1 /\ <<x>>[1] = x
      BY SeqIs
<1>2. Shorter(<<x>>) = <<>>
  <2> DEFINE s == <<x>>
             n == Len(s) - 1
  <2>1. s \in Seq(Seq(S)) /\ s # <<>> /\ n = 0
        BY <1>1
  <2> HIDE DEF s
  <2>2. Shorter(s) \in Seq(Seq(S)) /\ Len(Shorter(s)) = n
        BY <2>1, ShorterIs
  <2> QED
      BY <2>1, <2>2, EmptySeq DEF s
<1>3. FlattenSeq(<<x>>) = <<>> \o x
      BY <1>1, <1>2, FlattenStep, FlattenNone
<1> QED
    BY <1>3, ConcatEmptySeq

\* A sequence with one more at its end, without it.
LEMMA ShorterAppend ==
    ASSUME NEW S, NEW s, s \in Seq(S), NEW x \in S
    PROVE  /\ Append(s, x) \in Seq(S) /\ Append(s, x) # <<>>
           /\ Len(Append(s, x)) = Len(s) + 1 /\ Append(s, x)[Len(s) + 1] = x
           /\ \A i \in 1..Len(s) : Append(s, x)[i] = s[i]
           /\ Shorter(Append(s, x)) = s
<1> DEFINE a == Append(s, x)
<1>1. /\ a \in Seq(S) /\ Len(a) = Len(s) + 1 /\ a[Len(s) + 1] = x
      /\ \A i \in 1..Len(s) : a[i] = s[i]
      BY AppendProperties
<1>2. Len(s) \in Nat
      BY SeqIs
<1> HIDE DEF a
<1>3. a # <<>>
      BY <1>1, <1>2, EmptySeq
<1>4. /\ Shorter(a) \in Seq(S) /\ Len(Shorter(a)) = Len(s)
      /\ \A i \in 1..Len(s) : Shorter(a)[i] = s[i]
  <2>1. /\ Shorter(a) \in Seq(S) /\ Len(Shorter(a)) = Len(a) - 1
        /\ \A i \in 1..Len(a) - 1 : Shorter(a)[i] = a[i]
        BY <1>1, <1>3, ShorterIs
  <2>2. Len(a) - 1 = Len(s)
        BY <1>1, <1>2
  <2> QED
      BY <1>1, <2>1, <2>2
<1>5. Shorter(a) = s
      BY <1>4, SeqEqual
<1> QED
    BY <1>1, <1>3, <1>5 DEF a

-----------------------------------------------------------------------------
(* The values of a tree in their order.                                    *)

\* The values of each number of a tree.
Rows(tree) == [g \in DOMAIN tree |-> tree[g].vals]

\* In their order they are the rows behind each other.
LEMMA RowsAre ==
    ASSUME NEW N, NEW S, NEW tree, tree \in Seq([num : N, vals : Seq(S)])
    PROVE  /\ Rows(tree) \in Seq(Seq(S)) /\ Len(Rows(tree)) = Len(tree)
           /\ \A g \in 1..Len(tree) : Rows(tree)[g] = tree[g].vals
           /\ InOrder(tree) = FlattenSeq(Rows(tree)) /\ InOrder(tree) \in Seq(S)
<1> DEFINE n == Len(tree)
           r == Rows(tree)
<1>1. n \in Nat /\ DOMAIN tree = 1..n /\ \A g \in 1..n : tree[g] \in [num : N, vals : Seq(S)]
      BY SeqIs
<1>2. \A g \in 1..n : tree[g].vals \in Seq(S)
      BY <1>1
<1>3. r \in [1..n -> Seq(S)]
      BY <1>1, <1>2 DEF Rows
<1> HIDE DEF n, r
<1>4. r \in Seq(Seq(S)) /\ Len(r) = n
      BY <1>1, <1>3, MadeSeq
<1>5. \A g \in 1..n : r[g] = tree[g].vals
      BY <1>1 DEF r, Rows
<1>6. InOrder(tree) = FlattenSeq(r)
      BY DEF InOrder, r, Rows
<1>7. FlattenSeq(r) \in Seq(S)
      BY <1>4, FlattenAre
<1> QED
    BY <1>4, <1>5, <1>6, <1>7 DEF n, r

\* The same of the groups of what decode_fields puts together.
LEMMA GroupRows ==
    ASSUME NEW S, NEW tree, tree \in Seq(Groups(S))
    PROVE  /\ Rows(tree) \in Seq(Seq(S)) /\ Len(Rows(tree)) = Len(tree)
           /\ \A g \in 1..Len(tree) : Rows(tree)[g] = tree[g].vals
           /\ InOrder(tree) = FlattenSeq(Rows(tree)) /\ InOrder(tree) \in Seq(S)
<1> DEFINE N == {v.num : v \in S}
<1>1. tree \in Seq([num : N, vals : Seq(S)])
      BY DEF Groups
<1> HIDE DEF N
<1> QED
    BY <1>1, RowsAre

\* Each number once, with its own values.
Tidy(tree) ==
    /\ \A g, h \in DOMAIN tree : tree[g].num = tree[h].num => g = h
    /\ \A g \in DOMAIN tree : \A j \in DOMAIN tree[g].vals : tree[g].vals[j].num = tree[g].num

\* The place of a number in a tree.
LEMMA PutWhere ==
    ASSUME NEW S, NEW tree, tree \in Seq(Groups(S)), NEW v \in S, NEW n, n = Len(tree)
    PROVE  /\ n \in Nat /\ DOMAIN tree = 1..n
           /\ Has(tree, v.num) =>
                /\ DOMAIN Put(tree, v) = 1..n /\ Len(Put(tree, v)) = n
                /\ \A g \in 1..n : /\ Put(tree, v)[g].num = tree[g].num
                                   /\ Put(tree, v)[g].vals =
                                        IF tree[g].num = v.num THEN Append(tree[g].vals, v)
                                        ELSE tree[g].vals
           /\ ~Has(tree, v.num) =>
                /\ DOMAIN Put(tree, v) = 1..n + 1 /\ Len(Put(tree, v)) = n + 1
                /\ \A g \in 1..n : Put(tree, v)[g] = tree[g] /\ tree[g].num # v.num
                /\ Put(tree, v)[n + 1].num = v.num /\ Put(tree, v)[n + 1].vals = <<v>>
<1> DEFINE new == [num |-> v.num, vals |-> <<v>>]
           p == Put(tree, v)
<1>1. n \in Nat /\ DOMAIN tree = 1..n
      BY SeqIs
<1>2. p \in Seq(Groups(S))
      BY PutIs
<1>3. CASE Has(tree, v.num)
  <2>1. p = [g \in 1..n |-> IF tree[g].num = v.num
                              THEN [num |-> v.num, vals |-> Append(tree[g].vals, v)]
                              ELSE tree[g]]
        BY <1>1, <1>3 DEF Put
  <2> HIDE DEF p
  <2>2. DOMAIN p = 1..n /\ Len(p) = n
        BY <1>1, <1>2, <2>1, SeqIs
  <2>3. \A g \in 1..n : /\ p[g].num = tree[g].num
                        /\ p[g].vals = IF tree[g].num = v.num THEN Append(tree[g].vals, v)
                                       ELSE tree[g].vals
        BY <2>1
  <2> QED
      BY <1>1, <1>3, <2>2, <2>3 DEF p
<1>4. CASE ~Has(tree, v.num)
  <2>1. p = Append(tree, new)
        BY <1>4 DEF Put
  <2>2. new \in Groups(S)
        BY DEF Groups
  <2>3. new.num = v.num /\ new.vals = <<v>>
        OBVIOUS
  <2> HIDE DEF p, new
  <2>4. Len(p) = n + 1 /\ p[n + 1] = new /\ \A g \in 1..n : p[g] = tree[g]
        BY <2>1, <2>2, ShorterAppend
  <2>5. DOMAIN p = 1..n + 1
        BY <1>2, <2>4, SeqIs
  <2>6. \A g \in 1..n : tree[g].num # v.num
        BY <1>1, <1>4 DEF Has
  <2> QED
      BY <1>1, <1>4, <2>3, <2>4, <2>5, <2>6 DEF p
<1> QED
    BY <1>3, <1>4

\* A value put into a tidy tree leaves it tidy.
LEMMA PutTidy ==
    ASSUME NEW S, NEW tree, tree \in Seq(Groups(S)), NEW v \in S, Tidy(tree)
    PROVE  Tidy(Put(tree, v))
<1> DEFINE n == Len(tree)
           p == Put(tree, v)
<1>0. n = Len(tree)
      OBVIOUS
<1> HIDE DEF n
<1>1. n \in Nat /\ DOMAIN tree = 1..n
      BY <1>0, PutWhere
<1>2. CASE Has(tree, v.num)
  <2>1. /\ DOMAIN p = 1..n
        /\ \A g \in 1..n : /\ p[g].num = tree[g].num
                           /\ p[g].vals = IF tree[g].num = v.num THEN Append(tree[g].vals, v)
                                          ELSE tree[g].vals
        BY <1>0, <1>2, PutWhere
  <2> HIDE DEF p
  <2>2. \A g, h \in DOMAIN p : p[g].num = p[h].num => g = h
        BY <1>1, <2>1 DEF Tidy
  <2>3. ASSUME NEW g \in 1..n, NEW j \in DOMAIN p[g].vals
        PROVE  p[g].vals[j].num = p[g].num
    <3> DEFINE vals == tree[g].vals
    <3>1. vals \in Seq(S)
      <4>1. tree[g] \in Groups(S)
            BY <1>0, SeqIs
      <4> QED
          BY <4>1 DEF Groups
    <3>2. \A i \in DOMAIN vals : vals[i].num = tree[g].num
          BY <1>1 DEF Tidy
    <3> HIDE DEF vals
    <3>3. CASE tree[g].num = v.num
      <4>1. p[g].vals = Append(vals, v) /\ p[g].num = v.num
            BY <2>1, <3>3 DEF vals
      <4>2. /\ Append(vals, v) \in Seq(S) /\ Len(Append(vals, v)) = Len(vals) + 1
            /\ Append(vals, v)[Len(vals) + 1] = v
            /\ \A i \in 1..Len(vals) : Append(vals, v)[i] = vals[i]
            BY <3>1, ShorterAppend
      <4>3. Len(vals) \in Nat /\ DOMAIN vals = 1..Len(vals)
            BY <3>1, SeqIs
      <4>4. j \in 1..Len(vals) + 1
            BY <2>3, <4>1, <4>2, SeqIs
      <4>5. j \in 1..Len(vals) \/ j = Len(vals) + 1
            BY <4>3, <4>4
      <4> QED
          BY <3>2, <3>3, <4>1, <4>2, <4>3, <4>5
    <3>4. CASE tree[g].num # v.num
          BY <2>1, <2>3, <3>2, <3>4 DEF vals
    <3> QED
        BY <3>3, <3>4
  <2> QED
      BY <2>1, <2>2, <2>3 DEF Tidy, p
<1>3. CASE ~Has(tree, v.num)
  <2>1. /\ DOMAIN p = 1..n + 1
        /\ \A g \in 1..n : p[g] = tree[g] /\ tree[g].num # v.num
        /\ p[n + 1].num = v.num /\ p[n + 1].vals = <<v>>
        BY <1>0, <1>3, PutWhere
  <2> HIDE DEF p
  <2>2. \A g \in 1..n + 1 : g \in 1..n \/ g = n + 1
        BY <1>1
  <2>3. ASSUME NEW g \in 1..n + 1, NEW h \in 1..n + 1, p[g].num = p[h].num
        PROVE  g = h
        BY <1>1, <2>1, <2>2, <2>3 DEF Tidy
  <2>4. ASSUME NEW g \in 1..n + 1, NEW j \in DOMAIN p[g].vals
        PROVE  p[g].vals[j].num = p[g].num
    <3>1. CASE g = n + 1
      <4>1. j = 1 /\ <<v>>[1] = v
            BY <2>1, <2>4, <3>1
      <4> QED
          BY <2>1, <3>1, <4>1
    <3>2. CASE g # n + 1
          BY <1>1, <2>1, <2>2, <2>4, <3>2 DEF Tidy
    <3> QED
        BY <3>1, <3>2
  <2> QED
      BY <2>1, <2>3, <2>4 DEF Tidy, p
<1> QED
    BY <1>2, <1>3

\* Where its number is the last of the tree, or a new one, a value comes behind all
\* others.
LEMMA PutBehind ==
    ASSUME NEW S, NEW tree, tree \in Seq(Groups(S)), NEW v \in S, Tidy(tree),
           Has(tree, v.num) => tree[Len(tree)].num = v.num
    PROVE  /\ InOrder(Put(tree, v)) = Append(InOrder(tree), v)
           /\ Put(tree, v)[Len(Put(tree, v))].num = v.num
<1> DEFINE n == Len(tree)
           p == Put(tree, v)
           r == Rows(tree)
           q == Rows(p)
<1>0. n = Len(tree)
      OBVIOUS
<1>1. /\ r \in Seq(Seq(S)) /\ Len(r) = n /\ \A g \in 1..n : r[g] = tree[g].vals
      /\ InOrder(tree) = FlattenSeq(r) /\ InOrder(tree) \in Seq(S)
      BY GroupRows
<1>2. p \in Seq(Groups(S))
      BY PutIs
<1>3. /\ q \in Seq(Seq(S)) /\ Len(q) = Len(p) /\ \A g \in 1..Len(p) : q[g] = p[g].vals
      /\ InOrder(p) = FlattenSeq(q)
  <2> HIDE DEF p
  <2> QED
      BY <1>2, GroupRows
<1> HIDE DEF n, p, r, q
<1>4. n \in Nat /\ DOMAIN tree = 1..n
      BY <1>0, PutWhere
<1>5. CASE Has(tree, v.num)
  <2>1. /\ Len(p) = n
        /\ \A g \in 1..n : /\ p[g].num = tree[g].num
                           /\ p[g].vals = IF tree[g].num = v.num THEN Append(tree[g].vals, v)
                                          ELSE tree[g].vals
    <3>1. Put(tree, v) = p
          BY DEF p
    <3> QED
        BY <1>0, <1>5, <3>1, PutWhere
  <2>2. n # 0 /\ n \in 1..n /\ tree[n].num = v.num
        BY <1>0, <1>4, <1>5 DEF Has
  <2>3. \A g \in 1..n - 1 : tree[g].num # v.num
    <3> SUFFICES ASSUME NEW g \in 1..n - 1, tree[g].num = v.num PROVE FALSE
        OBVIOUS
    <3>1. g \in 1..n /\ g # n
          BY <1>4
    <3> QED
        BY <1>4, <2>2, <3>1 DEF Tidy
  <2>4. q # <<>> /\ r # <<>>
        BY <1>1, <1>3, <2>1, <2>2, EmptySeq
  <2>5. Shorter(q) = Shorter(r)
    <3>1. /\ Shorter(q) \in Seq(Seq(S)) /\ Len(Shorter(q)) = n - 1
          /\ \A g \in 1..n - 1 : Shorter(q)[g] = q[g]
          BY <1>3, <1>4, <2>1, <2>2, ShorterHas
    <3>2. /\ Shorter(r) \in Seq(Seq(S)) /\ Len(Shorter(r)) = n - 1
          /\ \A g \in 1..n - 1 : Shorter(r)[g] = r[g]
          BY <1>1, <1>4, <2>2, ShorterHas
    <3>3. \A g \in 1..n - 1 : g \in 1..n
          BY <1>4
    <3>4. \A g \in 1..n - 1 : q[g] = r[g]
          BY <1>1, <1>3, <2>1, <2>3, <3>3
    <3>5. \A g \in 1..n - 1 : Shorter(q)[g] = Shorter(r)[g]
          BY <3>1, <3>2, <3>4
    <3> QED
        BY <3>1, <3>2, <3>5, SeqEqual
  <2>6. q[n] = Append(r[n], v) /\ r[n] \in Seq(S)
        BY <1>1, <1>3, <2>1, <2>2, SeqIs
  <2>7. /\ FlattenSeq(q) = FlattenSeq(Shorter(r)) \o Append(r[n], v)
        /\ FlattenSeq(r) = FlattenSeq(Shorter(r)) \o r[n]
    <3>1. FlattenSeq(q) = FlattenSeq(Shorter(q)) \o q[Len(q)]
          BY <1>3, <2>4, FlattenStep
    <3>2. FlattenSeq(r) = FlattenSeq(Shorter(r)) \o r[Len(r)]
          BY <1>1, <2>4, FlattenStep
    <3> QED
        BY <1>1, <1>3, <2>1, <2>5, <2>6, <3>1, <3>2
  <2>8. FlattenSeq(Shorter(r)) \in Seq(S)
    <3>1. Shorter(r) \in Seq(Seq(S))
          BY <1>1, <2>4, ShorterIs
    <3> QED
        BY <3>1, FlattenAre
  <2>9. \A a, b \in Seq(S) : a \o Append(b, v) = Append(a \o b, v)
        OBVIOUS
  <2>10. FlattenSeq(q) = Append(FlattenSeq(r), v)
        BY <2>6, <2>7, <2>8, <2>9
  <2> QED
      BY <1>1, <1>3, <2>1, <2>2, <2>10 DEF p
<1>6. CASE ~Has(tree, v.num)
  <2>1. /\ Len(p) = n + 1 /\ \A g \in 1..n : p[g] = tree[g]
        /\ p[n + 1].num = v.num /\ p[n + 1].vals = <<v>>
        BY <1>0, <1>6, PutWhere DEF p
  <2>2. \A g \in 1..n : g \in 1..n + 1
        BY <1>4
  <2>3. n + 1 \in 1..n + 1 /\ n + 1 # 0 /\ (n + 1) - 1 = n
        BY <1>4
  <2>4. \A g \in 1..n : q[g] = r[g]
        BY <1>1, <1>3, <2>1, <2>2
  <2>5. q[n + 1] = <<v>> /\ q # <<>>
        BY <1>3, <2>1, <2>3, EmptySeq
  <2>6. Shorter(q) = r
    <3>1. /\ Shorter(q) \in Seq(Seq(S)) /\ Len(Shorter(q)) = n
          /\ \A g \in 1..n : Shorter(q)[g] = q[g]
      <4>1. n + 1 \in Nat /\ Len(q) = n + 1
            BY <1>3, <1>4, <2>1
      <4>2. /\ Shorter(q) \in Seq(Seq(S)) /\ Len(Shorter(q)) = (n + 1) - 1
            /\ \A g \in 1..(n + 1) - 1 : Shorter(q)[g] = q[g]
            BY <1>3, <2>3, <4>1, ShorterHas
      <4> QED
          BY <2>3, <4>2
    <3>2. \A g \in 1..n : Shorter(q)[g] = r[g]
          BY <2>4, <3>1
    <3> QED
        BY <1>1, <3>1, <3>2, SeqEqual
  <2>7. FlattenSeq(q) = FlattenSeq(r) \o <<v>>
        BY <1>3, <2>1, <2>5, <2>6, FlattenStep
  <2>8. \A a \in Seq(S) : a \o <<v>> = Append(a, v)
        OBVIOUS
  <2>9. FlattenSeq(q) = Append(FlattenSeq(r), v)
        BY <1>1, <2>7, <2>8
  <2> QED
      BY <1>1, <1>3, <2>1, <2>9 DEF p
<1> QED
    BY <1>5, <1>6

\* What is put together by number is tidy; and where the values of each number are
\* in a row, they stay in their order.
LEMMA GroupedIsTidy ==
    ASSUME NEW S, NEW values, values \in Seq(S)
    PROVE  /\ Tidy(Grouped(values))
           /\ InRows(values) => InOrder(Grouped(values)) = values
<1>1. PICK t : /\ t[0] = <<>>
               /\ \A i \in 1..Len(values) : t[i] = Put(t[i - 1], values[i])
               /\ Grouped(values) = t[Len(values)]
      BY GroupedIs
<1> DEFINE n == Len(values)
           Until(i) == [j \in 1..i |-> values[j]]
           Claim(i) == /\ t[i] \in Seq(Groups(S)) /\ Tidy(t[i])
                       /\ \A num : Has(t[i], num) <=> \E j \in 1..i : values[j].num = num
                       /\ i # 0 /\ InRows(values) => t[i][Len(t[i])].num = values[i].num
                       /\ InRows(values) => InOrder(t[i]) = Until(i)
           P == {i \in Nat : i <= n => Claim(i)}
<1>2. n \in Nat /\ DOMAIN values = 1..n /\ \A i \in 1..n : values[i] \in S
      BY SeqIs
<1>3. \A i \in 0..n : Until(i) \in Seq(S) /\ Len(Until(i)) = i
  <2> SUFFICES ASSUME NEW i \in 0..n PROVE Until(i) \in Seq(S) /\ Len(Until(i)) = i
      OBVIOUS
  <2>1. i \in Nat /\ \A j \in 1..i : values[j] \in S
        BY <1>2
  <2>2. Until(i) \in [1..i -> S]
        BY <2>1
  <2> HIDE DEF Until
  <2> QED
      BY <2>1, <2>2, MadeSeq
<1>4. Claim(0)
  <2>1. <<>> \in Seq(Groups(S)) /\ Tidy(<<>>) /\ \A num : ~Has(<<>>, num)
        BY DEF Has, Tidy
  <2>2. \A num : ~\E j \in 1..0 : values[j].num = num
        OBVIOUS
  <2>3. InOrder(<<>>) = <<>>
    <3>1. Rows(<<>>) = <<>>
          BY DEF Rows
    <3>2. InOrder(<<>>) = FlattenSeq(Rows(<<>>))
          BY DEF InOrder, Rows
    <3> QED
        BY <3>1, <3>2, FlattenNone
  <2>4. Until(0) = <<>>
    <3>1. 0 \in 0..n
          BY <1>2
    <3>2. Until(0) \in Seq(S) /\ Len(Until(0)) = 0
          BY <1>3, <3>1
    <3> QED
        BY <3>2, EmptySeq
  <2> HIDE DEF Until
  <2> QED
      BY <1>1, <2>1, <2>2, <2>3, <2>4
<1>5. ASSUME NEW i \in 1..n, Claim(i - 1) PROVE Claim(i)
  <2> DEFINE a == t[i - 1]
             v == values[i]
             b == Put(a, v)
  <2>1. /\ i \in Nat /\ i # 0 /\ i - 1 \in Nat /\ i - 1 \in 0..n /\ i \in 0..n
        /\ v \in S /\ t[i] = b
        BY <1>1, <1>2
  <2>2. /\ a \in Seq(Groups(S)) /\ Tidy(a)
        /\ \A num : Has(a, num) <=> \E j \in 1..i - 1 : values[j].num = num
        /\ i - 1 # 0 /\ InRows(values) => a[Len(a)].num = values[i - 1].num
        /\ InRows(values) => InOrder(a) = Until(i - 1)
        BY <1>5
  <2> HIDE DEF a, v, b
  <2>3. /\ b \in Seq(Groups(S)) /\ Tidy(b)
        /\ \A num : Has(b, num) <=> Has(a, num) \/ num = v.num
    <3>1. /\ Put(a, v) \in Seq(Groups(S)) /\ Tidy(Put(a, v))
          /\ \A num : Has(Put(a, v), num) <=> Has(a, num) \/ num = v.num
          BY <2>1, <2>2, PutIs, PutTidy
    <3> QED
        BY <3>1 DEF b
  <2>4. \A num : Has(b, num) <=> \E j \in 1..i : values[j].num = num
    <3>1. \A j : j \in 1..i <=> j \in 1..i - 1 \/ j = i
          BY <2>1
    <3>2. \A num : (\E j \in 1..i : values[j].num = num)
                    <=> (\E j \in 1..i - 1 : values[j].num = num) \/ num = v.num
          BY <3>1, ZenonT(30) DEF v
    <3> QED
        BY <2>2, <2>3, <3>2, ZenonT(30)
  <2>5. ASSUME InRows(values)
        PROVE  b[Len(b)].num = v.num /\ InOrder(b) = Until(i)
    <3>1. Has(a, v.num) => a[Len(a)].num = v.num
      <4> SUFFICES ASSUME Has(a, v.num) PROVE a[Len(a)].num = v.num
          OBVIOUS
      <4>1. PICK j \in 1..i - 1 : values[j].num = v.num
            BY <2>2
      <4>2. j \in DOMAIN values /\ i \in DOMAIN values /\ j < i /\ i - 1 # 0
            BY <1>2, <2>1
      <4>3. values[i - 1].num = v.num
            BY <2>5, <4>1, <4>2 DEF InRows, v
      <4> QED
          BY <2>2, <2>5, <4>2, <4>3
    <3>2. InOrder(b) = Append(InOrder(a), v) /\ b[Len(b)].num = v.num
      <4>1. /\ InOrder(Put(a, v)) = Append(InOrder(a), v)
            /\ Put(a, v)[Len(Put(a, v))].num = v.num
            BY <2>1, <2>2, <3>1, PutBehind
      <4> QED
          BY <4>1 DEF b
    <3> DEFINE u == Until(i - 1)
               w == Until(i)
    <3>3. /\ u \in Seq(S) /\ Len(u) = i - 1 /\ w \in Seq(S) /\ Len(w) = i
          BY <1>3, <2>1
    <3>4. \A j \in 1..i - 1 : u[j] = values[j] /\ w[j] = values[j]
          BY <2>1
    <3>5. w[i] = v
          BY <2>1 DEF v
    <3> HIDE DEF u, w
    <3>6. /\ Append(u, v) \in Seq(S) /\ Len(Append(u, v)) = Len(u) + 1
          /\ Append(u, v)[Len(u) + 1] = v
          /\ \A j \in 1..Len(u) : Append(u, v)[j] = u[j]
          BY <2>1, <3>3, ShorterAppend
    <3>7. Len(u) + 1 = i /\ \A j \in 1..i : j \in 1..i - 1 \/ j = i
          BY <2>1, <3>3
    <3>8. \A j \in 1..i : Append(u, v)[j] = w[j]
          BY <3>3, <3>4, <3>5, <3>6, <3>7
    <3>9. Append(u, v) = w
          BY <3>3, <3>6, <3>7, <3>8, SeqEqual
    <3> QED
        BY <2>2, <2>5, <3>2, <3>9 DEF u, w
  <2> HIDE DEF Until
  <2> QED
      BY <2>1, <2>3, <2>4, <2>5 DEF v
<1>6. ASSUME NEW i \in Nat, \A m \in Nat : m < i => m \in P PROVE i \in P
  <2> SUFFICES ASSUME i <= n PROVE Claim(i)
      OBVIOUS
  <2>1. CASE i = 0
    <3> HIDE DEF Claim
    <3> QED
        BY <1>4, <2>1
  <2>2. CASE i # 0
    <3>1. i - 1 \in Nat /\ i - 1 < i /\ i - 1 <= n /\ i \in 1..n
          BY <1>2, <2>2
    <3> HIDE DEF Claim
    <3> QED
        BY <1>5, <1>6, <3>1
  <2> QED
      BY <2>1, <2>2
<1>7. Nat \subseteq P
  <2> HIDE DEF P
  <2> QED
      BY <1>6, NatInductionIn
<1>8. Claim(n)
  <2> HIDE DEF Claim
  <2> QED
      BY <1>2, <1>7
<1>9. Until(n) = values
  <2>1. Until(n) \in Seq(S) /\ Len(Until(n)) = n
        BY <1>2, <1>3
  <2>2. \A j \in 1..n : Until(n)[j] = values[j]
        OBVIOUS
  <2> HIDE DEF Until
  <2> QED
      BY <2>1, <2>2, SeqEqual
<1> HIDE DEF Until
<1> QED
    BY <1>1, <1>8, <1>9

\* Two sequences behind each other, the second of one number only that the first has
\* not: the values of each number are still in a row.
LEMMA BehindInRows ==
    ASSUME NEW S, NEW a, a \in Seq(S), NEW b, b \in Seq(S), NEW num, InRows(a),
           \A i \in 1..Len(a) : a[i].num # num, \A i \in 1..Len(b) : b[i].num = num
    PROVE  InRows(a \o b)
<1> DEFINE c == a \o b
           m == Len(a)
<1>1. /\ m \in Nat /\ Len(b) \in Nat /\ DOMAIN a = 1..m
      /\ c \in Seq(S) /\ Len(c) = m + Len(b)
      /\ \A i \in 1..m + Len(b) : c[i] = IF i <= m THEN a[i] ELSE b[i - m]
      BY ConcatProperties, SeqIs
<1>2. DOMAIN c = 1..m + Len(b)
      BY <1>1, SeqIs
<1> HIDE DEF c, m
<1>3. \A i \in 1..m + Len(b) : i <= m => i \in 1..m /\ c[i] = a[i]
      BY <1>1
<1>4. \A i \in 1..m + Len(b) : ~(i <= m) => c[i].num = num
  <2> SUFFICES ASSUME NEW i \in 1..m + Len(b), ~(i <= m) PROVE c[i].num = num
      OBVIOUS
  <2>1. i - m \in 1..Len(b) /\ c[i] = b[i - m]
        BY <1>1
  <2> QED
      BY <2>1
<1>5. ASSUME NEW i \in DOMAIN c, NEW k \in DOMAIN c, i < k, c[i].num = c[k].num
      PROVE  c[k - 1].num = c[k].num
  <2>1. i \in 1..m + Len(b) /\ k \in 1..m + Len(b) /\ k - 1 \in 1..m + Len(b)
        BY <1>1, <1>2, <1>5
  <2>2. CASE k <= m
    <3>1. i <= m /\ k - 1 <= m
          BY <1>1, <1>5, <2>1, <2>2
    <3>2. i \in DOMAIN a /\ k \in DOMAIN a /\ a[i].num = a[k].num
          BY <1>1, <1>3, <1>5, <2>1, <2>2, <3>1
    <3>3. a[k - 1].num = a[k].num
          BY <1>5, <3>2 DEF InRows
    <3> QED
        BY <1>3, <2>1, <2>2, <3>1, <3>3
  <2>3. CASE ~(k <= m)
    <3>1. c[k].num = num
          BY <1>4, <2>1, <2>3
    <3>2. ~(i <= m)
          BY <1>3, <1>5, <2>1, <3>1 DEF m
    <3>3. ~(k - 1 <= m)
          BY <1>1, <1>5, <2>1, <3>2
    <3> QED
        BY <1>4, <2>1, <3>1, <3>3
  <2> QED
      BY <2>2, <2>3
<1> QED
    BY <1>5 DEF InRows, c

\* In a tidy tree the values of each number are in a row.
LEMMA TidyInRows ==
    ASSUME NEW S, NEW tree, tree \in Seq(Groups(S)), Tidy(tree)
    PROVE  InRows(InOrder(tree))
<1> DEFINE n == Len(tree)
           r == Rows(tree)
<1>1. /\ r \in Seq(Seq(S)) /\ Len(r) = n /\ \A g \in 1..n : r[g] = tree[g].vals
      /\ InOrder(tree) = FlattenSeq(r)
      BY GroupRows
<1>2. n \in Nat /\ DOMAIN tree = 1..n /\ \A g \in 1..n : r[g] \in Seq(S)
  <2> HIDE DEF r
  <2> QED
      BY <1>1, SeqIs
<1> HIDE DEF n, r
<1>3. PICK f : /\ f[0] = <<>>
               /\ \A k \in 1..n : f[k] = Join(f[k - 1], r[k])
               /\ \A k \in 0..n : f[k] \in Seq(S)
               /\ FlattenSeq(r) = f[n]
  <2>1. \E f : /\ f[0] = <<>>
               /\ \A k \in 1..Len(r) : f[k] = Join(f[k - 1], r[k])
               /\ \A k \in 0..Len(r) : f[k] \in Seq(S)
               /\ FlattenSeq(r) = f[Len(r)]
        BY <1>1, FlattenIs
  <2> QED
      BY <1>1, <2>1
<1> DEFINE Claim(k) == /\ InRows(f[k])
                       /\ \A i \in 1..Len(f[k]) : \E g \in 1..k : f[k][i].num = tree[g].num
           P == {k \in Nat : k <= n => Claim(k)}
<1>4. Claim(0)
  <2>1. InRows(<<>>) /\ \A i \in 1..Len(<<>>) : FALSE
        BY DEF InRows
  <2> QED
      BY <1>3, <2>1
<1>5. ASSUME NEW k \in 1..n, Claim(k - 1) PROVE Claim(k)
  <2> DEFINE a == f[k - 1]
             b == r[k]
             num == tree[k].num
  <2>1. /\ k - 1 \in 0..n /\ k \in Nat /\ k - 1 \in Nat
        /\ a \in Seq(S) /\ b \in Seq(S) /\ f[k] = a \o b
    <3>1. k - 1 \in 0..n /\ k \in Nat /\ k - 1 \in Nat
          BY <1>2
    <3> QED
        BY <1>2, <1>3, <3>1 DEF Join
  <2>2. \A i \in 1..Len(b) : b[i].num = num
    <3>1. b = tree[k].vals /\ DOMAIN b = 1..Len(b)
          BY <1>1, <2>1, SeqIs
    <3> QED
        BY <1>2, <3>1 DEF Tidy
  <2>3. InRows(a) /\ \A i \in 1..Len(a) : \E g \in 1..k - 1 : a[i].num = tree[g].num
        BY <1>5
  <2>4. \A i \in 1..Len(a) : a[i].num # num
    <3> SUFFICES ASSUME NEW i \in 1..Len(a), a[i].num = num PROVE FALSE
        OBVIOUS
    <3>1. PICK g \in 1..k - 1 : a[i].num = tree[g].num
          BY <2>3
    <3>2. g \in DOMAIN tree /\ k \in DOMAIN tree /\ g # k
          BY <1>2, <2>1
    <3> QED
        BY <3>1, <3>2 DEF Tidy
  <2> HIDE DEF a, b
  <2>5. InRows(a \o b)
    <3> HIDE DEF num
    <3> QED
        BY <2>1, <2>2, <2>3, <2>4, BehindInRows
  <2>6. /\ Len(a) \in Nat /\ Len(a \o b) = Len(a) + Len(b) /\ Len(b) \in Nat
        /\ \A i \in 1..Len(a) + Len(b) : (a \o b)[i] = IF i <= Len(a) THEN a[i] ELSE b[i - Len(a)]
        BY <2>1, ConcatProperties, SeqIs
  <2>7. ASSUME NEW i \in 1..Len(a) + Len(b)
        PROVE  \E g \in 1..k : (a \o b)[i].num = tree[g].num
    <3>1. CASE i <= Len(a)
      <4>1. i \in 1..Len(a) /\ (a \o b)[i] = a[i]
            BY <2>6, <3>1
      <4>2. PICK g \in 1..k - 1 : a[i].num = tree[g].num
            BY <2>3, <4>1
      <4>3. g \in 1..k
            BY <2>1
      <4> QED
          BY <4>1, <4>2, <4>3
    <3>2. CASE ~(i <= Len(a))
      <4>1. i - Len(a) \in 1..Len(b) /\ (a \o b)[i] = b[i - Len(a)]
            BY <2>6, <3>2
      <4>2. (a \o b)[i].num = tree[k].num /\ k \in 1..k
            BY <2>1, <2>2, <4>1
      <4> QED
          BY <4>2
    <3> QED
        BY <3>1, <3>2
  <2> QED
      BY <2>1, <2>5, <2>6, <2>7
<1>6. ASSUME NEW k \in Nat, \A m \in Nat : m < k => m \in P PROVE k \in P
  <2> SUFFICES ASSUME k <= n PROVE Claim(k)
      OBVIOUS
  <2>1. CASE k = 0
    <3> HIDE DEF Claim
    <3> QED
        BY <1>4, <2>1
  <2>2. CASE k # 0
    <3>1. k - 1 \in Nat /\ k - 1 < k /\ k - 1 <= n /\ k \in 1..n
          BY <1>2, <2>2
    <3> HIDE DEF Claim
    <3> QED
        BY <1>5, <1>6, <3>1
  <2> QED
      BY <2>1, <2>2
<1>7. Nat \subseteq P
  <2> HIDE DEF P
  <2> QED
      BY <1>6, NatInductionIn
<1>8. Claim(n)
  <2> HIDE DEF Claim
  <2> QED
      BY <1>2, <1>7
<1> QED
    BY <1>1, <1>3, <1>8

-----------------------------------------------------------------------------
(* The functions of the depth.                                             *)

\* Values that are messages in which the given ones are.
Dicts(values) == [num : Nat, is : {"dict"}, int : Nat, bytes : Buffers, tree : TreesOf(values)]

\* The function of the values at each depth is one.
LEMMA ValuesToIs ==
    \A depth \in 0..MaxDepth :
        valuesTo[depth] = IF depth = 0 THEN Leaves ELSE Leaves \cup Dicts(valuesTo[depth - 1])
<1> DEFINE Body(g, n) == IF n = 0 THEN Leaves ELSE Leaves \cup Dicts(g[n - 1])
           Part(g, n) == g = [m \in 0..n |-> Body(g, m)]
           P == {n \in Nat : \E g : Part(g, n)}
<1>1. ASSUME NEW n \in Nat, \A m \in Nat : m < n => m \in P PROVE n \in P
  <2>1. CASE n = 0
    <3> DEFINE g == [m \in 0..n |-> Leaves]
    <3>1. \A m \in 0..n : Body(g, m) = Leaves
          BY <2>1
    <3>2. g = [m \in 0..n |-> Body(g, m)]
          BY <3>1
    <3> QED
        BY <3>2
  <2>2. CASE n # 0
    <3>1. n - 1 \in Nat /\ n - 1 < n
          BY <2>2
    <3>2. PICK q : Part(q, n - 1)
          BY <1>1, <3>1
    <3> DEFINE g == [m \in 0..n |-> IF m = n THEN Leaves \cup Dicts(q[n - 1]) ELSE q[m]]
    <3>3. ASSUME NEW m \in 0..n PROVE g[m] = Body(g, m)
      <4>1. CASE m = n
        <5>1. n - 1 \in 0..n /\ n - 1 # n
              BY <3>1
        <5>2. g[m] = Leaves \cup Dicts(q[n - 1]) /\ g[n - 1] = q[n - 1]
              BY <4>1, <5>1
        <5> HIDE DEF g
        <5> QED
            BY <2>2, <4>1, <5>2
      <4>2. CASE m # n
        <5>1. m \in 0..n - 1 /\ g[m] = q[m]
              BY <3>1, <4>2
        <5>2. q[m] = Body(q, m)
              BY <3>2, <5>1
        <5>3. m # 0 => g[m - 1] = q[m - 1]
          <6> SUFFICES ASSUME m # 0 PROVE g[m - 1] = q[m - 1]
              OBVIOUS
          <6>1. m - 1 \in 0..n /\ m - 1 # n
                BY <3>1, <4>2
          <6> QED
              BY <6>1
        <5> HIDE DEF g
        <5> QED
            BY <5>1, <5>2, <5>3
      <4> QED
          BY <4>1, <4>2
    <3>4. g = [m \in 0..n |-> Body(g, m)]
      <4>1. DOMAIN g = 0..n /\ g = [m \in 0..n |-> g[m]]
            OBVIOUS
      <4> HIDE DEF g, Body
      <4> QED
          BY <3>3, <4>1
    <3> HIDE DEF g, Body
    <3> QED
        BY <3>4
  <2> QED
      BY <2>1, <2>2
<1>2. Nat \subseteq P
  <2> HIDE DEF P
  <2> QED
      BY <1>1, NatInductionIn
<1>3. MaxDepth \in Nat
      BY DEF MaxDepth
<1>4. Part(valuesTo, MaxDepth)
  <2>1. \E g : Part(g, MaxDepth)
        BY <1>2, <1>3
  <2>2. valuesTo = CHOOSE g : Part(g, MaxDepth)
        BY DEF valuesTo, Dicts
  <2> HIDE DEF Part
  <2> QED
      BY <2>1, <2>2
<1>5. \A m \in 0..MaxDepth : valuesTo[m] = Body(valuesTo, m)
  <2> HIDE DEF Body
  <2> QED
      BY <1>4
<1> QED
    BY <1>5

\* A tree of some values is one of more.
LEMMA TreesGrow ==
    ASSUME NEW V, NEW W, V \subseteq W PROVE TreesOf(V) \subseteq TreesOf(W)
<1>1. Seq(V) \subseteq Seq(W)
  <2> SUFFICES ASSUME NEW s \in Seq(V) PROVE s \in Seq(W)
      OBVIOUS
  <2>1. s \in [1..Len(s) -> W] /\ Len(s) \in Nat
        BY SeqIs
  <2> QED
      BY <2>1, MadeSeq
<1> DEFINE G == [num : Nat, vals : Seq(V)]
           H == [num : Nat, vals : Seq(W)]
<1>2. G \subseteq H
      BY <1>1
<1> HIDE DEF G, H
<1>3. ASSUME NEW s \in Seq(G) PROVE s \in Seq(H)
  <2>1. s \in [1..Len(s) -> H] /\ Len(s) \in Nat
        BY <1>2, SeqIs
  <2> QED
      BY <2>1, MadeSeq
<1> QED
    BY <1>3 DEF TreesOf, G, H

\* A value of a depth is one of the next.
LEMMA ValuesGrow ==
    \A depth \in 0..MaxDepth : depth # 0 => valuesTo[depth - 1] \subseteq valuesTo[depth]
<1> DEFINE P == {n \in Nat : n + 1 \in 0..MaxDepth => valuesTo[n] \subseteq valuesTo[n + 1]}
<1>1. ASSUME NEW V, NEW W, V \subseteq W PROVE Dicts(V) \subseteq Dicts(W)
      BY <1>1, TreesGrow DEF Dicts
<1>2. ASSUME NEW n \in Nat, \A m \in Nat : m < n => m \in P PROVE n \in P
  <2> SUFFICES ASSUME n + 1 \in 0..MaxDepth PROVE valuesTo[n] \subseteq valuesTo[n + 1]
      OBVIOUS
  <2>1. /\ n \in 0..MaxDepth /\ n + 1 # 0 /\ (n + 1) - 1 = n
        /\ n # 0 => n - 1 \in Nat /\ n - 1 < n /\ (n - 1) + 1 = n
        BY DEF MaxDepth
  <2>2. valuesTo[n + 1] = Leaves \cup Dicts(valuesTo[n])
        BY <2>1, ValuesToIs
  <2>3. CASE n = 0
        BY <2>1, <2>2, <2>3, ValuesToIs
  <2>4. CASE n # 0
    <3>1. valuesTo[n - 1] \subseteq valuesTo[n]
          BY <1>2, <2>1, <2>4
    <3>2. valuesTo[n] = Leaves \cup Dicts(valuesTo[n - 1])
          BY <2>1, <2>4, ValuesToIs
    <3> QED
        BY <1>1, <2>2, <3>1, <3>2
  <2> QED
      BY <2>3, <2>4
<1>3. Nat \subseteq P
  <2> HIDE DEF P
  <2> QED
      BY <1>2, NatInductionIn
<1>4. \A d \in 0..MaxDepth : d # 0 => d - 1 \in Nat /\ (d - 1) + 1 = d
      BY DEF MaxDepth
<1> QED
    BY <1>3, <1>4

\* Values have a number, and what they need to be written.
LEMMA ValuesAre ==
    ASSUME NEW depth \in 0..MaxDepth, NEW v \in valuesTo[depth]
    PROVE  /\ v.num \in Nat /\ v.int \in Nat /\ v.bytes \in Buffers
           /\ v.is \in {"int", "dict", "str", "bytes"}
           /\ v.is = "dict" => depth # 0 /\ v.tree \in TreesOf(valuesTo[depth - 1])
<1>1. v \in Leaves \/ (depth # 0 /\ v \in Dicts(valuesTo[depth - 1]))
      BY ValuesToIs
<1>2. CASE v \in Leaves
      BY <1>2 DEF Leaves
<1>3. CASE depth # 0 /\ v \in Dicts(valuesTo[depth - 1])
      BY <1>3 DEF Dicts
<1> QED
    BY <1>1, <1>2, <1>3

\* The values of a tree, in their order, are of its depth.
LEMMA InOrderIs ==
    ASSUME NEW V, NEW tree \in TreesOf(V) PROVE InOrder(tree) \in Seq(V)
<1>1. tree \in Seq([num : Nat, vals : Seq(V)])
      BY DEF TreesOf
<1> QED
    BY <1>1, RowsAre

\* No value of the least depth is a message.
LEMMA LeastIs ==
    ASSUME NEW tree \in TreesOf(valuesTo[0]), NEW x, NEW y
    PROVE  Encoding(InOrder(tree), x) = Encoding(InOrder(tree), y)
<1> DEFINE values == InOrder(tree)
<1>1. values \in Seq(valuesTo[0])
      BY InOrderIs
<1>2. 0 \in 0..MaxDepth
      BY DEF MaxDepth
<1> HIDE DEF values
<1>3. \A i \in DOMAIN values : values[i].is # "dict"
      BY <1>1, <1>2, SeqIs, ValuesAre
<1>4. \A i \in DOMAIN values : Written(values[i], x) = Written(values[i], y)
      BY <1>3 DEF Written
<1>5. [i \in DOMAIN values |-> Written(values[i], x)]
         = [i \in DOMAIN values |-> Written(values[i], y)]
      BY <1>4
<1> QED
    BY <1>5 DEF Encoding, values

\* The functions that encode at each depth are one.
LEMMA EncodeIs ==
    \A depth \in 0..MaxDepth : \A tree \in TreesOf(valuesTo[depth]) :
        encode[depth][tree] = Encoding(InOrder(tree), encode[depth - 1])
<1> DEFINE Level(n, x) == [tree \in TreesOf(valuesTo[n]) |-> Encoding(InOrder(tree), x)]
           Part(g, n) == g = [m \in 0..n |-> Level(m, g[m - 1])]
           P == {n \in Nat : \E g : Part(g, n)}
<1>1. \A x, y : Level(0, x) = Level(0, y)
      BY LeastIs
<1> HIDE DEF Level
<1>2. ASSUME NEW n \in Nat, \A m \in Nat : m < n => m \in P PROVE n \in P
  <2>1. CASE n = 0
    <3> DEFINE g == [m \in 0..n |-> Level(0, 0)]
    <3>1. \A m \in 0..n : Level(m, g[m - 1]) = Level(0, 0)
          BY <1>1, <2>1
    <3>2. g = [m \in 0..n |-> Level(m, g[m - 1])]
          BY <3>1
    <3> QED
        BY <3>2
  <2>2. CASE n # 0
    <3>1. n - 1 \in Nat /\ n - 1 < n
          BY <2>2
    <3>2. PICK q : Part(q, n - 1)
          BY <1>2, <3>1
    <3> DEFINE g == [m \in 0..n |-> IF m = n THEN Level(n, q[n - 1]) ELSE q[m]]
    <3>3. ASSUME NEW m \in 0..n PROVE g[m] = Level(m, g[m - 1])
      <4>1. CASE m = 0
        <5>1. 0 \in 0..n - 1 /\ m # n
              BY <2>2, <4>1
        <5>2. q[0] = Level(0, q[0 - 1])
              BY <3>2, <5>1
        <5>3. g[m] = q[0]
              BY <4>1, <5>1
        <5>4. Level(0, q[0 - 1]) = Level(0, g[m - 1])
          <6> HIDE DEF g
          <6> QED
              BY <1>1
        <5> HIDE DEF g
        <5> QED
            BY <4>1, <5>2, <5>3, <5>4
      <4>2. CASE m # 0 /\ m # n
        <5>1. m \in 0..n - 1 /\ m - 1 \in 0..n /\ m - 1 # n
              BY <3>1, <4>2
        <5>2. q[m] = Level(m, q[m - 1])
              BY <3>2, <5>1
        <5>3. g[m] = q[m] /\ g[m - 1] = q[m - 1]
              BY <4>2, <5>1
        <5> HIDE DEF g
        <5> QED
            BY <5>2, <5>3
      <4>3. CASE m = n
        <5>1. n - 1 \in 0..n /\ n - 1 # n
              BY <3>1
        <5>2. g[m] = Level(n, q[n - 1]) /\ g[n - 1] = q[n - 1]
              BY <4>3, <5>1
        <5> HIDE DEF g
        <5> QED
            BY <4>3, <5>2
      <4> QED
          BY <4>1, <4>2, <4>3
    <3>4. g = [m \in 0..n |-> Level(m, g[m - 1])]
      <4>1. DOMAIN g = 0..n /\ g = [m \in 0..n |-> g[m]]
            OBVIOUS
      <4> HIDE DEF g
      <4> QED
          BY <3>3, <4>1
    <3> HIDE DEF g
    <3> QED
        BY <3>4
  <2> QED
      BY <2>1, <2>2
<1>3. Nat \subseteq P
  <2> HIDE DEF P
  <2> QED
      BY <1>2, NatInductionIn
<1>4. MaxDepth \in Nat
      BY DEF MaxDepth
<1>5. \E g : Part(g, MaxDepth)
      BY <1>3, <1>4
<1>6. Part(encode, MaxDepth)
  <2>1. encode = CHOOSE g : Part(g, MaxDepth)
        BY DEF encode, Level
  <2> HIDE DEF Part
  <2> QED
      BY <1>5, <2>1
<1>7. \A m \in 0..MaxDepth : encode[m] = Level(m, encode[m - 1])
      BY <1>6
<1> QED
    BY <1>7 DEF Level

\* The functions that tell canonical messages at each depth are one.
LEMMA CanonicalIs ==
    \A depth \in 0..MaxDepth : \A buf \in Buffers :
        canonical[depth][buf] =
          (/\ EncodeFields(Fields(buf)) = buf /\ InRows(Fields(buf))
           /\ \A f \in ToSet(Fields(buf)) : Nested(f, depth) => canonical[depth - 1][f.bytes])
<1> DEFINE Level(n, x) == [buf \in Buffers |->
              /\ EncodeFields(Fields(buf)) = buf /\ InRows(Fields(buf))
              /\ \A f \in ToSet(Fields(buf)) : Nested(f, n) => x[f.bytes]]
           Part(g, n) == g = [m \in 0..n |-> Level(m, g[m - 1])]
           P == {n \in Nat : \E g : Part(g, n)}
<1>1. \A x, y : Level(0, x) = Level(0, y)
      BY DEF Nested
<1> HIDE DEF Level
<1>2. ASSUME NEW n \in Nat, \A m \in Nat : m < n => m \in P PROVE n \in P
  <2>1. CASE n = 0
    <3> DEFINE g == [m \in 0..n |-> Level(0, 0)]
    <3>1. \A m \in 0..n : Level(m, g[m - 1]) = Level(0, 0)
          BY <1>1, <2>1
    <3>2. g = [m \in 0..n |-> Level(m, g[m - 1])]
          BY <3>1
    <3> QED
        BY <3>2
  <2>2. CASE n # 0
    <3>1. n - 1 \in Nat /\ n - 1 < n
          BY <2>2
    <3>2. PICK q : Part(q, n - 1)
          BY <1>2, <3>1
    <3> DEFINE g == [m \in 0..n |-> IF m = n THEN Level(n, q[n - 1]) ELSE q[m]]
    <3>3. ASSUME NEW m \in 0..n PROVE g[m] = Level(m, g[m - 1])
      <4>1. CASE m = 0
        <5>1. 0 \in 0..n - 1 /\ m # n
              BY <2>2, <4>1
        <5>2. q[0] = Level(0, q[0 - 1])
              BY <3>2, <5>1
        <5>3. g[m] = q[0]
              BY <4>1, <5>1
        <5>4. Level(0, q[0 - 1]) = Level(0, g[m - 1])
          <6> HIDE DEF g
          <6> QED
              BY <1>1
        <5> HIDE DEF g
        <5> QED
            BY <4>1, <5>2, <5>3, <5>4
      <4>2. CASE m # 0 /\ m # n
        <5>1. m \in 0..n - 1 /\ m - 1 \in 0..n /\ m - 1 # n
              BY <3>1, <4>2
        <5>2. q[m] = Level(m, q[m - 1])
              BY <3>2, <5>1
        <5>3. g[m] = q[m] /\ g[m - 1] = q[m - 1]
              BY <4>2, <5>1
        <5> HIDE DEF g
        <5> QED
            BY <5>2, <5>3
      <4>3. CASE m = n
        <5>1. n - 1 \in 0..n /\ n - 1 # n
              BY <3>1
        <5>2. g[m] = Level(n, q[n - 1]) /\ g[n - 1] = q[n - 1]
              BY <4>3, <5>1
        <5> HIDE DEF g
        <5> QED
            BY <4>3, <5>2
      <4> QED
          BY <4>1, <4>2, <4>3
    <3>4. g = [m \in 0..n |-> Level(m, g[m - 1])]
      <4>1. DOMAIN g = 0..n /\ g = [m \in 0..n |-> g[m]]
            OBVIOUS
      <4> HIDE DEF g
      <4> QED
          BY <3>3, <4>1
    <3> HIDE DEF g
    <3> QED
        BY <3>4
  <2> QED
      BY <2>1, <2>2
<1>3. Nat \subseteq P
  <2> HIDE DEF P
  <2> QED
      BY <1>2, NatInductionIn
<1>4. MaxDepth \in Nat
      BY DEF MaxDepth
<1>5. \E g : Part(g, MaxDepth)
      BY <1>3, <1>4
<1>6. Part(canonical, MaxDepth)
  <2>1. canonical = CHOOSE g : Part(g, MaxDepth)
        BY DEF canonical, Level
  <2> HIDE DEF Part
  <2> QED
      BY <1>5, <2>1
<1>7. \A m \in 0..MaxDepth : canonical[m] = Level(m, canonical[m - 1])
      BY <1>6
<1> QED
    BY <1>7 DEF Level

-----------------------------------------------------------------------------
(* What is decoded, and what is encoded, at each depth.                    *)

\* encode_fields writes a buffer.
LEMMA EncodesBuffer ==
    ASSUME NEW sent, sent \in Seq(Sent)
    PROVE  /\ EncodeFields(sent) \in Buffers
           /\ \A i \in 1..Len(sent) : EncodeField(sent[i]) \in Buffers
<1> DEFINE n == Len(sent)
           s == [i \in DOMAIN sent |-> EncodeField(sent[i])]
<1>1. n \in Nat /\ DOMAIN sent = 1..n /\ \A i \in 1..n : sent[i] \in Sent
      BY SeqIs
<1>2. ASSUME NEW f \in Sent PROVE EncodeField(f) \in Buffers
  <2>1. <<>> \in Buffers
        BY DEF Buffers
  <2> QED
      BY <2>1, FieldIsRead
<1>3. s \in [1..n -> Seq(0..255)]
      BY <1>1, <1>2 DEF Buffers
<1>4. s \in Seq(Seq(0..255))
  <2> HIDE DEF s
  <2> QED
      BY <1>1, <1>3, MadeSeq
<1>5. FlattenSeq(s) \in Buffers
  <2> HIDE DEF s
  <2> QED
      BY <1>4, FlattenAre DEF Buffers
<1> QED
    BY <1>1, <1>2, <1>5 DEF EncodeFields

\* The values of a message at a depth, in the order of its fields.
ValuesOf(buf, depth) ==
    [i \in DOMAIN Fields(buf) |-> Value(Fields(buf)[i], depth, decode[depth - 1])]

\* A message whose fields decode is a tree of its values, and they are of its depth.
LEMMA DecodesTo ==
    \A depth \in 0..MaxDepth : \A buf \in Buffers : Fields(buf) # Failed =>
        /\ Fields(buf) \in Seq(FieldRec)
        /\ ValuesOf(buf, depth) \in Seq(valuesTo[depth])
        /\ Len(ValuesOf(buf, depth)) = Len(Fields(buf))
        /\ decode[depth][buf] = Grouped(ValuesOf(buf, depth))
        /\ decode[depth][buf] \in TreesOf(valuesTo[depth])
<1> DEFINE Claim(d, buf) ==
              /\ ValuesOf(buf, d) \in Seq(valuesTo[d])
              /\ Len(ValuesOf(buf, d)) = Len(Fields(buf))
              /\ decode[d][buf] = Grouped(ValuesOf(buf, d))
              /\ decode[d][buf] \in TreesOf(valuesTo[d])
           P == {d \in Nat : d \in 0..MaxDepth =>
                    \A buf \in Buffers : Fields(buf) # Failed => Claim(d, buf)}
<1>1. ASSUME NEW buf \in Buffers, Fields(buf) # Failed PROVE Fields(buf) \in Seq(FieldRec)
  <2>1. 1 \in 1..End(buf)
        BY ByteAt DEF End
  <2> QED
      BY <1>1, <2>1, FieldsAre DEF Fields
<1>2. ASSUME NEW d \in Nat, \A m \in Nat : m < d => m \in P, d \in 0..MaxDepth,
             NEW buf \in Buffers, Fields(buf) # Failed
      PROVE  Claim(d, buf)
  <2> DEFINE fields == Fields(buf)
             n == Len(fields)
             values == ValuesOf(buf, d)
             V == valuesTo[d]
  <2>1. fields \in Seq(FieldRec) /\ n \in Nat /\ DOMAIN fields = 1..n
        /\ \A i \in 1..n : fields[i] \in FieldRec
    <3>1. fields \in Seq(FieldRec)
          BY <1>1, <1>2
    <3> HIDE DEF fields
    <3> QED
        BY <3>1, SeqIs
  <2>2. values = [i \in 1..n |-> Value(fields[i], d, decode[d - 1])]
        BY <2>1 DEF ValuesOf
  <2>3. decode[d][buf] = Tree(fields, d, decode[d - 1])
        BY <1>2, DecodeIs
  <2> HIDE DEF fields, values
  <2>4. ASSUME NEW i \in 1..n PROVE values[i] \in V
    <3> DEFINE f == fields[i]
               v == values[i]
    <3>1. v = Value(f, d, decode[d - 1]) /\ f \in FieldRec
          BY <2>1, <2>2
    <3> HIDE DEF f, v
    <3>2. f.num \in Nat /\ f.int \in Nat /\ f.bytes \in Buffers /\ f.is \in {"int", "bytes"}
          BY <3>1 DEF FieldRec
    <3>3. CASE Nested(f, d)
      <4>1. f.is = "bytes" /\ d > 0 /\ ValidMessage(f.bytes)
            BY <3>3 DEF Nested
      <4>2. d - 1 \in Nat /\ d - 1 < d /\ d - 1 \in 0..MaxDepth /\ d # 0
            BY <1>2, <4>1 DEF MaxDepth
      <4>3. Fields(f.bytes) # Failed
            BY <3>2, <4>1, ValidDecodes
      <4>4. Claim(d - 1, f.bytes)
        <5> HIDE DEF Claim
        <5> QED
            BY <1>2, <3>2, <4>2, <4>3
      <4>5. decode[d - 1][f.bytes] \in TreesOf(valuesTo[d - 1])
            BY <4>4
      <4>6. v = [num |-> f.num, int |-> f.int, bytes |-> f.bytes, is |-> "dict",
                 tree |-> decode[d - 1][f.bytes]]
            BY <3>1, <3>3, <4>1 DEF Value
      <4>7. v \in Dicts(valuesTo[d - 1])
            BY <3>2, <4>5, <4>6 DEF Dicts
      <4> QED
          BY <1>2, <4>2, <4>7, ValuesToIs DEF v
    <3>4. CASE ~Nested(f, d)
      <4>1. v = [num |-> f.num, int |-> f.int, bytes |-> f.bytes,
                 is |-> IF f.is = "int" THEN "int"
                        ELSE IF Printable(f.bytes) THEN "str" ELSE "bytes",
                 tree |-> <<>>]
            BY <3>1, <3>4 DEF Value
      <4>2. v \in Leaves
            BY <3>2, <4>1 DEF Leaves
      <4>3. Leaves \subseteq V
            BY <1>2, ValuesToIs
      <4> QED
          BY <4>2, <4>3 DEF v
    <3> QED
        BY <3>3, <3>4
  <2>5. values \in Seq(V) /\ Len(values) = n /\ DOMAIN values = 1..n
    <3>1. values \in [1..n -> V]
          BY <2>2, <2>4
    <3> HIDE DEF n, V
    <3> QED
        BY <2>1, <3>1, MadeSeq
  <2>6. decode[d][buf] = Grouped(values)
    <3>1. decode[d][buf] # Failed
          BY <1>2, DecodesAt
    <3>2. Tree(fields, d, decode[d - 1]) = Together(fields, values)
          BY <2>1, <2>2 DEF Tree
    <3> QED
        BY <2>3, <3>1, <3>2 DEF Together
  <2>7. Grouped(values) \in TreesOf(V)
    <3>1. Grouped(values) \in Seq(Groups(V))
          BY <2>5, GroupedTree
    <3>2. \A v \in V : v.num \in Nat
          BY <1>2, ValuesAre
    <3> DEFINE G == [num : Nat, vals : Seq(V)]
               g == Grouped(values)
    <3> HIDE DEF V
    <3>3. Groups(V) \subseteq G
          BY <3>2 DEF Groups
    <3>4. g \in [1..Len(g) -> G] /\ Len(g) \in Nat
      <4> HIDE DEF G, g
      <4> QED
          BY <3>1, <3>3, SeqIs DEF g
    <3>5. g \in Seq(G)
      <4> HIDE DEF G, g
      <4> QED
          BY <3>4, MadeSeq
    <3> QED
        BY <3>5 DEF TreesOf
  <2> QED
      BY <2>5, <2>6, <2>7 DEF fields, values
<1>3. \A d \in Nat : (\A m \in Nat : m < d => m \in P) => d \in P
  <2> HIDE DEF Claim
  <2> QED
      BY <1>2
<1>4. Nat \subseteq P
  <2> HIDE DEF P
  <2> QED
      BY <1>3, NatInductionIn
<1>5. \A d \in 0..MaxDepth : d \in Nat
      BY DEF MaxDepth
<1>6. \A d \in 0..MaxDepth : \A buf \in Buffers : Fields(buf) # Failed => Claim(d, buf)
  <2> HIDE DEF Claim
  <2> QED
      BY <1>4, <1>5
<1> QED
    BY <1>1, <1>6

\* What is written for the values of a tree.
Writing(values, encoded) == [i \in DOMAIN values |-> Written(values[i], encoded)]

\* A tree is written as the fields of its values, in their order; that is a buffer.
LEMMA EncodesTo ==
    \A depth \in 0..MaxDepth : \A tree \in TreesOf(valuesTo[depth]) :
        LET values == InOrder(tree) IN
        /\ values \in Seq(valuesTo[depth])
        /\ Writing(values, encode[depth - 1]) \in Seq(Sent)
        /\ Len(Writing(values, encode[depth - 1])) = Len(values)
        /\ encode[depth][tree] = EncodeFields(Writing(values, encode[depth - 1]))
        /\ encode[depth][tree] \in Buffers
<1> DEFINE Claim(d, tree) ==
              /\ Writing(InOrder(tree), encode[d - 1]) \in Seq(Sent)
              /\ Len(Writing(InOrder(tree), encode[d - 1])) = Len(InOrder(tree))
              /\ encode[d][tree] = EncodeFields(Writing(InOrder(tree), encode[d - 1]))
              /\ encode[d][tree] \in Buffers
           P == {d \in Nat : d \in 0..MaxDepth =>
                    \A tree \in TreesOf(valuesTo[d]) : Claim(d, tree)}
<1>1. ASSUME NEW d \in Nat, \A m \in Nat : m < d => m \in P, d \in 0..MaxDepth,
             NEW tree \in TreesOf(valuesTo[d])
      PROVE  Claim(d, tree)
  <2> DEFINE values == InOrder(tree)
             n == Len(values)
             w == Writing(values, encode[d - 1])
  <2>1. n \in Nat /\ DOMAIN values = 1..n /\ \A i \in 1..n : values[i] \in valuesTo[d]
    <3>1. values \in Seq(valuesTo[d])
          BY InOrderIs
    <3> HIDE DEF values
    <3> QED
        BY <3>1, SeqIs
  <2>2. w = [i \in 1..n |-> Written(values[i], encode[d - 1])]
        BY <2>1 DEF Writing
  <2>3. encode[d][tree] = EncodeFields(w)
        BY <1>1, EncodeIs DEF Encoding, Writing
  <2> HIDE DEF values, w
  <2>4. ASSUME NEW i \in 1..n PROVE w[i] \in Sent
    <3> DEFINE v == values[i]
    <3>1. w[i] = Written(v, encode[d - 1]) /\ v \in valuesTo[d]
          BY <2>1, <2>2
    <3> HIDE DEF v
    <3>2. /\ v.num \in Nat /\ v.int \in Nat /\ v.bytes \in Buffers
          /\ v.is = "dict" => d # 0 /\ v.tree \in TreesOf(valuesTo[d - 1])
          BY <1>1, <3>1, ValuesAre
    <3>3. CASE v.is = "dict"
      <4>1. d - 1 \in Nat /\ d - 1 < d /\ d - 1 \in 0..MaxDepth
            BY <1>1, <3>2, <3>3 DEF MaxDepth
      <4>2. Claim(d - 1, v.tree)
        <5> HIDE DEF Claim
        <5> QED
            BY <1>1, <3>2, <3>3, <4>1
      <4>3. encode[d - 1][v.tree] \in Buffers
            BY <4>2
      <4>4. Written(v, encode[d - 1]) = [num |-> v.num, is |-> "bytes", int |-> v.int,
                                         bytes |-> encode[d - 1][v.tree]]
            BY <3>3 DEF Written
      <4> QED
          BY <3>1, <3>2, <4>3, <4>4 DEF Sent
    <3>4. CASE v.is # "dict"
          BY <3>1, <3>2, <3>4 DEF Written, Sent
    <3> QED
        BY <3>3, <3>4
  <2>5. w \in Seq(Sent) /\ Len(w) = n
    <3>1. w \in [1..n -> Sent]
          BY <2>2, <2>4
    <3> HIDE DEF n
    <3> QED
        BY <2>1, <3>1, MadeSeq
  <2>6. EncodeFields(w) \in Buffers
        BY <2>5, EncodesBuffer
  <2> QED
      BY <2>3, <2>5, <2>6 DEF values, w
<1>2. \A d \in Nat : (\A m \in Nat : m < d => m \in P) => d \in P
  <2> HIDE DEF Claim
  <2> QED
      BY <1>1
<1>3. Nat \subseteq P
  <2> HIDE DEF P
  <2> QED
      BY <1>2, NatInductionIn
<1>4. \A d \in 0..MaxDepth : d \in Nat
      BY DEF MaxDepth
<1>5. \A d \in 0..MaxDepth : \A tree \in TreesOf(valuesTo[d]) : Claim(d, tree)
  <2> HIDE DEF Claim
  <2> QED
      BY <1>3, <1>4
<1> QED
    BY <1>5, InOrderIs


\* It makes no difference how much deeper the encoder could go.
LEMMA EncodesDeeper ==
    \A depth \in 0..MaxDepth : \A tree \in TreesOf(valuesTo[depth]) :
        /\ tree \in TreesOf(valuesTo[MaxDepth])
        /\ EncodeTree(tree) = encode[depth][tree]
<1> DEFINE P == {d \in Nat : d + 1 \in 0..MaxDepth =>
                    \A tree \in TreesOf(valuesTo[d]) :
                        /\ tree \in TreesOf(valuesTo[d + 1])
                        /\ encode[d + 1][tree] = encode[d][tree]}
<1>1. ASSUME NEW d \in Nat, \A m \in Nat : m < d => m \in P, d + 1 \in 0..MaxDepth,
             NEW tree \in TreesOf(valuesTo[d])
      PROVE  tree \in TreesOf(valuesTo[d + 1]) /\ encode[d + 1][tree] = encode[d][tree]
  <2> DEFINE values == InOrder(tree)
  <2>1. d \in 0..MaxDepth /\ d + 1 # 0 /\ (d + 1) - 1 = d
        BY <1>1 DEF MaxDepth
  <2>2. tree \in TreesOf(valuesTo[d + 1])
    <3>1. valuesTo[d] \subseteq valuesTo[d + 1]
          BY <1>1, <2>1, ValuesGrow
    <3> QED
        BY <3>1, TreesGrow
  <2>3. /\ encode[d + 1][tree] = Encoding(values, encode[d])
        /\ encode[d][tree] = Encoding(values, encode[d - 1])
        BY <1>1, <2>1, <2>2, EncodeIs
  <2>4. values \in Seq(valuesTo[d])
        BY InOrderIs
  <2> HIDE DEF values
  <2>5. ASSUME NEW i \in DOMAIN values
        PROVE  Written(values[i], encode[d]) = Written(values[i], encode[d - 1])
    <3> DEFINE v == values[i]
    <3>1. v \in valuesTo[d]
          BY <2>4, SeqIs
    <3> HIDE DEF v
    <3>2. v.is = "dict" => d # 0 /\ v.tree \in TreesOf(valuesTo[d - 1])
          BY <2>1, <3>1, ValuesAre
    <3>3. v.is = "dict" => encode[d][v.tree] = encode[d - 1][v.tree]
      <4> SUFFICES ASSUME v.is = "dict" PROVE encode[d][v.tree] = encode[d - 1][v.tree]
          OBVIOUS
      <4>1. d - 1 \in Nat /\ d - 1 < d /\ (d - 1) + 1 = d
            BY <3>2
      <4> QED
          BY <1>1, <2>1, <3>2, <4>1
    <3>4. Written(v, encode[d]) = Written(v, encode[d - 1])
          BY <3>3 DEF Written
    <3> QED
        BY <3>4 DEF v
  <2>6. [i \in DOMAIN values |-> Written(values[i], encode[d])]
           = [i \in DOMAIN values |-> Written(values[i], encode[d - 1])]
        BY <2>5
  <2>7. Encoding(values, encode[d]) = Encoding(values, encode[d - 1])
        BY <2>6 DEF Encoding
  <2> QED
      BY <2>2, <2>3, <2>7
<1>2. Nat \subseteq P
  <2>1. \A d \in Nat : (\A m \in Nat : m < d => m \in P) => d \in P
        BY <1>1
  <2> HIDE DEF P
  <2> QED
      BY <2>1, NatInductionIn
<1> DEFINE Deep(d) == \A tree \in TreesOf(valuesTo[d]) :
              tree \in TreesOf(valuesTo[MaxDepth]) /\ encode[MaxDepth][tree] = encode[d][tree]
           Q == {k \in Nat : k \in 0..MaxDepth => Deep(MaxDepth - k)}
<1>3. ASSUME NEW k \in Nat, \A m \in Nat : m < k => m \in Q PROVE k \in Q
  <2> SUFFICES ASSUME k \in 0..MaxDepth PROVE Deep(MaxDepth - k)
      OBVIOUS
  <2>1. CASE k = 0
    <3>1. MaxDepth - k = MaxDepth
          BY <2>1 DEF MaxDepth
    <3> QED
        BY <3>1
  <2>2. CASE k # 0
    <3> DEFINE d == MaxDepth - k
    <3>1. /\ k - 1 \in Nat /\ k - 1 < k /\ k - 1 \in 0..MaxDepth
          /\ MaxDepth - (k - 1) = d + 1 /\ d \in Nat /\ d + 1 \in 0..MaxDepth
          BY <2>2 DEF MaxDepth
    <3> HIDE DEF d
    <3>2. Deep(MaxDepth - (k - 1))
      <4> HIDE DEF Deep
      <4> QED
          BY <1>3, <3>1
    <3>3. Deep(d + 1)
          BY <3>1, <3>2
    <3>4. \A tree \in TreesOf(valuesTo[d]) :
             tree \in TreesOf(valuesTo[d + 1]) /\ encode[d + 1][tree] = encode[d][tree]
          BY <1>2, <3>1
    <3>5. Deep(d)
          BY <3>3, <3>4
    <3> QED
        BY <3>5 DEF d
  <2> QED
      BY <2>1, <2>2
<1>4. Nat \subseteq Q
  <2> HIDE DEF Q
  <2> QED
      BY <1>3, NatInductionIn
<1>5. ASSUME NEW d \in 0..MaxDepth PROVE Deep(d)
  <2>1. /\ MaxDepth - d \in Nat /\ MaxDepth - d \in 0..MaxDepth
        /\ MaxDepth - (MaxDepth - d) = d
        BY DEF MaxDepth
  <2>2. Deep(MaxDepth - (MaxDepth - d))
    <3> HIDE DEF Deep
    <3> QED
        BY <1>4, <2>1
  <2> QED
      BY <2>1, <2>2
<1> QED
    BY <1>5 DEF EncodeTree


-----------------------------------------------------------------------------
(* What is sent again.                                                     *)

\* What is written for a value that was read.
LEMMA WrittenIs ==
    ASSUME NEW f \in FieldRec, NEW depth, NEW decoded, NEW encoded
    PROVE  Written(Value(f, depth, decoded), encoded) =
              [num |-> f.num, is |-> f.is, int |-> f.int,
               bytes |-> IF Nested(f, depth) THEN encoded[decoded[f.bytes]] ELSE f.bytes]
<1>1. f.is \in {"int", "bytes"} /\ (Nested(f, depth) => f.is = "bytes")
      BY DEF FieldRec, Nested
<1>2. CASE Nested(f, depth)
      BY <1>1, <1>2 DEF Value, Written
<1>3. CASE ~Nested(f, depth)
      BY <1>1, <1>3 DEF Value, Written
<1> QED
    BY <1>2, <1>3

\* Fields are written as what they were read from.
LEMMA ReadFieldsAreWritten ==
    ASSUME NEW sent, sent \in Seq(Sent), NEW fields, fields \in Seq(FieldRec),
           Len(fields) = Len(sent), \A k \in 1..Len(sent) : ReadAs(sent[k], fields[k])
    PROVE  EncodeFields(fields) = EncodeFields(sent)
<1>1. /\ DOMAIN sent = 1..Len(sent) /\ DOMAIN fields = 1..Len(sent)
      /\ \A k \in 1..Len(sent) : sent[k] \in Sent
      BY SeqIs
<1>2. ASSUME NEW k \in 1..Len(sent) PROVE EncodeField(fields[k]) = EncodeField(sent[k])
  <2> DEFINE f == fields[k]
             s == sent[k]
  <2>1. s.is \in {"int", "bytes"} /\ ReadAs(s, f)
        BY <1>1 DEF Sent
  <2> HIDE DEF f, s
  <2> QED
      BY <2>1 DEF ReadAs, EncodeField, f, s
<1>3. [k \in DOMAIN fields |-> EncodeField(fields[k])]
         = [k \in DOMAIN sent |-> EncodeField(sent[k])]
      BY <1>1, <1>2
<1> QED
    BY <1>3 DEF EncodeFields

\* Where the numbers are the same, they are in a row in both.
LEMMA SameRows ==
    ASSUME NEW S, NEW T, NEW a, a \in Seq(S), NEW b, b \in Seq(T), Len(a) = Len(b),
           \A k \in 1..Len(a) : a[k].num = b[k].num, InRows(a)
    PROVE  InRows(b)
<1>1. Len(a) \in Nat /\ DOMAIN a = 1..Len(a) /\ DOMAIN b = 1..Len(a)
      BY SeqIs
<1>2. ASSUME NEW i \in DOMAIN b, NEW k \in DOMAIN b, i < k, b[i].num = b[k].num
      PROVE  b[k - 1].num = b[k].num
  <2>1. i \in DOMAIN a /\ k \in DOMAIN a /\ k - 1 \in 1..Len(a)
        BY <1>1, <1>2
  <2>2. a[k - 1].num = a[k].num
        BY <1>1, <1>2, <2>1 DEF InRows
  <2> QED
      BY <1>1, <2>1, <2>2
<1> QED
    BY <1>2 DEF InRows

\* What canonical asks for at a depth.
Regular(buf, depth) ==
    /\ EncodeFields(Fields(buf)) = buf /\ InRows(Fields(buf))
    /\ \A f \in ToSet(Fields(buf)) : Nested(f, depth) => canonical[depth - 1][f.bytes]

\* The fields of a message, the values they are read as, and what is written for
\* the tree of them.
LEMMA ReadAndWritten ==
    ASSUME NEW depth \in 0..MaxDepth, NEW buf \in Buffers, Fields(buf) # Failed,
           NEW fields, fields = Fields(buf),
           NEW out, out = InOrder(decode[depth][buf]),
           NEW ws, ws = Writing(out, encode[depth - 1])
    PROVE  /\ fields \in Seq(FieldRec) /\ ws \in Seq(Sent)
           /\ Len(ws) = Len(out) /\ out \in Seq(valuesTo[depth])
           /\ encode[depth][decode[depth][buf]] = EncodeFields(ws)
           /\ InRows(out)
           /\ \A k \in 1..Len(ws) : ws[k].num = out[k].num
           /\ InRows(fields) =>
                /\ Len(fields) = Len(ws)
                /\ \A k \in 1..Len(ws) :
                     ws[k] = [num |-> fields[k].num, is |-> fields[k].is, int |-> fields[k].int,
                              bytes |-> IF Nested(fields[k], depth)
                                        THEN encode[depth - 1][decode[depth - 1][fields[k].bytes]]
                                        ELSE fields[k].bytes]
<1> DEFINE values == ValuesOf(buf, depth)
           tree == decode[depth][buf]
           V == valuesTo[depth]
<1>1. /\ fields \in Seq(FieldRec) /\ values \in Seq(V) /\ Len(values) = Len(fields)
      /\ tree = Grouped(values) /\ tree \in TreesOf(V)
      BY DecodesTo
<1>2. /\ out \in Seq(V) /\ ws \in Seq(Sent) /\ Len(ws) = Len(out)
      /\ encode[depth][tree] = EncodeFields(ws)
      BY <1>1, EncodesTo
<1>3. /\ Len(fields) \in Nat /\ DOMAIN fields = 1..Len(fields)
      /\ \A k \in 1..Len(fields) : fields[k] \in FieldRec
      BY <1>1, SeqIs
<1>4. values = [k \in 1..Len(fields) |-> Value(fields[k], depth, decode[depth - 1])]
      BY <1>3 DEF ValuesOf
<1> HIDE DEF values, tree, V
<1>5. /\ Tidy(tree) /\ (InRows(values) => InOrder(tree) = values)
      /\ tree \in Seq(Groups(V))
      BY <1>1, GroupedIsTidy, GroupedTree
<1>6. out = InOrder(tree)
      BY DEF tree
<1>7. InRows(out)
      BY <1>5, <1>6, TidyInRows
<1>8. Len(out) \in Nat /\ DOMAIN out = 1..Len(out) /\ \A k \in 1..Len(out) :
         ws[k] = Written(out[k], encode[depth - 1])
  <2>1. Len(out) \in Nat /\ DOMAIN out = 1..Len(out)
        BY <1>2, SeqIs
  <2> QED
      BY <2>1 DEF Writing
<1>9. \A k \in 1..Len(ws) : ws[k].num = out[k].num
  <2>1. \A v, e : Written(v, e).num = v.num
        BY DEF Written
  <2> QED
      BY <1>2, <1>8, <2>1
<1>10. ASSUME InRows(fields)
       PROVE  /\ Len(fields) = Len(ws)
              /\ \A k \in 1..Len(ws) : ws[k] = Written(values[k], encode[depth - 1])
  <2>1. \A k \in 1..Len(fields) : fields[k].num = values[k].num
        BY <1>4 DEF Value
  <2>2. InRows(values)
        BY <1>1, <1>10, <2>1, SameRows
  <2>3. out = values
        BY <1>5, <1>6, <2>2
  <2> QED
      BY <1>1, <1>2, <1>8, <2>3
<1>11. ASSUME InRows(fields), NEW k \in 1..Len(ws)
       PROVE  ws[k] = [num |-> fields[k].num, is |-> fields[k].is, int |-> fields[k].int,
                       bytes |-> IF Nested(fields[k], depth)
                                 THEN encode[depth - 1][decode[depth - 1][fields[k].bytes]]
                                 ELSE fields[k].bytes]
  <2>1. /\ ws[k] = Written(values[k], encode[depth - 1]) /\ fields[k] \in FieldRec
        /\ values[k] = Value(fields[k], depth, decode[depth - 1])
        BY <1>3, <1>4, <1>10, <1>11
  <2> QED
      BY <2>1, WrittenIs
<1> QED
    BY <1>1, <1>2, <1>7, <1>9, <1>10, <1>11 DEF tree, V


\* At each depth: a message that decodes is written as it was if it is canonical,
\* and only then.
LEMMA WritesAsItWas ==
    \A depth \in 0..MaxDepth : \A buf \in Buffers : Fields(buf) # Failed =>
        (encode[depth][decode[depth][buf]] = buf <=> Regular(buf, depth))
<1> DEFINE Claim(d, buf) == encode[d][decode[d][buf]] = buf <=> Regular(buf, d)
           P == {d \in Nat : d \in 0..MaxDepth =>
                    \A buf \in Buffers : Fields(buf) # Failed => Claim(d, buf)}
<1>1. ASSUME NEW d \in Nat, \A m \in Nat : m < d => m \in P, d \in 0..MaxDepth,
             NEW buf \in Buffers, Fields(buf) # Failed
      PROVE  Claim(d, buf)
  <2> DEFINE fields == Fields(buf)
             out == InOrder(decode[d][buf])
             ws == Writing(out, encode[d - 1])
             Again(f) == encode[d - 1][decode[d - 1][f.bytes]]
  <2>1. /\ fields \in Seq(FieldRec) /\ ws \in Seq(Sent)
        /\ Len(ws) = Len(out) /\ out \in Seq(valuesTo[d])
        /\ encode[d][decode[d][buf]] = EncodeFields(ws)
        /\ InRows(out)
        /\ \A k \in 1..Len(ws) : ws[k].num = out[k].num
        /\ InRows(fields) =>
             /\ Len(fields) = Len(ws)
             /\ \A k \in 1..Len(ws) :
                  ws[k] = [num |-> fields[k].num, is |-> fields[k].is, int |-> fields[k].int,
                           bytes |-> IF Nested(fields[k], d)
                                     THEN Again(fields[k]) ELSE fields[k].bytes]
        BY <1>1, ReadAndWritten
  <2> HIDE DEF fields, out, ws
  <2>2. /\ DOMAIN fields = 1..Len(fields) /\ \A k \in 1..Len(fields) : fields[k] \in FieldRec
        /\ \A f : f \in ToSet(fields) <=> \E k \in 1..Len(fields) : f = fields[k]
    <3>1. DOMAIN fields = 1..Len(fields) /\ \A k \in 1..Len(fields) : fields[k] \in FieldRec
          BY <2>1, SeqIs
    <3> QED
        BY <3>1 DEF ToSet
  <2>3. ASSUME NEW f \in FieldRec, Nested(f, d)
        PROVE  Again(f) = f.bytes <=> canonical[d - 1][f.bytes]
    <3>1. f.bytes \in Buffers /\ d > 0 /\ ValidMessage(f.bytes)
          BY <2>3 DEF FieldRec, Nested
    <3>2. d - 1 \in Nat /\ d - 1 < d /\ d - 1 \in 0..MaxDepth
          BY <1>1, <3>1 DEF MaxDepth
    <3>3. Fields(f.bytes) # Failed
          BY <3>1, ValidDecodes
    <3>4. Claim(d - 1, f.bytes)
      <4> HIDE DEF Claim
      <4> QED
          BY <1>1, <3>1, <3>2, <3>3
    <3>5. canonical[d - 1][f.bytes] = Regular(f.bytes, d - 1)
          BY <3>1, <3>2, CanonicalIs DEF Regular
    <3> QED
        BY <3>4, <3>5
  <2> HIDE DEF Again
  <2>4. ASSUME EncodeFields(ws) = buf PROVE Regular(buf, d)
    <3>1. Len(fields) = Len(ws) /\ \A k \in 1..Len(ws) : ReadAs(ws[k], fields[k])
          BY <2>1, <2>4, FieldsAreRead DEF fields
    <3>2. EncodeFields(fields) = buf
          BY <2>1, <2>4, <3>1, ReadFieldsAreWritten
    <3>3. \A k \in 1..Len(out) : out[k].num = fields[k].num
          BY <2>1, <3>1 DEF ReadAs
    <3>4. InRows(fields)
          BY <2>1, <3>1, <3>3, SameRows
    <3>5. ASSUME NEW f \in ToSet(fields), Nested(f, d) PROVE canonical[d - 1][f.bytes]
      <4>1. PICK k \in 1..Len(fields) : f = fields[k]
            BY <2>2, <3>5
      <4>2. ws[k].bytes = Again(f) /\ ws[k].is = "bytes" /\ f \in FieldRec
        <5>1. k \in 1..Len(ws) /\ f \in FieldRec /\ f.is = "bytes"
              BY <2>2, <3>1, <3>5, <4>1 DEF Nested
        <5>2. ws[k] = [num |-> f.num, is |-> f.is, int |-> f.int,
                       bytes |-> IF Nested(f, d) THEN Again(f) ELSE f.bytes]
              BY <2>1, <3>4, <4>1, <5>1
        <5> QED
            BY <3>5, <5>1, <5>2
      <4>3. Again(f) = f.bytes
            BY <3>1, <4>1, <4>2 DEF ReadAs
      <4> QED
          BY <2>3, <3>5, <4>2, <4>3
    <3> QED
        BY <3>2, <3>4, <3>5 DEF Regular, fields
  <2>5. ASSUME Regular(buf, d) PROVE EncodeFields(ws) = buf
    <3>1. /\ EncodeFields(fields) = buf /\ InRows(fields)
          /\ \A f \in ToSet(fields) : Nested(f, d) => canonical[d - 1][f.bytes]
          BY <2>5 DEF Regular, fields
    <3>2. ASSUME NEW k \in 1..Len(ws) PROVE ReadAs(ws[k], fields[k])
      <4> DEFINE f == fields[k]
      <4>1. /\ f \in FieldRec /\ f \in ToSet(fields)
            /\ ws[k] = [num |-> f.num, is |-> f.is, int |-> f.int,
                        bytes |-> IF Nested(f, d) THEN Again(f) ELSE f.bytes]
            BY <2>1, <2>2, <3>1, <3>2
      <4> HIDE DEF f
      <4>2. Nested(f, d) => Again(f) = f.bytes
            BY <2>3, <3>1, <4>1
      <4>3. ws[k] = [num |-> f.num, is |-> f.is, int |-> f.int, bytes |-> f.bytes]
            BY <4>1, <4>2
      <4> QED
          BY <4>3 DEF ReadAs, f
    <3> QED
        BY <2>1, <3>1, <3>2, ReadFieldsAreWritten
  <2> QED
      BY <2>1, <2>4, <2>5
<1>2. Nat \subseteq P
  <2>1. \A d \in Nat : (\A m \in Nat : m < d => m \in P) => d \in P
    <3> HIDE DEF Claim
    <3> QED
        BY <1>1
  <2> HIDE DEF P
  <2> QED
      BY <2>1, NatInductionIn
<1>3. \A d \in 0..MaxDepth : d \in Nat
      BY DEF MaxDepth
<1>4. \A d \in 0..MaxDepth : \A buf \in Buffers : Fields(buf) # Failed => Claim(d, buf)
  <2> HIDE DEF Claim
  <2> QED
      BY <1>2, <1>3
<1> QED
    BY <1>4

\* A request is sent again byte for byte if it is canonical, and only then: for every
\* buffer, of any length and nested to any depth, whatever the decoder makes of its
\* strings.
THEOREM CanonicalIsSentAgain == \A buf \in Buffers : SentAgainAsItWas(buf)
<1> SUFFICES ASSUME NEW buf \in Buffers, DecodeTree(buf) # Failed
             PROVE  (EncodeTree(DecodeTree(buf)) = buf) = canonical[MaxDepth][buf]
    BY DEF SentAgainAsItWas
<1>1. MaxDepth \in 0..MaxDepth
      BY DEF MaxDepth
<1>2. Fields(buf) # Failed
  <2> SUFFICES ASSUME Fields(buf) = Failed PROVE DecodeTree(buf) = Failed
      OBVIOUS
  <2>1. DecodeTree(buf) = Tree(Fields(buf), MaxDepth, decode[MaxDepth - 1])
        BY <1>1, DecodeIs DEF DecodeTree
  <2>2. 1 \in DOMAIN Failed /\ Failed[1].is = "cut"
        BY DEF Failed
  <2> QED
      BY <2>1, <2>2 DEF Tree, Together
<1>3. EncodeTree(DecodeTree(buf)) = buf <=> Regular(buf, MaxDepth)
      BY <1>1, <1>2, WritesAsItWas DEF EncodeTree, DecodeTree
<1>4. canonical[MaxDepth][buf] = Regular(buf, MaxDepth)
      BY <1>1, CanonicalIs DEF Regular
<1>5. Regular(buf, MaxDepth) \in BOOLEAN
      BY DEF Regular
<1>6. (EncodeTree(DecodeTree(buf)) = buf) = Regular(buf, MaxDepth)
      BY <1>3, <1>5
<1> QED
    BY <1>4, <1>6


-----------------------------------------------------------------------------
(* What is read out of a message.                                          *)

\* A number that one value has, or none.
LEMMA OneAt ==
    ASSUME NEW S, NEW values, values \in Seq(S), NEW num, NEW k \in Nat,
           \A i \in 1..Len(values) : values[i].num = num <=> i = k
    PROVE  ValuesAt(Grouped(values), num) = IF k \in 1..Len(values) THEN <<values[k]>> ELSE <<>>
<1>1. PICK t : /\ t[0] = <<>>
               /\ \A i \in 1..Len(values) : t[i] = Put(t[i - 1], values[i])
               /\ Grouped(values) = t[Len(values)]
      BY GroupedIs
<1> DEFINE n == Len(values)
           Claim(i) == /\ t[i] \in Seq(Groups(S))
                       /\ \A g \in DOMAIN t[i] : t[i][g].num = num =>
                             k \in 1..i /\ t[i][g].vals = <<values[k]>>
           P == {i \in Nat : i <= n => Claim(i)}
<1>2. n \in Nat /\ \A i \in 1..n : values[i] \in S
      BY SeqIs
<1> HIDE DEF n
<1>3. ASSUME NEW i \in 1..n, Claim(i - 1) PROVE Claim(i)
  <2> DEFINE a == t[i - 1]
             v == values[i]
             m == Len(a)
             b == Put(a, v)
  <2>1. /\ a \in Seq(Groups(S)) /\ v \in S /\ t[i] = b /\ i \in Nat
        /\ \A g \in DOMAIN a : a[g].num = num => k \in 1..i - 1 /\ a[g].vals = <<values[k]>>
        /\ v.num = num <=> i = k
        BY <1>1, <1>2, <1>3 DEF n
  <2>0. m = Len(a)
        OBVIOUS
  <2> HIDE DEF a, v, m
  <2>2. b \in Seq(Groups(S))
        BY <2>1, PutIs
  <2>3. /\ m \in Nat /\ DOMAIN a = 1..m
        /\ Has(a, v.num) =>
             /\ DOMAIN b = 1..m
             /\ \A g \in 1..m : /\ b[g].num = a[g].num
                                /\ b[g].vals = IF a[g].num = v.num THEN Append(a[g].vals, v)
                                               ELSE a[g].vals
        /\ ~Has(a, v.num) =>
             /\ DOMAIN b = 1..m + 1
             /\ \A g \in 1..m : b[g] = a[g]
             /\ b[m + 1].num = v.num /\ b[m + 1].vals = <<v>>
        BY <2>0, <2>1, PutWhere
  <2> HIDE DEF b
  <2>4. ASSUME NEW g \in DOMAIN b, b[g].num = num
        PROVE  k \in 1..i /\ b[g].vals = <<values[k]>>
    <3>1. CASE Has(a, v.num)
      <4>1. g \in 1..m /\ a[g].num = num
            BY <2>3, <2>4, <3>1
      <4>2. k \in 1..i - 1 /\ a[g].vals = <<values[k]>>
            BY <2>1, <2>3, <4>1
      <4>3. v.num # num /\ k \in 1..i
            BY <2>1, <4>2
      <4> QED
          BY <2>3, <3>1, <4>1, <4>2, <4>3
    <3>2. CASE ~Has(a, v.num)
      <4>1. g \in 1..m \/ g = m + 1
            BY <2>3, <2>4, <3>2
      <4>2. CASE g \in 1..m
        <5>1. a[g].num = num /\ b[g].vals = a[g].vals
              BY <2>3, <2>4, <3>2, <4>2
        <5> QED
            BY <2>1, <2>3, <4>2, <5>1
      <4>3. CASE g = m + 1
        <5>1. v.num = num /\ b[g].vals = <<v>>
              BY <2>3, <2>4, <3>2, <4>3
        <5> QED
            BY <2>1, <5>1 DEF v
      <4> QED
          BY <4>1, <4>2, <4>3
    <3> QED
        BY <3>1, <3>2
  <2> QED
      BY <2>1, <2>2, <2>4
<1>4. ASSUME NEW i \in Nat, \A j \in Nat : j < i => j \in P PROVE i \in P
  <2> SUFFICES ASSUME i <= n PROVE Claim(i)
      OBVIOUS
  <2>1. CASE i = 0
    <3>1. <<>> \in Seq(Groups(S)) /\ \A g \in DOMAIN <<>> : FALSE
          OBVIOUS
    <3>2. t[i] = <<>>
          BY <1>1, <2>1
    <3> QED
        BY <3>1, <3>2
  <2>2. CASE i # 0
    <3>1. i - 1 \in Nat /\ i - 1 < i /\ i - 1 <= n /\ i \in 1..n
          BY <1>2, <2>2
    <3> HIDE DEF Claim
    <3> QED
        BY <1>3, <1>4, <3>1
  <2> QED
      BY <2>1, <2>2
<1>5. Nat \subseteq P
  <2> HIDE DEF P
  <2> QED
      BY <1>4, NatInductionIn
<1>6. Claim(n)
  <2> HIDE DEF Claim
  <2> QED
      BY <1>2, <1>5
<1> DEFINE tree == Grouped(values)
<1>7. /\ Has(tree, num) <=> \E i \in 1..n : values[i].num = num
      /\ tree = t[n]
      BY <1>1, GroupedTree DEF n
<1>8. Has(tree, num) <=> k \in 1..n
  <2>1. (\E i \in 1..n : values[i].num = num) <=> k \in 1..n
        BY DEF n
  <2> QED
      BY <1>7, <2>1
<1> HIDE DEF tree
<1>9. CASE Has(tree, num)
  <2> DEFINE g == CHOOSE h \in DOMAIN tree : tree[h].num = num
  <2>1. g \in DOMAIN tree /\ tree[g].num = num
        BY <1>9 DEF Has
  <2> HIDE DEF g
  <2>2. tree[g].vals = <<values[k]>>
        BY <1>6, <1>7, <2>1
  <2> QED
      BY <1>8, <1>9, <2>2 DEF ValuesAt, g, tree, n
<1>10. CASE ~Has(tree, num)
       BY <1>8, <1>10 DEF ValuesAt, tree, n
<1> QED
    BY <1>9, <1>10


\* The values of a message that encode_fields wrote, as they were sent.
LEMMA ReadAt ==
    ASSUME NEW depth \in 0..MaxDepth, NEW sent, sent \in Seq(Sent),
           NEW buf, buf = EncodeFields(sent), NEW values, values = ValuesOf(buf, depth)
    PROVE  /\ buf \in Buffers /\ Fields(buf) # Failed /\ decode[depth][buf] # Failed
           /\ decode[depth][buf] = Grouped(values)
           /\ values \in Seq(valuesTo[depth]) /\ Len(values) = Len(sent)
           /\ \A k \in 1..Len(sent) :
                /\ values[k].num = sent[k].num
                /\ sent[k].is = "int" => values[k].is = "int" /\ values[k].int = sent[k].int
                /\ sent[k].is = "bytes" =>
                     /\ values[k].bytes = sent[k].bytes
                     /\ IF depth > 0 /\ ValidMessage(sent[k].bytes)
                        THEN /\ values[k].is = "dict"
                             /\ values[k].tree = decode[depth - 1][sent[k].bytes]
                        ELSE values[k].is \in {"str", "bytes"}
<1> DEFINE fields == Fields(buf)
<1>1. /\ buf \in Buffers /\ fields \in Seq(FieldRec) /\ Len(fields) = Len(sent)
      /\ \A k \in 1..Len(sent) : ReadAs(sent[k], fields[k])
      BY EncodesBuffer, FieldsAreRead
<1>2. ASSUME fields = Failed PROVE FALSE
  <2>1. Len(Failed) = 1 /\ Failed[1].is = "cut"
        BY DEF Failed
  <2>2. Failed[1] \in FieldRec
    <3>1. fields[1] \in FieldRec
      <4>1. Len(fields) = 1
            BY <1>2, <2>1
      <4> HIDE DEF fields
      <4>2. \A i \in 1..Len(fields) : fields[i] \in FieldRec
            BY <1>1, SeqIs
      <4>3. 1 \in 1..Len(fields)
            BY <4>1
      <4> QED
          BY <4>2, <4>3
    <3> QED
        BY <1>2, <3>1
  <2> QED
      BY <2>1, <2>2 DEF FieldRec
<1>3. /\ decode[depth][buf] = Grouped(values)
      /\ values \in Seq(valuesTo[depth]) /\ Len(values) = Len(sent)
      BY <1>1, <1>2, DecodesTo
<1>4. decode[depth][buf] # Failed
      BY <1>3, GroupedDecodes
<1>5. values = [k \in DOMAIN fields |-> Value(fields[k], depth, decode[depth - 1])]
      BY DEF ValuesOf
<1> HIDE DEF fields
<1>6. DOMAIN fields = 1..Len(sent) /\ \A k \in 1..Len(sent) : sent[k] \in Sent
      BY <1>1, SeqIs
<1>7. ASSUME NEW k \in 1..Len(sent)
      PROVE  /\ values[k].num = sent[k].num
             /\ sent[k].is = "int" => values[k].is = "int" /\ values[k].int = sent[k].int
             /\ sent[k].is = "bytes" =>
                  /\ values[k].bytes = sent[k].bytes
                  /\ IF depth > 0 /\ ValidMessage(sent[k].bytes)
                     THEN /\ values[k].is = "dict"
                          /\ values[k].tree = decode[depth - 1][sent[k].bytes]
                     ELSE values[k].is \in {"str", "bytes"}
  <2> DEFINE f == fields[k]
             v == values[k]
             s == sent[k]
  <2>1. v = Value(f, depth, decode[depth - 1]) /\ ReadAs(s, f)
        BY <1>1, <1>5, <1>6
  <2> HIDE DEF f, v, s
  <2>2. f.num = s.num /\ v.num = f.num
        BY <2>1 DEF ReadAs, Value
  <2>3. CASE s.is = "int"
        BY <2>1, <2>2, <2>3 DEF ReadAs, Value, v, s
  <2>4. CASE s.is = "bytes"
    <3>1. f.is = "bytes" /\ f.bytes = s.bytes /\ v.bytes = f.bytes
          BY <2>1, <2>4 DEF ReadAs, Value
    <3>2. Nested(f, depth) <=> depth > 0 /\ ValidMessage(s.bytes)
          BY <3>1 DEF Nested
    <3>3. CASE Nested(f, depth)
      <4>1. v.is = "dict" /\ v.tree = decode[depth - 1][s.bytes]
            BY <2>1, <3>1, <3>3 DEF Value
      <4> QED
          BY <2>2, <2>4, <3>1, <3>2, <3>3, <4>1 DEF v, s
    <3>4. CASE ~Nested(f, depth)
      <4>1. v.is \in {"str", "bytes"}
            BY <2>1, <3>1, <3>4 DEF Value
      <4> QED
          BY <2>2, <2>4, <3>1, <3>2, <3>4, <4>1 DEF v, s
    <3> QED
        BY <3>3, <3>4
  <2> QED
      BY <1>6, <2>3, <2>4 DEF Sent, s
<1> QED
    BY <1>1, <1>2, <1>3, <1>4, <1>7 DEF fields

\* A value of a message as its field was sent.
Sees(v, f, depth) ==
    /\ f.is = "int" => v.is = "int" /\ v.int = f.int
    /\ f.is = "bytes" =>
         /\ v.bytes = f.bytes
         /\ IF depth > 0 /\ ValidMessage(f.bytes)
            THEN v.is = "dict" /\ v.tree = decode[depth - 1][f.bytes]
            ELSE v.is \in {"str", "bytes"}

\* The only value that has a number, or none.
LEMMA ReadOne ==
    ASSUME NEW depth \in 0..MaxDepth, NEW sent, sent \in Seq(Sent), NEW num,
           NEW k \in Nat, \A i \in 1..Len(sent) : sent[i].num = num <=> i = k,
           NEW vals, vals = ValuesAt(decode[depth][EncodeFields(sent)], num)
    PROVE  /\ k \notin 1..Len(sent) => vals = <<>>
           /\ k \in 1..Len(sent) => \E v : vals = <<v>> /\ Sees(v, sent[k], depth)
<1> DEFINE buf == EncodeFields(sent)
           values == ValuesOf(buf, depth)
<1>1. /\ decode[depth][buf] = Grouped(values)
      /\ values \in Seq(valuesTo[depth]) /\ Len(values) = Len(sent)
      /\ \A j \in 1..Len(sent) :
           /\ values[j].num = sent[j].num
           /\ sent[j].is = "int" => values[j].is = "int" /\ values[j].int = sent[j].int
           /\ sent[j].is = "bytes" =>
                /\ values[j].bytes = sent[j].bytes
                /\ IF depth > 0 /\ ValidMessage(sent[j].bytes)
                   THEN /\ values[j].is = "dict"
                        /\ values[j].tree = decode[depth - 1][sent[j].bytes]
                   ELSE values[j].is \in {"str", "bytes"}
      BY ReadAt
<1> HIDE DEF values
<1>2. vals = IF k \in 1..Len(sent) THEN <<values[k]>> ELSE <<>>
  <2>1. \A i \in 1..Len(values) : values[i].num = num <=> i = k
        BY <1>1
  <2>2. ValuesAt(Grouped(values), num) = IF k \in 1..Len(values) THEN <<values[k]>> ELSE <<>>
        BY <1>1, <2>1, OneAt
  <2> QED
      BY <1>1, <2>2
<1>3. k \in 1..Len(sent) => Sees(values[k], sent[k], depth)
      BY <1>1 DEF Sees
<1> QED
    BY <1>2, <1>3

\* The trees of one value, and of none.
LEMMA TreesOne ==
    /\ Trees(<<>>) = <<>>
    /\ \A v : Trees(<<v>>) = IF v.is = "dict" THEN <<v.tree>> ELSE <<>>
    /\ \A v : First(<<v>>) = <<v>> /\ <<v>>[1] = v /\ ToSet(<<v>>) = {v}
    /\ First(<<>>) = <<>> /\ ToSet(<<>>) = {}
<1>1. Trees(<<>>) = <<>>
  <2>1. [i \in DOMAIN <<>> |-> IF <<>>[i].is = "dict" THEN <<(<<>>[i]).tree>> ELSE <<>>] = <<>>
        OBVIOUS
  <2> QED
      BY <2>1, FlattenNone DEF Trees
<1>2. ASSUME NEW v PROVE Trees(<<v>>) = IF v.is = "dict" THEN <<v.tree>> ELSE <<>>
  <2> DEFINE x == IF v.is = "dict" THEN <<v.tree>> ELSE <<>>
  <2>1. x \in Seq({v.tree})
    <3>1. v.tree \in {v.tree} /\ \A t \in {v.tree} : <<t>> \in Seq({v.tree})
          OBVIOUS
    <3>2. <<>> \in Seq({v.tree})
          OBVIOUS
    <3> QED
        BY <3>1, <3>2
  <2>2. [i \in DOMAIN <<v>> |-> IF <<v>>[i].is = "dict" THEN <<(<<v>>[i]).tree>> ELSE <<>>]
           = [i \in 1..1 |-> x]
        OBVIOUS
  <2> HIDE DEF x
  <2>3. [i \in 1..1 |-> x] = <<x>>
        OBVIOUS
  <2>4. Trees(<<v>>) = FlattenSeq(<<x>>)
        BY <2>2, <2>3 DEF Trees
  <2> QED
      BY <2>1, <2>4, FlattenOne DEF x
<1>3. ASSUME NEW v PROVE First(<<v>>) = <<v>> /\ <<v>>[1] = v /\ ToSet(<<v>>) = {v}
  <2>1. <<v>> \in Seq({v}) /\ Len(<<v>>) = 1 /\ <<v>>[1] = v /\ DOMAIN <<v>> = {1}
        OBVIOUS
  <2>2. SubSeq(<<v>>, 1, 1) = [i \in 1..1 |-> <<v>>[i]]
        BY <2>1, SubSeqProperties
  <2>3. [i \in 1..1 |-> <<v>>[i]] = <<v>>
        OBVIOUS
  <2>4. First(<<v>>) = <<v>>
        BY <2>2, <2>3 DEF First
  <2>5. ToSet(<<v>>) = {v}
        BY <2>1 DEF ToSet
  <2> QED
      BY <2>1, <2>4, <2>5
<1>4. First(<<>>) = <<>> /\ ToSet(<<>>) = {}
      BY DEF First, ToSet
<1> QED
    BY <1>1, <1>2, <1>3, <1>4

\* Within one tree, where a number has one value at most.
LEMMA WithinOne ==
    ASSUME NEW tree, NEW num, NEW v, ValuesAt(tree, num) = <<v>>, v.is = "dict"
    PROVE  Within(<<tree>>, num) = <<v.tree>> /\ WithinFirst(<<tree>>, num) = <<v.tree>>
<1> DEFINE x == <<v.tree>>
<1>1. /\ Trees(ValuesAt(tree, num)) = x /\ Trees(First(ValuesAt(tree, num))) = x
      BY TreesOne
<1>2. x \in Seq({v.tree})
      OBVIOUS
<1> HIDE DEF x
<1>3. FlattenSeq(<<x>>) = x
      BY <1>2, FlattenOne
<1>4. [i \in DOMAIN <<tree>> |-> Trees(ValuesAt(<<tree>>[i], num))] = <<x>>
      BY <1>1
<1>5. [i \in DOMAIN <<tree>> |-> Trees(First(ValuesAt(<<tree>>[i], num)))] = <<x>>
      BY <1>1
<1> QED
    BY <1>3, <1>4, <1>5 DEF Within, WithinFirst, x

\* A message in a field of its own is what is nested there.
LEMMA Down ==
    ASSUME NEW depth \in 0..MaxDepth, depth > 0, NEW sent, sent \in Seq(Sent),
           NEW k \in 1..Len(sent), sent[k].is = "bytes", ValidMessage(sent[k].bytes),
           \A i \in 1..Len(sent) : sent[i].num = sent[k].num <=> i = k,
           NEW tree, tree = decode[depth][EncodeFields(sent)], NEW num, num = sent[k].num
    PROVE  /\ Within(<<tree>>, num) = <<decode[depth - 1][sent[k].bytes]>>
           /\ WithinFirst(<<tree>>, num) = <<decode[depth - 1][sent[k].bytes]>>
<1>1. k \in Nat
      BY SeqIs
<1>2. \E v : /\ ValuesAt(tree, num) = <<v>>
             /\ v.is = "dict" /\ v.tree = decode[depth - 1][sent[k].bytes]
  <2>1. sent[k].num = num /\ \A i \in 1..Len(sent) : sent[i].num = num <=> i = k
        OBVIOUS
  <2>2. \E v : ValuesAt(tree, num) = <<v>> /\ Sees(v, sent[k], depth)
        BY <1>1, <2>1, ReadOne
  <2> QED
      BY <2>2 DEF Sees
<1> QED
    BY <1>2, WithinOne

\* Two short forms of a field are fields.
LEMMA FieldsAreSent ==
    /\ \A num, v \in Nat : /\ IntField(num, v) \in Sent /\ IntField(num, v).num = num
                           /\ IntField(num, v).is = "int" /\ IntField(num, v).int = v
    /\ \A num \in Nat : \A b \in Buffers :
          /\ BytesField(num, b) \in Sent /\ BytesField(num, b).num = num
          /\ BytesField(num, b).is = "bytes" /\ BytesField(num, b).bytes = b
<1>1. <<>> \in Buffers
      BY DEF Buffers
<1> QED
    BY <1>1 DEF IntField, BytesField, Sent

\* What is wrapped is a message, and one level down is what was wrapped.
LEMMA WrappedIs ==
    ASSUME NEW num \in Nat, NEW b \in Buffers
    PROVE  /\ Wrapped(num, b) \in Buffers /\ ValidMessage(Wrapped(num, b))
           /\ \A depth \in 0..MaxDepth :
                decode[depth][Wrapped(num, b)] # Failed
           /\ \A depth \in 0..MaxDepth : depth > 0 /\ ValidMessage(b) =>
                /\ Within(<<decode[depth][Wrapped(num, b)]>>, num) = <<decode[depth - 1][b]>>
                /\ WithinFirst(<<decode[depth][Wrapped(num, b)]>>, num) = <<decode[depth - 1][b]>>
<1> DEFINE f == BytesField(num, b)
           sent == <<f>>
<1>1. f \in Sent /\ f.num = num /\ f.is = "bytes" /\ f.bytes = b
      BY FieldsAreSent
<1> HIDE DEF f
<1>2. sent \in Seq(Sent) /\ sent # <<>> /\ Len(sent) = 1 /\ sent[1] = f
      BY <1>1
<1>3. Wrapped(num, b) = EncodeFields(sent)
      BY DEF Wrapped, f
<1> HIDE DEF sent
<1>4. Wrapped(num, b) \in Buffers /\ ValidMessage(Wrapped(num, b))
      BY <1>2, <1>3, EncodesBuffer, FieldsAreRead
<1>5. ASSUME NEW depth \in 0..MaxDepth PROVE decode[depth][Wrapped(num, b)] # Failed
      BY <1>2, <1>3, ReadAt
<1>6. ASSUME NEW depth \in 0..MaxDepth, depth > 0, ValidMessage(b)
      PROVE  /\ Within(<<decode[depth][Wrapped(num, b)]>>, num) = <<decode[depth - 1][b]>>
             /\ WithinFirst(<<decode[depth][Wrapped(num, b)]>>, num) = <<decode[depth - 1][b]>>
  <2>1. /\ 1 \in 1..Len(sent) /\ sent[1].is = "bytes" /\ sent[1].num = num
        /\ sent[1].bytes = b
        /\ \A i \in 1..Len(sent) : sent[i].num = sent[1].num <=> i = 1
        BY <1>1, <1>2
  <2> DEFINE tree == decode[depth][EncodeFields(sent)]
  <2>2. tree = decode[depth][EncodeFields(sent)]
        OBVIOUS
  <2> HIDE DEF tree
  <2>3. /\ Within(<<tree>>, num) = <<decode[depth - 1][sent[1].bytes]>>
        /\ WithinFirst(<<tree>>, num) = <<decode[depth - 1][sent[1].bytes]>>
        BY <1>2, <1>6, <2>1, <2>2, Down
  <2> QED
      BY <1>3, <2>1, <2>3 DEF tree
<1> QED
    BY <1>4, <1>5, <1>6


-----------------------------------------------------------------------------
(* A message on its way.                                                   *)

\* The key of a notice is no message: its first byte is the tag of a group.
LEMMA VisibleIs == Visible \in Buffers /\ ~ValidMessage(Visible)
<1>1. /\ Visible \in Buffers /\ Len(Visible) = 2 /\ End(Visible) = 3 /\ DOMAIN Visible = 1..2
      /\ Visible[1] = 115
      BY DEF Visible, Buffers, End
<1> DEFINE vs == Varints(Visible)
           tag == [v |-> 115, next |-> 2]
<1>2. vs[1] = tag
  <2>1. vs[1] = IF 1 = End(Visible) THEN Cut
                ELSE IF Visible[1] < 128 THEN [v |-> Visible[1], next |-> 1 + 1]
                ELSE IF vs[1 + 1] = Cut THEN Cut
                ELSE [v |-> Visible[1] - 128 + 128 * vs[1 + 1].v, next |-> vs[1 + 1].next]
    <3>1. 1 \in 1..End(Visible)
          BY <1>1
    <3> QED
        BY <1>1, <3>1, VarintsAre
  <2> HIDE DEF vs
  <2> QED
      BY <1>1, <2>1
<1>3. ReadVarint(Visible, 1) = tag
  <2> HIDE DEF tag
  <2> QED
      BY <1>1, <1>2 DEF ReadVarint
<1>4. tag # Cut /\ tag.v % 8 = 3
  <2>1. tag.v = 115 /\ Cut.v = 0
        BY DEF Cut
  <2> QED
      BY <2>1
<1> HIDE DEF tag
<1>5. Field(Visible, 1).is = "group"
      BY <1>3, <1>4 DEF Field
<1>6. ~ValidFrom(Visible)[1]
  <2>1. 1 \in 1..End(Visible) /\ 1 # End(Visible)
        BY <1>1
  <2> QED
      BY <1>1, <1>5, <2>1, ValidFromIs
<1> QED
    BY <1>1, <1>6 DEF ValidMessage

\* The fields of a message.
Inner(id, ts, content, notice) ==
    <<IntField(3, id), IntField(4, ts), BytesField(8, content)>>
    \o IF notice THEN <<BytesField(9, Wrapped(1, Visible))>> ELSE <<>>

\* They are fields that encode_fields can write, and a message is what it writes.
LEMMA InnerIs ==
    ASSUME NEW id \in Nat, NEW ts \in Nat, NEW content \in Buffers, NEW notice \in BOOLEAN,
           NEW sent, sent = Inner(id, ts, content, notice)
    PROVE  /\ sent \in Seq(Sent) /\ sent # <<>>
           /\ Len(sent) = IF notice THEN 4 ELSE 3
           /\ sent[1].num = 3 /\ sent[1].is = "int" /\ sent[1].int = id
           /\ sent[2].num = 4 /\ sent[2].is = "int" /\ sent[2].int = ts
           /\ sent[3].num = 8 /\ sent[3].is = "bytes" /\ sent[3].bytes = content
           /\ notice => /\ sent[4].num = 9 /\ sent[4].is = "bytes"
                        /\ sent[4].bytes = Wrapped(1, Visible)
           /\ Message(id, ts, content, notice) = EncodeFields(sent)
<1> DEFINE a == IntField(3, id)
           b == IntField(4, ts)
           c == BytesField(8, content)
           d == BytesField(9, Wrapped(1, Visible))
<1>1. /\ a \in Sent /\ a.num = 3 /\ a.is = "int" /\ a.int = id
      /\ b \in Sent /\ b.num = 4 /\ b.is = "int" /\ b.int = ts
      /\ c \in Sent /\ c.num = 8 /\ c.is = "bytes" /\ c.bytes = content
      BY FieldsAreSent
<1>2. d \in Sent /\ d.num = 9 /\ d.is = "bytes" /\ d.bytes = Wrapped(1, Visible)
  <2>1. Wrapped(1, Visible) \in Buffers
        BY VisibleIs, WrappedIs
  <2> QED
      BY <2>1, FieldsAreSent
<1>3. sent = <<a, b, c>> \o IF notice THEN <<d>> ELSE <<>>
      BY DEF Inner
<1>4. Message(id, ts, content, notice) = EncodeFields(sent)
      BY <1>3 DEF Message
<1> HIDE DEF a, b, c, d
<1>5. CASE notice
  <2> DEFINE p == <<a, b, c>>
             q == <<d>>
  <2>1. sent = p \o q
        BY <1>3, <1>5
  <2>2. /\ p \in Seq(Sent) /\ Len(p) = 3 /\ p[1] = a /\ p[2] = b /\ p[3] = c
        /\ q \in Seq(Sent) /\ Len(q) = 1 /\ q[1] = d
        BY <1>1, <1>2
  <2> HIDE DEF p, q
  <2>3. /\ sent \in Seq(Sent) /\ Len(sent) = Len(p) + Len(q)
        /\ \A i \in 1..Len(p) + Len(q) : sent[i] = IF i <= Len(p) THEN p[i] ELSE q[i - Len(p)]
    <3>1. p \in Seq(Sent) /\ q \in Seq(Sent)
          BY <2>2
    <3>2. /\ p \o q \in Seq(Sent) /\ Len(p \o q) = Len(p) + Len(q)
          /\ \A i \in 1..Len(p) + Len(q) :
                (p \o q)[i] = IF i <= Len(p) THEN p[i] ELSE q[i - Len(p)]
          BY <3>1, ConcatProperties
    <3> QED
        BY <2>1, <3>2
  <2>4. Len(sent) = 4 /\ sent[1] = a /\ sent[2] = b /\ sent[3] = c /\ sent[4] = d
        BY <2>2, <2>3
  <2>5. sent # <<>>
        BY <2>4
  <2> QED
      BY <1>1, <1>2, <1>4, <1>5, <2>3, <2>4, <2>5
<1>6. CASE ~notice
  <2>1. sent = <<a, b, c>>
        BY <1>3, <1>6
  <2>2. /\ sent \in Seq(Sent) /\ sent # <<>> /\ Len(sent) = 3
        /\ sent[1] = a /\ sent[2] = b /\ sent[3] = c
        BY <1>1, <2>1
  <2> QED
      BY <1>1, <1>4, <1>6, <2>2
<1> QED
    BY <1>5, <1>6

-----------------------------------------------------------------------------
(* Texts.  decode("utf-8", "replace") leaves a text in UTF-8 as it is.     *)

\* The place behind what Reach counts, which is never behind the end.
Behind(b, i) == i + Reach(b, i)

\* A character has four bytes at most, all of them in the buffer.
LEMMA ReachIs ==
    ASSUME NEW b \in Buffers, NEW i \in 1..Len(b)
    PROVE  Reach(b, i) \in 1..4 /\ Behind(b, i) \in i + 1..End(b)
<1> DEFINE S == {1} \cup {k \in 2..4 : k <= Size(b[i]) /\ Begins(b, i, k)}
<1>1. Len(b) \in Nat /\ End(b) = Len(b) + 1
      BY ByteAt DEF End
<1>2. S \subseteq 0..4 /\ S # {} /\ 4 \in Nat
      OBVIOUS
<1>3. \A k \in S : k \in 1..4 /\ i + k <= End(b)
      BY <1>1 DEF Begins
<1>4. Reach(b, i) = Max(S)
      BY DEF Reach
<1> HIDE DEF S
<1>5. Max(S) \in S
      BY <1>2, MaxOf
<1> QED
    BY <1>1, <1>3, <1>4, <1>5 DEF Behind

\* What is put for the bytes from i on.
Piece(b, i) == IF Complete(b, i) THEN SubSeq(b, i, i + Reach(b, i) - 1) ELSE Replacement

\* It is made of bytes.
LEMMA PieceIs ==
    ASSUME NEW b \in Buffers, NEW i \in 1..Len(b) PROVE Piece(b, i) \in Buffers
<1> DEFINE k == i + Reach(b, i) - 1
<1>1. i \in Int /\ k \in Int /\ \A j \in i..k : j \in 1..Len(b)
      BY ByteAt, ReachIs DEF End, Behind
<1> HIDE DEF k
<1>2. \A j \in i..k : b[j] \in 0..255
      BY <1>1, ByteAt
<1>3. SubSeq(b, i, k) \in Buffers
      BY <1>1, <1>2, SubSeqProperties DEF Buffers
<1>4. Replacement \in Buffers
      BY DEF Replacement, Buffers
<1> QED
    BY <1>3, <1>4 DEF Piece, k

\* The distance to the end of a buffer, and a place behind each place.
LEMMA EndIsNearer ==
    ASSUME NEW b \in Buffers, NEW D, D = 1..End(b), NEW rank, NEW prev,
           rank = [i \in D |-> End(b) - i],
           prev = [i \in D |-> IF i = End(b) THEN i ELSE Behind(b, i)]
    PROVE  /\ End(b) \in D /\ 1 \in D
           /\ rank \in [D -> Nat] /\ prev \in [D -> D]
           /\ \A i \in D : rank[i] = 0 <=> i = End(b)
           /\ \A i \in D : i # End(b) => /\ i \in 1..Len(b) /\ prev[i] = Behind(b, i)
                                         /\ rank[prev[i]] < rank[i]
<1>1. Len(b) \in Nat /\ End(b) = Len(b) + 1
      BY ByteAt DEF End
<1>2. \A i \in D : i # End(b) => i \in 1..Len(b) /\ Behind(b, i) \in i + 1..End(b)
  <2> SUFFICES ASSUME NEW i \in D, i # End(b)
               PROVE  i \in 1..Len(b) /\ Behind(b, i) \in i + 1..End(b)
      OBVIOUS
  <2>1. i \in 1..Len(b)
        BY <1>1
  <2> QED
      BY <2>1, ReachIs
<1>3. \A i \in D : i # End(b) => Behind(b, i) \in D
      BY <1>1, <1>2
<1>4. \A i \in D : rank[i] = End(b) - i
      OBVIOUS
<1> QED
    BY <1>1, <1>2, <1>3, <1>4

\* The text from a place on.
LEMMA Utf8FromIs ==
    ASSUME NEW b \in Buffers
    PROVE  \A i \in 1..End(b) :
              Utf8From(b)[i] = IF i = End(b) THEN <<>>
                               ELSE Piece(b, i) \o Utf8From(b)[Behind(b, i)]
<1> DEFINE D == 1..End(b)
           Body(r, i) == IF i = End(b) THEN <<>> ELSE Piece(b, i) \o r[Behind(b, i)]
           rank == [i \in D |-> End(b) - i]
           prev == [i \in D |-> IF i = End(b) THEN i ELSE Behind(b, i)]
           base == [i \in D |-> <<>>]
           step == [i \in D |-> [x \in Buffers |->
                       IF i = End(b) THEN <<>> ELSE Piece(b, i) \o x]]
<1>1. /\ rank \in [D -> Nat] /\ prev \in [D -> D]
      /\ \A i \in D : rank[i] = 0 <=> i = End(b)
      /\ \A i \in D : i # End(b) => /\ i \in 1..Len(b) /\ prev[i] = Behind(b, i)
                                    /\ rank[prev[i]] < rank[i]
      BY EndIsNearer
<1>2. base \in [D -> Buffers]
      BY DEF Buffers
<1>3. step \in [D -> [Buffers -> Buffers]]
  <2> SUFFICES ASSUME NEW i \in D, NEW x \in Buffers
               PROVE  (IF i = End(b) THEN <<>> ELSE Piece(b, i) \o x) \in Buffers
      OBVIOUS
  <2>1. CASE i = End(b)
        BY <2>1 DEF Buffers
  <2>2. CASE i # End(b)
    <3>1. Piece(b, i) \in Buffers
          BY <1>1, <2>2, PieceIs
    <3> QED
        BY <2>2, <3>1, ConcatProperties DEF Buffers
  <2> QED
      BY <2>1, <2>2
<1>4. Descends(D, Buffers, rank, prev, base, step)
  <2> HIDE DEF D, rank, prev, base, step
  <2> QED
      BY <1>1, <1>2, <1>3 DEF Descends
<1>5. PICK r \in [D -> Buffers] : \A i \in D :
         r[i] = IF rank[i] = 0 THEN base[i] ELSE step[i][r[prev[i]]]
  <2> HIDE DEF D, rank, prev, base, step
  <2> QED
      BY <1>4, Recursion
<1>6. \A i \in D : r[i] = Body(r, i)
  <2> SUFFICES ASSUME NEW i \in D PROVE r[i] = Body(r, i)
      OBVIOUS
  <2>1. CASE i = End(b)
    <3>1. r[i] = base[i]
      <4> HIDE DEF D, rank, prev, base, step
      <4> QED
          BY <1>1, <1>5, <2>1
    <3> QED
        BY <2>1, <3>1
  <2>2. CASE i # End(b)
    <3>1. prev[i] = Behind(b, i) /\ r[prev[i]] \in Buffers /\ r[i] = step[i][r[prev[i]]]
      <4> HIDE DEF D, rank, prev, base, step
      <4> QED
          BY <1>1, <1>5, <2>2
    <3> HIDE DEF prev
    <3>2. r[i] = Piece(b, i) \o r[prev[i]]
          BY <2>2, <3>1
    <3> QED
        BY <2>2, <3>1, <3>2
  <2> QED
      BY <2>1, <2>2
<1>7. r = [i \in D |-> Body(r, i)]
  <2> HIDE DEF Body, D
  <2> QED
      BY <1>6
<1>8. Utf8From(b) = [i \in D |-> Body(Utf8From(b), i)]
      BY <1>7 DEF Utf8From, Piece, Behind
<1> HIDE DEF Body
<1>9. \A i \in D : Utf8From(b)[i] = Body(Utf8From(b), i)
      BY <1>8
<1> QED
    BY <1>9 DEF Body

\* Whether there are whole characters only, from a place on.
LEMMA FormedFromIs ==
    ASSUME NEW b \in Buffers
    PROVE  \A i \in 1..End(b) :
              FormedFrom(b)[i] = (i = End(b) \/ (Complete(b, i) /\ FormedFrom(b)[Behind(b, i)]))
<1> DEFINE D == 1..End(b)
           Body(r, i) == i = End(b) \/ (Complete(b, i) /\ r[Behind(b, i)])
           rank == [i \in D |-> End(b) - i]
           prev == [i \in D |-> IF i = End(b) THEN i ELSE Behind(b, i)]
           base == [i \in D |-> TRUE]
           step == [i \in D |-> [x \in BOOLEAN |-> Complete(b, i) /\ x]]
<1>1. /\ rank \in [D -> Nat] /\ prev \in [D -> D]
      /\ \A i \in D : rank[i] = 0 <=> i = End(b)
      /\ \A i \in D : i # End(b) => /\ i \in 1..Len(b) /\ prev[i] = Behind(b, i)
                                    /\ rank[prev[i]] < rank[i]
      BY EndIsNearer
<1>2. base \in [D -> BOOLEAN] /\ step \in [D -> [BOOLEAN -> BOOLEAN]]
      OBVIOUS
<1>3. Descends(D, BOOLEAN, rank, prev, base, step)
  <2> HIDE DEF D, rank, prev, base, step
  <2> QED
      BY <1>1, <1>2 DEF Descends
<1>4. PICK r \in [D -> BOOLEAN] : \A i \in D :
         r[i] = IF rank[i] = 0 THEN base[i] ELSE step[i][r[prev[i]]]
  <2> HIDE DEF D, rank, prev, base, step
  <2> QED
      BY <1>3, Recursion
<1>5. \A i \in D : r[i] = Body(r, i)
  <2> SUFFICES ASSUME NEW i \in D PROVE r[i] = Body(r, i)
      OBVIOUS
  <2>1. CASE i = End(b)
    <3>1. r[i] = base[i]
      <4> HIDE DEF D, rank, prev, base, step
      <4> QED
          BY <1>1, <1>4, <2>1
    <3> QED
        BY <2>1, <3>1
  <2>2. CASE i # End(b)
    <3>1. prev[i] = Behind(b, i) /\ r[prev[i]] \in BOOLEAN /\ r[i] = step[i][r[prev[i]]]
      <4> HIDE DEF D, rank, prev, base, step
      <4> QED
          BY <1>1, <1>4, <2>2
    <3> HIDE DEF prev
    <3>2. r[i] = (Complete(b, i) /\ r[prev[i]])
          BY <3>1
    <3> QED
        BY <2>2, <3>1, <3>2
  <2> QED
      BY <2>1, <2>2
<1>6. r = [i \in D |-> Body(r, i)]
  <2> HIDE DEF Body, D
  <2> QED
      BY <1>5
<1>7. FormedFrom(b) = [i \in D |-> Body(FormedFrom(b), i)]
      BY <1>6 DEF FormedFrom, Behind
<1> HIDE DEF Body
<1>8. \A i \in D : FormedFrom(b)[i] = Body(FormedFrom(b), i)
      BY <1>7
<1> QED
    BY <1>8 DEF Body

\* The rest of a buffer from a place on.
Rest(b, i) == SubSeq(b, i, Len(b))

\* A slice and the rest behind it are the rest.
LEMMA RestIs ==
    ASSUME NEW b \in Buffers, NEW i \in 1..Len(b), NEW k \in i + 1..End(b)
    PROVE  SubSeq(b, i, k - 1) \o Rest(b, k) = Rest(b, i)
<1> DEFINE n == Len(b)
           s == SubSeq(b, i, k - 1)
           t == Rest(b, k)
           u == Rest(b, i)
<1>1. n \in Nat /\ End(b) = n + 1 /\ \A j \in 1..n : b[j] \in 0..255
      BY ByteAt DEF End
<1> HIDE DEF n
<1>2. i \in Int /\ k - 1 \in Int /\ k \in Int /\ n \in Int /\ i <= k - 1 /\ k - 1 <= n
      BY <1>1 DEF n
<1>3. /\ \A j \in i..k - 1 : b[j] \in 0..255
      /\ \A j \in k..n : b[j] \in 0..255
      /\ \A j \in i..n : b[j] \in 0..255
  <2>1. /\ \A j \in i..k - 1 : j \in 1..n
        /\ \A j \in k..n : j \in 1..n
        /\ \A j \in i..n : j \in 1..n
        BY <1>1, <1>2 DEF n
  <2> QED
      BY <1>1, <2>1
<1>4. /\ s \in Seq(0..255) /\ Len(s) = k - i
      /\ \A j \in 1..k - i : s[j] = b[i + j - 1]
  <2>1. /\ SubSeq(b, i, k - 1) \in Seq(0..255)
        /\ Len(SubSeq(b, i, k - 1)) = IF i <= k - 1 THEN (k - 1) - i + 1 ELSE 0
        /\ \A j \in 1..(k - 1) - i + 1 : SubSeq(b, i, k - 1)[j] = b[i + j - 1]
        BY <1>2, <1>3, SubSeqProperties
  <2>2. (k - 1) - i + 1 = k - i
        BY <1>2
  <2> QED
      BY <1>2, <2>1, <2>2
<1>5. /\ t \in Seq(0..255) /\ Len(t) = n - k + 1
      /\ \A j \in 1..n - k + 1 : t[j] = b[k + j - 1]
  <2>1. /\ SubSeq(b, k, n) \in Seq(0..255)
        /\ Len(SubSeq(b, k, n)) = IF k <= n THEN n - k + 1 ELSE 0
        /\ \A j \in 1..n - k + 1 : SubSeq(b, k, n)[j] = b[k + j - 1]
        BY <1>2, <1>3, SubSeqProperties
  <2>2. t = SubSeq(b, k, n)
        BY DEF Rest, n
  <2> QED
      BY <1>2, <2>1, <2>2
<1>6. /\ u \in Seq(0..255) /\ Len(u) = n - i + 1
      /\ \A j \in 1..n - i + 1 : u[j] = b[i + j - 1]
  <2>1. /\ SubSeq(b, i, n) \in Seq(0..255)
        /\ Len(SubSeq(b, i, n)) = IF i <= n THEN n - i + 1 ELSE 0
        /\ \A j \in 1..n - i + 1 : SubSeq(b, i, n)[j] = b[i + j - 1]
        BY <1>2, <1>3, SubSeqProperties
  <2>2. u = SubSeq(b, i, n)
        BY DEF Rest, n
  <2> QED
      BY <1>2, <2>1, <2>2
<1> HIDE DEF s, t, u
<1>7. /\ s \o t \in Seq(0..255) /\ Len(s \o t) = n - i + 1
      /\ \A j \in 1..n - i + 1 : (s \o t)[j] = IF j <= k - i THEN s[j] ELSE t[j - (k - i)]
  <2>1. /\ s \o t \in Seq(0..255) /\ Len(s \o t) = Len(s) + Len(t)
        /\ \A j \in 1..Len(s) + Len(t) : (s \o t)[j] = IF j <= Len(s) THEN s[j] ELSE t[j - Len(s)]
        BY <1>4, <1>5, ConcatProperties
  <2>2. Len(s) + Len(t) = n - i + 1
        BY <1>2, <1>4, <1>5
  <2> QED
      BY <1>4, <2>1, <2>2
<1>8. \A j \in 1..n - i + 1 : (s \o t)[j] = u[j]
  <2> SUFFICES ASSUME NEW j \in 1..n - i + 1 PROVE (s \o t)[j] = u[j]
      OBVIOUS
  <2>1. CASE j <= k - i
    <3>1. j \in 1..k - i
          BY <1>2, <2>1
    <3> QED
        BY <1>4, <1>6, <1>7, <2>1, <3>1
  <2>2. CASE ~(j <= k - i)
    <3>1. j - (k - i) \in 1..n - k + 1 /\ k + (j - (k - i)) - 1 = i + j - 1
          BY <1>2, <2>2
    <3>2. (s \o t)[j] = t[j - (k - i)]
          BY <1>7, <2>2
    <3> QED
        BY <1>5, <1>6, <3>1, <3>2
  <2> QED
      BY <2>1, <2>2
<1>9. s \o t = u
      BY <1>6, <1>7, <1>8, SeqEqual
<1> QED
    BY <1>9 DEF s, t, u

\* A text in UTF-8 is decoded to itself, of whatever length and characters.
THEOREM Utf8IsKept == \A b \in Buffers : WellFormed(b) => Utf8(b) = b
<1> SUFFICES ASSUME NEW b \in Buffers PROVE WellFormed(b) => Utf8(b) = b
    OBVIOUS
<1> DEFINE D == 1..End(b)
           rank == [i \in D |-> End(b) - i]
           prev == [i \in D |-> IF i = End(b) THEN i ELSE Behind(b, i)]
           P == {i \in D : FormedFrom(b)[i] => Utf8From(b)[i] = Rest(b, i)}
<1>1. /\ End(b) \in D /\ 1 \in D
      /\ rank \in [D -> Nat] /\ prev \in [D -> D]
      /\ \A i \in D : rank[i] = 0 <=> i = End(b)
      /\ \A i \in D : i # End(b) => /\ i \in 1..Len(b) /\ prev[i] = Behind(b, i)
                                    /\ rank[prev[i]] < rank[i]
      BY EndIsNearer
<1>2. Len(b) \in Nat /\ End(b) = Len(b) + 1
      BY ByteAt DEF End
<1> HIDE DEF rank, prev
<1>3. ASSUME NEW i \in D, \A j \in D : rank[j] < rank[i] => j \in P PROVE i \in P
  <2> SUFFICES ASSUME FormedFrom(b)[i] PROVE Utf8From(b)[i] = Rest(b, i)
      OBVIOUS
  <2>1. CASE i = End(b)
    <3>1. Rest(b, i) = <<>>
          BY <1>2, <2>1, SubSeqEmpty DEF Rest
    <3> QED
        BY <2>1, <3>1, Utf8FromIs
  <2>2. CASE i # End(b)
    <3> DEFINE k == Behind(b, i)
    <3>1. i \in 1..Len(b) /\ k = prev[i] /\ k \in D /\ rank[k] < rank[i]
          BY <1>1, <2>2
    <3>2. Complete(b, i) /\ FormedFrom(b)[k]
          BY <2>2, FormedFromIs
    <3>3. Utf8From(b)[i] = Piece(b, i) \o Utf8From(b)[k]
          BY <2>2, Utf8FromIs
    <3>4. Piece(b, i) = SubSeq(b, i, k - 1)
      <4>1. Piece(b, i) = SubSeq(b, i, i + Reach(b, i) - 1)
            BY <3>2, Zenon DEF Piece
      <4>2. k - 1 = i + Reach(b, i) - 1
            BY <3>1, ReachIs DEF Behind
      <4> HIDE DEF k
      <4> QED
          BY <4>1, <4>2
    <3>5. k \in i + 1..End(b)
          BY <3>1, ReachIs
    <3> HIDE DEF k
    <3>6. Utf8From(b)[k] = Rest(b, k)
          BY <1>3, <3>1, <3>2
    <3>7. SubSeq(b, i, k - 1) \o Rest(b, k) = Rest(b, i)
          BY <3>1, <3>5, RestIs
    <3> QED
        BY <3>3, <3>4, <3>6, <3>7
  <2> QED
      BY <2>1, <2>2
<1>4. D \subseteq P
  <2> HIDE DEF D, P
  <2> QED
      BY <1>1, <1>3, RankInduction
<1>5. Rest(b, 1) = b
  <2> DEFINE s == Rest(b, 1)
  <2>1. \A j \in 1..Len(b) : b[j] \in 0..255
        BY ByteAt
  <2>2. /\ s \in Seq(0..255)
        /\ Len(s) = IF 1 <= Len(b) THEN Len(b) - 1 + 1 ELSE 0
        /\ \A j \in 1..Len(b) - 1 + 1 : s[j] = b[1 + j - 1]
        BY <1>2, <2>1, SubSeqProperties DEF Rest
  <2> HIDE DEF s
  <2>3. Len(s) = Len(b) /\ \A j \in 1..Len(b) : s[j] = b[j]
        BY <1>2, <2>2
  <2>4. s = b
        BY <2>2, <2>3, SeqEqual DEF Buffers
  <2> QED
      BY <2>4 DEF s
<1> QED
    BY <1>1, <1>4, <1>5 DEF WellFormed, Utf8

-----------------------------------------------------------------------------
(* Messages.                                                               *)

\* The text that is read is the one that was written, unless it was misread.
LEMMA ContentIs ==
    ASSUME NEW f \in Sent, f.is = "bytes", ~Misread(f.bytes), NEW v, Sees(v, f, 3)
    PROVE  Content(v) = Utf8(f.bytes)
<1>1. f.bytes \in Buffers /\ 2 \in 0..MaxDepth /\ MaxDepth - 4 = 2 /\ 3 - 1 = 2
      BY DEF Sent, MaxDepth
<1>2. CASE ValidMessage(f.bytes)
  <2> DEFINE tree == decode[2][f.bytes]
  <2>1. v.is = "dict" /\ v.tree = tree
        BY <1>1, <1>2 DEF Sees
  <2>2. Fields(f.bytes) # Failed
        BY <1>1, <1>2, ValidDecodes
  <2>3. canonical[2][f.bytes]
        BY <1>1, <1>2 DEF Misread
  <2>4. canonical[2][f.bytes] = Regular(f.bytes, 2)
        BY <1>1, CanonicalIs DEF Regular
  <2>5. encode[2][tree] = f.bytes
        BY <1>1, <2>2, <2>3, <2>4, WritesAsItWas
  <2>6. tree \in TreesOf(valuesTo[2])
        BY <1>1, <2>2, DecodesTo
  <2> HIDE DEF tree
  <2>7. EncodeTree(tree) = encode[2][tree]
        BY <1>1, <2>6, EncodesDeeper
  <2> QED
      BY <2>1, <2>5, <2>7 DEF Content
<1>3. CASE ~ValidMessage(f.bytes)
  <2>1. v.is \in {"str", "bytes"} /\ v.bytes = f.bytes
        BY <1>3 DEF Sees
  <2> QED
      BY <2>1 DEF Content
<1> QED
    BY <1>2, <1>3

\* A message with the key of a notice is one.
LEMMA NoticeIs ==
    ASSUME NEW f \in Sent, f.is = "bytes", f.bytes = Wrapped(1, Visible),
           NEW v, Sees(v, f, 3), NEW t, ValuesAt(t, 9) = <<v>>
    PROVE  IsNotice(t)
<1> DEFINE key == BytesField(1, Visible)
           sent == <<key>>
           e == decode[2][EncodeFields(sent)]
<1>1. key \in Sent /\ key.num = 1 /\ key.is = "bytes" /\ key.bytes = Visible
      BY VisibleIs, FieldsAreSent
<1>2. Wrapped(1, Visible) = EncodeFields(sent)
      BY DEF Wrapped
<1>3. ValidMessage(Wrapped(1, Visible))
      BY VisibleIs, WrappedIs
<1> HIDE DEF key
<1>4. sent \in Seq(Sent) /\ Len(sent) = 1 /\ sent[1] = key
      BY <1>1
<1> HIDE DEF sent
<1>5. v.is = "dict" /\ v.tree = e
  <2>1. 3 > 0 /\ 3 - 1 = 2
        OBVIOUS
  <2> QED
      BY <1>2, <1>3, <2>1 DEF Sees
<1>6. 1 \in Nat /\ 2 \in 0..MaxDepth /\ 1 \in 1..Len(sent)
      /\ \A i \in 1..Len(sent) : sent[i].num = 1 <=> i = 1
      BY <1>1, <1>4 DEF MaxDepth
<1>7. PICK k : ValuesAt(e, 1) = <<k>> /\ Sees(k, sent[1], 2)
      BY <1>4, <1>6, ReadOne
<1> HIDE DEF e
<1>8. k.bytes = Visible /\ k.is \in {"str", "bytes"}
      BY <1>1, <1>4, <1>7, VisibleIs DEF Sees
<1>9. ToSet(Trees(ValuesAt(t, 9))) = {e} /\ ToSet(First(ValuesAt(e, 1))) = {k}
      BY <1>5, <1>7, TreesOne
<1> QED
    BY <1>8, <1>9 DEF IsNotice


\* What a message is, for who reads it.
Got(id, ts, content, notice) ==
    IF Mentions(Utf8(content), CommandType) THEN <<>>
    ELSE <<[id |-> id, ts |-> ts \div 1000, content |-> Utf8(content), notice |-> notice]>>

\* _messages_from: an inner message is read as it was written.
LEMMA InnerIsRead ==
    ASSUME NEW id \in Nat, NEW ts \in Nat, NEW content \in Buffers, NEW notice \in BOOLEAN,
           ~Misread(content)
    PROVE  /\ Message(id, ts, content, notice) \in Buffers
           /\ ValidMessage(Message(id, ts, content, notice))
           /\ FromInner(decode[3][Message(id, ts, content, notice)])
                = Got(id, ts, content, notice)
<1> DEFINE sent == Inner(id, ts, content, notice)
           m == Message(id, ts, content, notice)
           t == decode[3][m]
<1>1. /\ sent \in Seq(Sent) /\ sent # <<>>
      /\ Len(sent) = IF notice THEN 4 ELSE 3
      /\ sent[1].num = 3 /\ sent[1].is = "int" /\ sent[1].int = id
      /\ sent[2].num = 4 /\ sent[2].is = "int" /\ sent[2].int = ts
      /\ sent[3].num = 8 /\ sent[3].is = "bytes" /\ sent[3].bytes = content
      /\ notice => /\ sent[4].num = 9 /\ sent[4].is = "bytes"
                   /\ sent[4].bytes = Wrapped(1, Visible)
      /\ m = EncodeFields(sent)
      BY InnerIs
<1> HIDE DEF sent, m
<1>2. m \in Buffers /\ ValidMessage(m)
      BY <1>1, EncodesBuffer, FieldsAreRead
<1>3. t = decode[3][EncodeFields(sent)] /\ 3 \in 0..MaxDepth
      BY <1>1 DEF MaxDepth
<1> HIDE DEF t
<1>4. \A i \in 1..Len(sent) : i = 1 \/ i = 2 \/ i = 3 \/ (i = 4 /\ notice)
      BY <1>1
<1>5. \A i \in 1..Len(sent) : /\ sent[i].num = 3 <=> i = 1
                              /\ sent[i].num = 4 <=> i = 2
                              /\ sent[i].num = 8 <=> i = 3
                              /\ sent[i].num = 9 <=> i = 4
      BY <1>1, <1>4
<1>6. 1 \in 1..Len(sent) /\ 2 \in 1..Len(sent) /\ 3 \in 1..Len(sent)
      /\ (4 \in 1..Len(sent) <=> notice)
      BY <1>1
<1> DEFINE Only(num, k) == \A i \in 1..Len(sent) : sent[i].num = num <=> i = k
<1>7. ASSUME NEW num, NEW k \in 1..Len(sent), Only(num, k)
      PROVE  \E v : ValuesAt(t, num) = <<v>> /\ Sees(v, sent[k], 3)
  <2> DEFINE vals == ValuesAt(t, num)
  <2>1. vals = ValuesAt(decode[3][EncodeFields(sent)], num) /\ k \in Nat
        BY <1>3
  <2> HIDE DEF vals
  <2>2. \E v : vals = <<v>> /\ Sees(v, sent[k], 3)
        BY <1>1, <1>3, <1>7, <2>1, ReadOne
  <2> QED
      BY <2>2 DEF vals
<1>8. Only(3, 1) /\ Only(4, 2) /\ Only(8, 3)
      BY <1>5
<1> HIDE DEF Only
<1>9. PICK v1 : ValuesAt(t, 3) = <<v1>> /\ Sees(v1, sent[1], 3)
      BY <1>6, <1>7, <1>8
<1>10. PICK v2 : ValuesAt(t, 4) = <<v2>> /\ Sees(v2, sent[2], 3)
       BY <1>6, <1>7, <1>8
<1>11. PICK v3 : ValuesAt(t, 8) = <<v3>> /\ Sees(v3, sent[3], 3)
       BY <1>6, <1>7, <1>8
<1>12. Content(v3) = Utf8(content)
  <2>1. sent[3] \in Sent
        BY <1>1, <1>6, SeqIs
  <2> QED
      BY <1>1, <1>11, <2>1, ContentIs
<1>13. v1.int = id /\ v2.is = "int" /\ v2.int = ts
       BY <1>1, <1>9, <1>10 DEF Sees
<1>14. IsNotice(t) = notice
  <2>1. \A i \in 1..Len(sent) : sent[i].num = 9 <=> i = 4
        BY <1>5
  <2>2. /\ 4 \notin 1..Len(sent) => ValuesAt(t, 9) = <<>>
        /\ 4 \in 1..Len(sent) => \E v : ValuesAt(t, 9) = <<v>> /\ Sees(v, sent[4], 3)
        BY <1>1, <1>3, <2>1, ReadOne
  <2>3. CASE notice
    <3>1. PICK v : ValuesAt(t, 9) = <<v>> /\ Sees(v, sent[4], 3)
          BY <1>6, <2>2, <2>3
    <3>2. sent[4] \in Sent
          BY <1>1, <1>6, <2>3, SeqIs
    <3>3. IsNotice(t)
          BY <1>1, <2>3, <3>1, <3>2, NoticeIs
    <3>4. IsNotice(t) \in BOOLEAN
          BY DEF IsNotice
    <3> QED
        BY <2>3, <3>3, <3>4
  <2>4. CASE ~notice
    <3>1. ToSet(Trees(ValuesAt(t, 9))) = {}
          BY <1>6, <2>2, <2>4, TreesOne
    <3>2. IsNotice(t) = FALSE
          BY <3>1 DEF IsNotice
    <3> QED
        BY <2>4, <3>2
  <2> QED
      BY <2>3, <2>4
<1>15. FromInner(t) = Got(id, ts, content, notice)
  <2> DEFINE at8 == ValuesAt(t, 8)
             body == IF at8 = <<>> THEN <<>> ELSE Content(at8[1])
  <2>1. <<v3>> # <<>> /\ <<v3>>[1] = v3
        OBVIOUS
  <2>2. body = Utf8(content)
        BY <1>11, <1>12, <2>1
  <2>3. FromInner(t) = IF ValuesAt(t, 3) = <<>> \/ Mentions(body, CommandType) THEN <<>>
                       ELSE <<[id |-> ValuesAt(t, 3)[1].int,
                               ts |-> IntOr(ValuesAt(t, 4), 0) \div 1000,
                               content |-> body, notice |-> IsNotice(t)]>>
        BY DEF FromInner
  <2> HIDE DEF body
  <2>4. ValuesAt(t, 3) # <<>> /\ ValuesAt(t, 3)[1].int = id
        BY <1>9, <1>13
  <2>5. IntOr(ValuesAt(t, 4), 0) = ts
        BY <1>10, <1>13 DEF IntOr
  <2>6. FromInner(t) = IF Mentions(body, CommandType) THEN <<>>
                       ELSE <<[id |-> id, ts |-> ts \div 1000,
                               content |-> body, notice |-> IsNotice(t)]>>
        BY <2>3, <2>4, <2>5
  <2> QED
      BY <1>14, <2>2, <2>6 DEF Got
<1> QED
    BY <1>2, <1>15 DEF m, t

\* A message on its own is the only result.
LEMMA ResultsOne ==
    ASSUME NEW t, NEW S, NEW got, FromInner(t) = got, got \in Seq(S)
    PROVE  Results(<<t>>) = got
<1>1. [i \in DOMAIN <<t>> |-> FromInner(<<t>>[i])] = <<got>>
      OBVIOUS
<1>2. FlattenSeq(<<got>>) = got
      BY FlattenOne
<1> QED
    BY <1>1, <1>2 DEF Results

\* The blocks of a body that is wrapped twice.
LEMMA BlocksOne ==
    ASSUME NEW num \in Nat, NEW b \in Buffers, ValidMessage(b)
    PROVE  Blocks(Wrapped(6, Wrapped(num, b)), num) = <<decode[4][b]>>
<1> DEFINE w == Wrapped(num, b)
           body == Wrapped(6, w)
           tree == decode[6][body]
           tree5 == decode[5][w]
<1>1. w \in Buffers /\ ValidMessage(w)
      BY WrappedIs
<1>2. 6 \in 0..MaxDepth /\ 5 \in 0..MaxDepth /\ MaxDepth = 6 /\ 6 - 1 = 5 /\ 5 - 1 = 4
      /\ 6 \in Nat /\ 6 > 0 /\ 5 > 0
      BY DEF MaxDepth
<1>3. tree # Failed /\ Within(<<tree>>, 6) = <<tree5>>
  <2> HIDE DEF w
  <2>1. /\ decode[6][Wrapped(6, w)] # Failed
        /\ Within(<<decode[6][Wrapped(6, w)]>>, 6) = <<decode[6 - 1][w]>>
        BY <1>1, <1>2, WrappedIs
  <2> QED
      BY <1>2, <2>1
<1>4. Within(<<tree5>>, num) = <<decode[4][b]>>
  <2>1. Within(<<decode[5][Wrapped(num, b)]>>, num) = <<decode[5 - 1][b]>>
        BY <1>2, WrappedIs
  <2> QED
      BY <1>2, <2>1
<1>5. Wrappers(body) = <<tree5>>
  <2> HIDE DEF tree5, body
  <2>1. DecodeTree(body) = tree
        BY <1>2 DEF DecodeTree
  <2> HIDE DEF tree
  <2> QED
      BY <1>3, <2>1 DEF Wrappers, Unwrapped
<1> HIDE DEF tree, tree5
<1>6. Blocks(body, num) = <<decode[4][b]>>
      BY <1>4, <1>5 DEF Blocks
<1> QED
    BY <1>6 DEF body, w


\* The page around a message, its cursor and has_more.
IsPage(body, num, m, next) ==
    \E b : /\ Blocks(body, num) = <<b>>
           /\ Within(<<b>>, 1) = <<decode[3][m]>>
           /\ Cursors(<<b>>) = {[next |-> next, more |-> TRUE]}

\* What the paths of frontier.py find in it: the message, and the cursor.
LEMMA PageIsRead ==
    ASSUME NEW m \in Buffers, ValidMessage(m), NEW next \in Nat, NEW num \in Nat,
           NEW body, body = InBody(m, num, next)
    PROVE  IsPage(body, num, m, next)
<1> DEFINE f1 == BytesField(1, m)
           f2 == IntField(2, next)
           f3 == IntField(3, 1)
           sent == <<f1, f2, f3>>
           page == EncodeFields(sent)
           b == decode[4][page]
<1>1. /\ f1 \in Sent /\ f1.num = 1 /\ f1.is = "bytes" /\ f1.bytes = m
      /\ f2 \in Sent /\ f2.num = 2 /\ f2.is = "int" /\ f2.int = next
      /\ f3 \in Sent /\ f3.num = 3 /\ f3.is = "int" /\ f3.int = 1
      BY FieldsAreSent
<1>2. body = Wrapped(6, Wrapped(num, page))
      BY DEF InBody
<1> HIDE DEF f1, f2, f3
<1>3. /\ sent \in Seq(Sent) /\ sent # <<>> /\ Len(sent) = 3
      /\ sent[1] = f1 /\ sent[2] = f2 /\ sent[3] = f3
      BY <1>1
<1> HIDE DEF sent
<1>4. page \in Buffers /\ ValidMessage(page)
      BY <1>3, EncodesBuffer, FieldsAreRead
<1>5. 4 \in 0..MaxDepth /\ 4 > 0 /\ 4 - 1 = 3
      BY DEF MaxDepth
<1>6. b = decode[4][EncodeFields(sent)]
      OBVIOUS
<1> HIDE DEF b
<1>7. Blocks(body, num) = <<b>>
  <2> HIDE DEF page
  <2> QED
      BY <1>2, <1>4, BlocksOne DEF b
<1>8. \A i \in 1..Len(sent) : sent[i].num = i
  <2>1. \A i \in 1..Len(sent) : i = 1 \/ i = 2 \/ i = 3
        BY <1>3
  <2> QED
      BY <1>1, <1>3, <2>1
<1>9. \A num1 \in Nat : \A i \in 1..Len(sent) : sent[i].num = num1 <=> i = num1
      BY <1>8
<1>10. Within(<<b>>, 1) = <<decode[3][m]>>
  <2>1. 1 \in 1..Len(sent) /\ sent[1].is = "bytes" /\ ValidMessage(sent[1].bytes)
        /\ 1 = sent[1].num /\ sent[1].bytes = m
        BY <1>1, <1>3
  <2>2. \A i \in 1..Len(sent) : sent[i].num = sent[1].num <=> i = 1
        BY <1>8, <2>1
  <2>3. Within(<<b>>, 1) = <<decode[4 - 1][sent[1].bytes]>>
        BY <1>3, <1>5, <1>6, <2>1, <2>2, Down
  <2> QED
      BY <1>5, <2>1, <2>3
<1>11. ASSUME NEW k \in 1..Len(sent), sent[k].is = "int"
       PROVE  IntOr(ValuesAt(b, k), 0) = sent[k].int
  <2> DEFINE of == k
             vals == ValuesAt(b, of)
  <2>1. vals = ValuesAt(decode[4][EncodeFields(sent)], of) /\ k \in Nat
        BY <1>3, <1>6
  <2>2. \A i \in 1..Len(sent) : sent[i].num = of <=> i = k
        BY <1>9, <2>1
  <2> HIDE DEF vals, of, page
  <2>3. PICK v : vals = <<v>> /\ Sees(v, sent[k], 4)
        BY <1>3, <1>5, <2>1, <2>2, ReadOne
  <2>4. v.is = "int" /\ v.int = sent[k].int
        BY <1>11, <2>3 DEF Sees
  <2>5. vals # <<>> /\ vals[1] = v
        BY <2>3
  <2>6. IntOr(vals, 0) = v.int
        BY <2>4, <2>5 DEF IntOr
  <2> QED
      BY <2>4, <2>6 DEF vals, of
<1>12. IntOr(ValuesAt(b, 2), 0) = next /\ IntOr(ValuesAt(b, 3), 0) = 1
  <2>1. 2 \in 1..Len(sent) /\ 3 \in 1..Len(sent)
        BY <1>3
  <2> QED
      BY <1>1, <1>3, <1>11, <2>1
<1>13. Cursors(<<b>>) = {[next |-> next, more |-> TRUE]}
  <2>1. ToSet(First(<<b>>)) = {b}
        BY TreesOne
  <2>2. Cursors(<<b>>) = {[next |-> IntOr(ValuesAt(c, 2), 0),
                           more |-> IntOr(ValuesAt(c, 3), 0) # 0] : c \in {b}}
        BY <2>1 DEF Cursors
  <2>3. Cursors(<<b>>) = {[next |-> IntOr(ValuesAt(b, 2), 0),
                           more |-> IntOr(ValuesAt(b, 3), 0) # 0]}
        BY <2>2
  <2>4. (1 # 0) = TRUE
        OBVIOUS
  <2> QED
      BY <1>12, <2>3, <2>4
<1> QED
    BY <1>7, <1>10, <1>13 DEF IsPage

\* The backlog and the history page, and the frame.
LEMMA BodyIsRead ==
    ASSUME NEW m \in Buffers, ValidMessage(m), NEW S, NEW got, got \in Seq(S),
           FromInner(decode[3][m]) = got, NEW next \in Nat
    PROVE  /\ MessagesFromFrame(InFrame(m)) = got
           /\ MessagesFromInitBody(InBody(m, 203, next)) = got
           /\ MessagesFromConversationBody(InBody(m, 301, next)) = got
           /\ ConversationCursor(InBody(m, 301, next)) = {[next |-> next, more |-> TRUE]}
<1>1. Results(<<decode[3][m]>>) = got
      BY ResultsOne
<1>2. MessagesFromFrame(InFrame(m)) = got
  <2> DEFINE w == Wrapped(5, m)
             body == InFrame(m)
             b == decode[4][w]
  <2>1. w \in Buffers /\ ValidMessage(w)
        BY WrappedIs
  <2>2. WithinFirst(<<b>>, 5) = <<decode[3][m]>>
    <3>1. 4 \in 0..MaxDepth /\ 4 > 0 /\ 4 - 1 = 3 /\ 5 \in Nat
          BY DEF MaxDepth
    <3>2. WithinFirst(<<decode[4][Wrapped(5, m)]>>, 5) = <<decode[4 - 1][m]>>
          BY <3>1, WrappedIs
    <3> QED
        BY <3>1, <3>2
  <2>3. body = Wrapped(6, Wrapped(500, w))
        BY DEF InFrame
  <2> HIDE DEF w, body
  <2>4. Blocks(body, 500) = <<b>>
        BY <2>1, <2>3, BlocksOne
  <2> HIDE DEF b
  <2> QED
      BY <1>1, <2>2, <2>4 DEF MessagesFromFrame, body
<1>3. MessagesFromInitBody(InBody(m, 203, next)) = got
  <2> DEFINE body == InBody(m, 203, next)
  <2>1. body = InBody(m, 203, next) /\ 203 \in Nat
        OBVIOUS
  <2> HIDE DEF body
  <2>2. IsPage(body, 203, m, next)
        BY <2>1, PageIsRead
  <2>3. PICK b : Blocks(body, 203) = <<b>> /\ Within(<<b>>, 1) = <<decode[3][m]>>
        BY <2>2 DEF IsPage
  <2> QED
      BY <1>1, <2>3 DEF MessagesFromInitBody, body
<1>4. /\ MessagesFromConversationBody(InBody(m, 301, next)) = got
      /\ ConversationCursor(InBody(m, 301, next)) = {[next |-> next, more |-> TRUE]}
  <2> DEFINE body == InBody(m, 301, next)
  <2>1. body = InBody(m, 301, next) /\ 301 \in Nat
        OBVIOUS
  <2> HIDE DEF body
  <2>2. IsPage(body, 301, m, next)
        BY <2>1, PageIsRead
  <2>3. PICK b : /\ Blocks(body, 301) = <<b>> /\ Within(<<b>>, 1) = <<decode[3][m]>>
                 /\ Cursors(<<b>>) = {[next |-> next, more |-> TRUE]}
        BY <2>2 DEF IsPage
  <2> QED
      BY <1>1, <2>3 DEF MessagesFromConversationBody, ConversationCursor, body
<1> QED
    BY <1>2, <1>3, <1>4

\* A message of any id, time, cursor and content, a notice or none, is read from a
\* frame, the backlog and a history page with the text that its content spells,
\* unless it is a command or its content is taken for a message that is put back
\* otherwise; and a content in UTF-8 is that text.
THEOREM MessagesAreDelivered ==
    \A id, ts, next \in Nat, content \in Buffers, notice \in BOOLEAN :
        Delivered(id, ts, next, content, notice)
<1> SUFFICES ASSUME NEW id \in Nat, NEW ts \in Nat, NEW next \in Nat,
                    NEW content \in Buffers, NEW notice \in BOOLEAN
             PROVE  Delivered(id, ts, next, content, notice)
    OBVIOUS
<1>1. WellFormed(content) => Utf8(content) = content
      BY Utf8IsKept
<1>2. CASE Misread(content)
      BY <1>2, <1>1 DEF Delivered
<1>3. CASE ~Misread(content)
  <2> DEFINE m == Message(id, ts, content, notice)
             got == Got(id, ts, content, notice)
             one == [id |-> id, ts |-> ts \div 1000, content |-> Utf8(content),
                    notice |-> notice]
  <2>1. m \in Buffers /\ ValidMessage(m) /\ FromInner(decode[3][m]) = got
        BY <1>3, InnerIsRead
  <2>2. got \in Seq({one})
    <3>1. <<>> \in Seq({one}) /\ <<one>> \in Seq({one})
          OBVIOUS
    <3> HIDE DEF one
    <3>2. got = IF Mentions(Utf8(content), CommandType) THEN <<>> ELSE <<one>>
          BY DEF Got, one
    <3> QED
        BY <3>1, <3>2
  <2>3. got = IF Mentions(Utf8(content), CommandType) THEN <<>> ELSE <<one>>
        BY DEF Got
  <2> HIDE DEF m, got, one
  <2>4. /\ MessagesFromFrame(InFrame(m)) = got
        /\ MessagesFromInitBody(InBody(m, 203, next)) = got
        /\ MessagesFromConversationBody(InBody(m, 301, next)) = got
        /\ ConversationCursor(InBody(m, 301, next)) = {[next |-> next, more |-> TRUE]}
        BY <2>1, <2>2, BodyIsRead
  <2> QED
      BY <1>1, <2>3, <2>4 DEF Delivered, m, one
<1> QED
    BY <1>2, <1>3
=============================================================================
