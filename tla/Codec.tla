------------------------------- MODULE Codec -------------------------------
(***************************************************************************)
(* The protobuf codec (bridge/proto.py).  It knows no schema: a            *)
(* length-delimited value that happens to parse is taken for a nested      *)
(* message, and what was guessed wrong has to be put back.                 *)
(*                                                                         *)
(* Loops over a buffer are functions of the position, 1 up to the one      *)
(* behind the end.                                                         *)
(***************************************************************************)
EXTENDS Integers, Sequences, SequencesExt, FiniteSetsExt

Buffers == Seq(0..255)
End(buf) == Len(buf) + 1

-----------------------------------------------------------------------------
(* Varints, and one field of a buffer. *)

\* buf[i] raises an IndexError behind the end, and what needs it, too.
Cut == [v |-> 0, next |-> 0]

Varints(buf) ==
    LET read[i \in 1..End(buf)] ==
          IF i = End(buf) THEN Cut
          ELSE IF buf[i] < 128 THEN [v |-> buf[i], next |-> i + 1]
          ELSE IF read[i + 1] = Cut THEN Cut
          ELSE [v |-> buf[i] - 128 + 128 * read[i + 1].v, next |-> read[i + 1].next]
    IN read
ReadVarint(buf, i) == IF i \in DOMAIN buf THEN Varints(buf)[i] ELSE Cut

varint[v \in Nat] == IF v < 128 THEN <<v>> ELSE <<128 + (v % 128)>> \o varint[v \div 128]
WriteVarint(v) == varint[v]

\* The field at i: an integer, bytes, the end of what is understood (a group),
\* or a cut varint.  A slice takes what there is; next may be behind the end.
Field(buf, i) ==
    LET tag == ReadVarint(buf, i)
        arg == IF tag.v % 8 \in {0, 2} THEN ReadVarint(buf, tag.next) ELSE tag
        size == CASE tag.v % 8 = 2 -> arg.v [] tag.v % 8 = 5 -> 4 [] tag.v % 8 = 1 -> 8
                  [] OTHER -> 0
    IN [is |-> IF tag = Cut \/ arg = Cut THEN "cut"
               ELSE CASE tag.v % 8 = 0 -> "int"
                      [] tag.v % 8 \in {1, 2, 5} -> "bytes"
                      [] OTHER -> "group",
        num |-> tag.v \div 8, int |-> arg.v,
        bytes |-> SubSeq(buf, arg.next, Min({arg.next + size - 1, Len(buf)})),
        next |-> arg.next + size]

Failed == <<[is |-> "cut"]>>

\* decode_fields, before its values are put together by field number: the fields
\* from a position on.
FieldsFrom(buf) ==
    LET fields[i \in 1..End(buf)] ==
          IF i = End(buf) THEN <<>>
          ELSE LET f == Field(buf, i)
                   rest == fields[Min({f.next, End(buf)})]
               IN CASE f.is = "cut" -> Failed
                    [] f.is = "group" -> <<>>
                    [] OTHER -> IF rest = Failed THEN Failed ELSE <<f>> \o rest
    IN fields
Fields(buf) == FieldsFrom(buf)[1]

\* Mutant of ValidFrom: a cut varint at the end goes through.
ValidUntilCut(buf) ==
    LET valid[i \in 1..End(buf)] ==
          i = End(buf) \/ LET f == Field(buf, i) IN
                          f.is = "cut" \/ (f.is # "group" /\ f.next <= End(buf) /\ valid[f.next])
    IN valid

\* _valid_message: from a position on, only known fields up to the last byte.
ValidFrom(buf) ==
    LET valid[i \in 1..End(buf)] ==
          i = End(buf) \/ LET f == Field(buf, i) IN
                          f.is \notin {"cut", "group"} /\ f.next <= End(buf) /\ valid[f.next]
    IN valid
ValidMessage(buf) == buf # <<>> /\ ValidFrom(buf)[1]

-----------------------------------------------------------------------------
(* encode_fields, of [num, is, int, bytes] in this order. *)

Delimited(num, b) == WriteVarint(8 * num + 2) \o WriteVarint(Len(b)) \o b
EncodeField(f) == IF f.is = "int" THEN WriteVarint(8 * f.num) \o WriteVarint(f.int)
                  ELSE Delimited(f.num, f.bytes)
EncodeFields(fields) == FlattenSeq([i \in DOMAIN fields |-> EncodeField(fields[i])])

-----------------------------------------------------------------------------
(* decode_tree. *)

\* A tree is a sequence of [num, vals], in the order of first sight.
Has(tree, num) == \E g \in DOMAIN tree : tree[g].num = num

\* Mutant of Put: of the values of a number the last is kept.
PutLast(tree, v) ==
    IF Has(tree, v.num)
    THEN [g \in DOMAIN tree |->
             IF tree[g].num = v.num THEN [num |-> v.num, vals |-> <<v>>] ELSE tree[g]]
    ELSE Append(tree, [num |-> v.num, vals |-> <<v>>])

\* fields.setdefault(number, []).append(value).
Put(tree, v) ==
    IF Has(tree, v.num)
    THEN [g \in DOMAIN tree |->
             IF tree[g].num = v.num THEN [num |-> v.num, vals |-> Append(tree[g].vals, v)]
             ELSE tree[g]]
    ELSE Append(tree, [num |-> v.num, vals |-> <<v>>])

Grouped(values) ==
    LET grouped[i \in 0..Len(values)] ==
          IF i = 0 THEN <<>> ELSE Put(grouped[i - 1], values[i])
    IN grouped[Len(values)]

Printable(b) == \A c \in ToSet(b) : c \in 32..126

MaxDepth == 6
Nested(f, depth) == f.is = "bytes" /\ depth > 0 /\ ValidMessage(f.bytes)

\* A value, with decoded the trees of what may be nested in it.
Value(f, depth, decoded) ==
    [num |-> f.num, int |-> f.int, bytes |-> f.bytes,
     is |-> IF f.is = "int" THEN "int" ELSE IF Nested(f, depth) THEN "dict"
            ELSE IF Printable(f.bytes) THEN "str" ELSE "bytes",
     tree |-> IF Nested(f, depth) THEN decoded[f.bytes] ELSE <<>>]

\* An exception inside a nested message is one of the whole.
Together(fields, values) ==
    IF \E i \in DOMAIN fields : fields[i].is = "cut" \/ values[i].tree = Failed
    THEN Failed ELSE Grouped(values)
Tree(fields, depth, decoded) ==
    Together(fields, [i \in DOMAIN fields |-> Value(fields[i], depth, decoded)])

decode[depth \in 0..MaxDepth] ==
    [buf \in Buffers |-> Tree(Fields(buf), depth, decode[depth - 1])]
DecodeTree(buf) == decode[MaxDepth][buf]

-----------------------------------------------------------------------------
\* A value taken for a nested message decodes: a buffer fails to decode only if
\* its own fields do, so that no text in a message loses the whole frame.
NestedDecodes(buf) == DecodeTree(buf) = Failed => Fields(buf) = Failed
=============================================================================
