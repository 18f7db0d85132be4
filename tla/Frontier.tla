------------------------------ MODULE Frontier ------------------------------
(***************************************************************************)
(* What goes out and what comes in, on top of Codec: encode_tree of        *)
(* bridge/proto.py, and what bridge/web/frontier.py reads out of a decoded *)
(* websocket frame or body.  A text is the bytes that spell it in UTF-8.   *)
(* Codec calls a string a str only if it is printable ASCII; of another    *)
(* printable one the code has the str and Codec the bytes, which are       *)
(* decoded here, and to the same text.                                     *)
(***************************************************************************)
EXTENDS Codec

-----------------------------------------------------------------------------
(* encode_tree. *)

\* Values in which others are nested so deep at most, and trees of them.
Leaves == [num : Nat, is : {"int", "str", "bytes"}, int : Nat, bytes : Buffers, tree : {<<>>}]
TreesOf(values) == Seq([num : Nat, vals : Seq(values)])
valuesTo[depth \in 0..MaxDepth] ==
    IF depth = 0 THEN Leaves
    ELSE Leaves \cup [num : Nat, is : {"dict"}, int : Nat, bytes : Buffers,
                      tree : TreesOf(valuesTo[depth - 1])]

\* The values, number by number, each as the field it is written as.
InOrder(tree) == FlattenSeq([g \in DOMAIN tree |-> tree[g].vals])
Written(v, encoded) ==
    [num |-> v.num, is |-> IF v.is = "int" THEN "int" ELSE "bytes", int |-> v.int,
     bytes |-> IF v.is = "dict" THEN encoded[v.tree] ELSE v.bytes]
Encoding(values, encoded) ==
    EncodeFields([i \in DOMAIN values |-> Written(values[i], encoded)])

encode[depth \in 0..MaxDepth] ==
    [tree \in TreesOf(valuesTo[depth]) |-> Encoding(InOrder(tree), encode[depth - 1])]
EncodeTree(tree) == encode[MaxDepth][tree]

-----------------------------------------------------------------------------
(* bytes.decode("utf-8", "replace"). *)

\* The bytes of a character with this first byte, none if no character begins
\* with it; and what the second may be.
Size(first) == CASE first \in 0..127 -> 1 [] first \in 194..223 -> 2
                 [] first \in 224..239 -> 3 [] first \in 240..244 -> 4 [] OTHER -> 0
Second(first) == CASE first = 224 -> 160..191 [] first = 237 -> 128..159
                   [] first = 240 -> 144..191 [] first = 244 -> 128..143
                   [] OTHER -> 128..191

\* How many of the bytes from i on can begin one character.
Begins(b, i, k) ==
    /\ i + k - 1 <= Len(b)
    /\ \A j \in 1..k - 1 : b[i + j] \in IF j = 1 THEN Second(b[i]) ELSE 128..191
Reach(b, i) == Max({1} \cup {k \in 2..4 : k <= Size(b[i]) /\ Begins(b, i, k)})
Complete(b, i) == Reach(b, i) = Size(b[i])

\* A beginning without its end, or a byte that begins nothing, becomes U+FFFD.
Replacement == <<239, 191, 189>>
Utf8From(b) ==
    LET text[i \in 1..End(b)] ==
          IF i = End(b) THEN <<>>
          ELSE (IF Complete(b, i) THEN SubSeq(b, i, i + Reach(b, i) - 1) ELSE Replacement)
               \o text[i + Reach(b, i)]
    IN text
Utf8(b) == Utf8From(b)[1]

-----------------------------------------------------------------------------
(* frontier.py.  Paths into a tree, and the messages at their end. *)

ValuesAt(tree, num) ==
    IF Has(tree, num) THEN tree[CHOOSE g \in DOMAIN tree : tree[g].num = num].vals ELSE <<>>
First(vals) == SubSeq(vals, 1, 1)
Trees(vals) == FlattenSeq([i \in DOMAIN vals |->
                   IF vals[i].is = "dict" THEN <<vals[i].tree>> ELSE <<>>])

\* The nested messages at a number of each tree, and the first value's only.
Within(trees, num) == FlattenSeq([i \in DOMAIN trees |-> Trees(ValuesAt(trees[i], num))])
WithinFirst(trees, num) ==
    FlattenSeq([i \in DOMAIN trees |-> Trees(First(ValuesAt(trees[i], num)))])
IntOr(vals, default) == IF vals # <<>> /\ vals[1].is = "int" THEN vals[1].int ELSE default

\* Two short words stand for the 14 bytes of "command_type" in its quotes, and
\* for s:visible.
CommandType == <<34, 99, 34>>
Visible == <<115, 58>>
Mentions(b, word) == \E i \in 0..Len(b) - Len(word) : SubSeq(b, i + 1, i + Len(word)) = word

\* Mutant of Content: what was taken for a message is no content.
ContentOfText(v) == IF v.is \in {"int", "dict"} THEN <<>> ELSE Utf8(v.bytes)

\* _content_text: what was taken for a message is encoded again, then decoded.
Content(v) == CASE v.is = "int" -> <<>>
                [] v.is = "dict" -> Utf8(EncodeTree(v.tree))
                [] OTHER -> Utf8(v.bytes)

\* _ext_map has s:visible: a notice of the server.
IsNotice(m) == \E e \in ToSet(Trees(ValuesAt(m, 9))) :
                 \E k \in ToSet(First(ValuesAt(e, 1))) : k.is \in {"str", "bytes"} /\ k.bytes = Visible

\* What an inner Message gives: nothing without an id, nothing for a command.
\* Its time is in microseconds, that of the result in milliseconds.
FromInner(m) ==
    LET at8 == ValuesAt(m, 8)
        body == IF at8 = <<>> THEN <<>> ELSE Content(at8[1]) IN
    IF ValuesAt(m, 3) = <<>> \/ Mentions(body, CommandType) THEN <<>>
    ELSE <<[id |-> ValuesAt(m, 3)[1].int, ts |-> IntOr(ValuesAt(m, 4), 0) \div 1000,
            content |-> body, notice |-> IsNotice(m)]>>

\* A body that does not decode has no messages.
Unwrapped(tree) == IF tree = Failed THEN <<>> ELSE Within(<<tree>>, 6)
Wrappers(body) == Unwrapped(DecodeTree(body))

Results(messages) == FlattenSeq([i \in DOMAIN messages |-> FromInner(messages[i])])
Blocks(body, num) == Within(Wrappers(body), num)

MessagesFromFrame(body) == Results(WithinFirst(Blocks(body, 500), 5))
MessagesFromInitBody(body) == Results(Within(Blocks(body, 203), 1))
MessagesFromConversationBody(body) == Results(Within(Blocks(body, 301), 1))

\* The first block of the page, if any: its cursor, 0 for none, and has_more.
Cursors(blocks) == {[next |-> IntOr(ValuesAt(b, 2), 0), more |-> IntOr(ValuesAt(b, 3), 0) # 0] :
                      b \in ToSet(First(blocks))}
ConversationCursor(body) == Cursors(Blocks(body, 301))

-----------------------------------------------------------------------------
(* What must be true, of a request, and of a body with one message in it.  *)

\* The values of each number in a row.
InRows(fields) ==
    \A i, k \in DOMAIN fields :
        i < k /\ fields[i].num = fields[k].num => fields[k - 1].num = fields[k].num

\* A message as encode_fields writes it, and with it what is taken for a message
\* in it.  The tree keeps neither the order of different numbers nor the width of
\* a value: "0a8a0a", "5abcd" and a zero in two bytes parse as messages that are
\* written in another way.
canonical[depth \in 0..MaxDepth] ==
    [buf \in Buffers |->
        /\ EncodeFields(Fields(buf)) = buf /\ InRows(Fields(buf))
        /\ \A f \in ToSet(Fields(buf)) : Nested(f, depth) => canonical[depth - 1][f.bytes]]

\* A request that was captured is sent again as it was, whatever its strings
\* look like to the decoder (web.py replays the page's own request), if it is
\* canonical, and only then.
SentAgainAsItWas(buf) ==
    DecodeTree(buf) # Failed =>
        (EncodeTree(DecodeTree(buf)) = buf) = canonical[MaxDepth][buf]

IntField(num, v) == [num |-> num, is |-> "int", int |-> v, bytes |-> <<>>]
BytesField(num, b) == [num |-> num, is |-> "bytes", int |-> 0, bytes |-> b]
Wrapped(num, b) == EncodeFields(<<BytesField(num, b)>>)

Message(id, ts, content, notice) ==
    EncodeFields(<<IntField(3, id), IntField(4, ts), BytesField(8, content)>>
                 \o IF notice THEN <<BytesField(9, Wrapped(1, Visible))>> ELSE <<>>)
InFrame(m) == Wrapped(6, Wrapped(500, Wrapped(5, m)))
InBody(m, num, next) ==
    Wrapped(6, Wrapped(num, EncodeFields(<<BytesField(1, m), IntField(2, next), IntField(3, 1)>>)))

\* A content that is taken for a message and is put back otherwise.  Messages are
\* four levels down.  (The contents TikTok sends are JSON, which is not misread.)
Misread(text) == ValidMessage(text) /\ ~canonical[MaxDepth - 4][text]

\* A buffer of whole characters only.
FormedFrom(b) ==
    LET formed[i \in 1..End(b)] == i = End(b) \/ (Complete(b, i) /\ formed[i + Reach(b, i)])
    IN formed
WellFormed(b) == FormedFrom(b)[1]

\* Frame, backlog and history page give the same message, with the text its
\* content spells, unless it is a command; and the page its cursor.  A content in
\* UTF-8 is left as it was written.
Delivered(id, ts, next, content, notice) ==
    /\ WellFormed(content) => Utf8(content) = content
    /\ Misread(content) \/
       LET m == Message(id, ts, content, notice)
           got == IF Mentions(Utf8(content), CommandType) THEN <<>>
                  ELSE <<[id |-> id, ts |-> ts \div 1000, content |-> Utf8(content),
                          notice |-> notice]>>
       IN \A frame \in {InFrame(m)}, init \in {InBody(m, 203, next)},
             page \in {InBody(m, 301, next)} :
            /\ MessagesFromFrame(frame) = got
            /\ MessagesFromInitBody(init) = got
            /\ MessagesFromConversationBody(page) = got
            /\ ConversationCursor(page) = {[next |-> next, more |-> TRUE]}
=============================================================================
