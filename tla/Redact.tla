------------------------------- MODULE Redact -------------------------------
(***************************************************************************)
(* scripts/redact-capture.py: a capture of the live site becomes test      *)
(* fixtures in which user ids are replaced by stand-ins with as many       *)
(* digits and as long a varint, so that protobuf bodies stay valid byte    *)
(* for byte.                                                               *)
(*                                                                         *)
(* A record of the capture is its kind, the form of its body (JSON, other  *)
(* text, bytes) and the values in it that hold ids.  A value is where it   *)
(* stands and its ids: one, or several spelled with colons between them,   *)
(* as in a conversation_id.  Ids have five digits or more, and none looks  *)
(* like one that is made here.  Secrets, handles and names are left out.   *)
(***************************************************************************)
EXTENDS Frontier

decimal[v \in Nat] == IF v < 10 THEN <<48 + v>> ELSE Append(decimal[v \div 10], 48 + (v % 10))
Digits(v) == Len(decimal[v])
Width(v) == Len(WriteVarint(v))

-----------------------------------------------------------------------------
(* fake_id. *)

\* A leading digit, nines, and the counter in four digits.
Candidate(real, lead, n) == (lead + 1) * 10 ^ (Digits(real) - 1) - 10 ^ 4 + n

FakeOf(real, n) ==
    LET fits == {lead \in 1..9 : Width(Candidate(real, lead, n)) = Width(real)}
    IN Candidate(real, IF fits = {} THEN 9 ELSE Max(fits), n)

\* ids is in the order of first sight.
Fresh == [n |-> 0, ids |-> <<>>]
Fakes(red, real) == {p.fake : p \in {q \in ToSet(red.ids) : q.real = real}}
StandIn(red, id) == IF Fakes(red, id) = {} THEN id ELSE Max(Fakes(red, id))

\* With its second try when a number stands for itself.
FakeId(red, real) ==
    IF Fakes(red, real) # {} THEN red
    ELSE LET n == red.n + IF FakeOf(real, red.n + 1) = real THEN 2 ELSE 1
         IN [n |-> n, ids |-> Append(red.ids, [real |-> real, fake |-> FakeOf(real, n)])]

-----------------------------------------------------------------------------
(* walk, of JSON. *)

\* BIGID_RE or a big number, under one of ID_KEYS; what else there is, a
\* conversation_id among it, goes to scrub_str, which knows no ids.
IsId(value) == value.at = "id" /\ Len(value.ids) = 1 /\ Digits(value.ids[1]) >= 6

Walk(red, values) ==
    FoldLeft(LAMBDA r, value : IF IsId(value) THEN FakeId(r, value.ids[1]) ELSE r, red, values)
Walked(red, values) ==
    [i \in DOMAIN values |->
        IF IsId(values[i]) THEN [values[i] EXCEPT !.ids = <<StandIn(red, @[1])>>] ELSE values[i]]

\* Mutant of BuildRedactor: only what becomes a fixture is walked.
BuildRedactorChosen(capture) ==
    FoldLeft(LAMBDA red, rec : IF rec.form = "json" /\ rec.kind # "other"
                               THEN Walk(red, rec.values) ELSE red, Fresh, capture)

\* build_redactor walks every JSON body of the capture first.
BuildRedactor(capture) ==
    FoldLeft(LAMBDA red, rec : IF rec.form = "json" THEN Walk(red, rec.values) ELSE red,
             Fresh, capture)

-----------------------------------------------------------------------------
(* scrub_bytes, of a protobuf body or a frame: fields of text and varints. *)

Spelled(ids) == Tail(FlattenSeq([i \in DOMAIN ids |-> <<58>> \o decimal[ids[i]]]))
Body(values) ==
    EncodeFields([i \in DOMAIN values |->
        IF values[i].at = "varint" THEN IntField(i, values[i].ids[1])
        ELSE BytesField(i, Spelled(values[i].ids))])

\* bytes.replace, from the left and wherever it is found; new is as long as old.
Replaced(buf, old, new) ==
    LET found(i) == i + Len(old) <= End(buf) /\ SubSeq(buf, i, i + Len(old) - 1) = old
        from[i \in 1..End(buf)] ==
          CASE i = End(buf) -> <<>>
            [] i # End(buf) /\ found(i) -> new \o from[i + Len(old)]
            [] OTHER -> <<buf[i]>> \o from[i + 1]
    IN from[1]

ScrubId(buf, p) ==
    LET text == Replaced(buf, decimal[p.real], decimal[p.fake]) IN
    IF Width(p.real) = Width(p.fake)
    THEN Replaced(text, WriteVarint(p.real), WriteVarint(p.fake)) ELSE text
ScrubBytes(red, buf) == FoldLeft(ScrubId, buf, red.ids)

-----------------------------------------------------------------------------
\* _fixture_from.  Text that is not JSON goes to scrub_str.
Fixture(red, rec) ==
    CASE rec.form = "json" -> Walked(Walk(red, rec.values), rec.values)
      [] rec.form = "text" -> rec.values
      [] rec.form = "bytes" -> ScrubBytes(red, Body(rec.values))

\* _good: these two only as JSON with somebody in it.
Good(rec) == rec.kind \in {"contacts", "profile_other"} => rec.form = "json" /\ rec.values # <<>>

\* select_records: the first good one of each kind; "other" has none.
Selected(capture) ==
    {i \in DOMAIN capture :
        /\ capture[i].kind # "other" /\ Good(capture[i])
        /\ \A j \in 1..i - 1 : capture[j].kind = capture[i].kind => ~Good(capture[j])}

-----------------------------------------------------------------------------
\* The ids that the JSON bodies of a capture name, of fixtures or not.
Named(capture) ==
    UNION {{value.ids[1] : value \in {v \in ToSet(rec.values) : IsId(v)}} :
             rec \in {r \in ToSet(capture) : r.form = "json"}}

\* scrub_bytes finds none of them in another number, or in what stands for one.
Apart(red, named, values) ==
    \A x \in UNION {ToSet(values[i].ids) : i \in DOMAIN values}, id \in named :
        \A y \in {x, StandIn(red, x)} \ {id} :
            ~Mentions(decimal[y], decimal[id]) /\ ~Mentions(WriteVarint(y), WriteVarint(id))

WithStandIns(red, values) ==
    [i \in DOMAIN values |->
        [values[i] EXCEPT !.ids = [k \in DOMAIN @ |-> StandIn(red, @[k])]]]

\* The script's docstring: a stable map, and protobuf bodies stay valid byte for
\* byte.  An id that a JSON body of the capture names, be it late or in a body that
\* becomes no fixture, has one stand-in, of its form and of no other id.  It is what
\* stands under the id keys of every JSON fixture; and every protobuf fixture is the
\* body that would have been written with the stand-ins, as text and as varints,
\* unless a number in it holds the bytes of another id.  Of text that is not JSON, and of
\* ids under other keys or within longer strings of JSON, nothing is said.
Pseudonymous(capture) ==
    LET red == BuildRedactor(capture)
        named == Named(capture) IN
    /\ \A id \in named : /\ StandIn(red, id) \notin named
                         /\ Digits(StandIn(red, id)) = Digits(id)
                         /\ Width(StandIn(red, id)) = Width(id)
    /\ \A id, other \in named : StandIn(red, id) = StandIn(red, other) => id = other
    /\ \A i \in Selected(capture) :
         LET values == capture[i].values
             fixture == Fixture(red, capture[i]) IN
         CASE capture[i].form = "json" ->
                \A k \in DOMAIN values :
                    IsId(values[k]) => fixture[k].ids = <<StandIn(red, values[k].ids[1])>>
           [] capture[i].form = "bytes" /\ Apart(red, named, values) ->
                fixture = Body(WithStandIns(red, values))
           [] OTHER -> TRUE
=============================================================================
