------------------------------ MODULE MCParts -------------------------------
(***************************************************************************)
(* The parts beside the bridge's login, for TLC: the page, its message     *)
(* pane, the v1 runtime, the run loop, the files, TikAPI, and the          *)
(* algorithms on data.  One behaviour is of one part, the others stay as   *)
(* they begin; an algorithm takes no step, its input is chosen at the      *)
(* start.  Page and pane are two views of one page: what they have in      *)
(* common, the timer POLL and the logout, Pane has as steps of its own,    *)
(* free to fall whenever the page's could; the others share no state.      *)
(***************************************************************************)
EXTENDS Page, Pane, Runtime, SyncLoop, KeyFiles, TikApi, Frontier, Normalize, TLC

Redact == INSTANCE Redact

VARIABLES part, arg

idle == <<part, arg>>
parts == <<service, page, pane, runtime, syncLoop, keyFiles, tikApi, idle>>

\* Bytes that look like text, like a message, like the end of one.
Strings == {<<>>, <<112, 108>>, <<97, 98>>, <<8, 1>>, <<10, 1, 97>>, <<200>>,
            <<10, 5, 97>>, <<48, 200>>, <<8, 1, 8, 2>>, <<123, 34>>,
            CommandType, <<10, 3>> \o CommandType,
            <<10, 2, 8, 0>>, <<10, 0>>,
            <<195, 169>>, <<226, 130>>, <<97, 226, 130, 34>>, <<237, 160, 128>>,
            <<240, 159, 152, 128>>,
            <<48, 97, 56, 97, 48, 97>>, <<8, 128, 0>>,
            <<53, 97, 98, 99, 100>>, <<49, 50, 51, 52, 53, 54, 55, 56, 57>>}
SentFields == {IntField(num, v) : num \in {1, 16}, v \in {0, 127, 300}}
              \cup {BytesField(num, b) : num \in {1, 16}, b \in Strings}
Framed(s, notice) == InFrame(Message(7, 5000, s, notice))
SentRequests == {EncodeFields(<<v>>) : v \in SentFields}
                \cup {EncodeFields(<<v, w>>) : v, w \in SentFields}
                \cup {EncodeFields(<<v, w, v>>) : v, w \in {IntField(1, 0), BytesField(16, <<97>>)}}
                \cup {Framed(s, notice) : s \in Strings, notice \in BOOLEAN}
ShortBuffers == BoundedSeq({1, 8, 10, 13, 97, 115, 128}, 4)

Contents == {Nothing}
            \cup {Plain(t) : t \in TypedTexts \cup {Blank}}
            \cup {Json(o) : o \in {obj \in Objects : obj.url = "none" => obj.at = "other"}}

\* Ids of five to nine digits; 2000000 and 2100000 differ in the length of their
\* varints; 345678 is in 234567890 as text, 1832561 as a varint.
Holding(place, ids) == [at |-> place, ids |-> ids]
JsonBodies == {<<Holding("id", <<id>>)>> : id \in {123456, 2100000, 345678, 1832561}}
              \cup {<<Holding("id", <<2000000>>), Holding("id", <<123456>>)>>,
                    <<Holding("id", <<12345>>), Holding("other", <<123456>>)>>,
                    <<Holding("id", <<123456, 234567890>>), Holding("id", <<234567890>>)>>}
ByteBodies == {<<Holding("text", <<123456>>), Holding("varint", <<2000000>>)>>,
               <<Holding("varint", <<234567890>>), Holding("text", <<123456, 234567890>>)>>,
               <<Holding("text", <<2000000, 12345>>), Holding("varint", <<2100000>>)>>}
Record(kind, form, values) == [kind |-> kind, form |-> form, values |-> values]
Captures == BoundedSeq(
    {Record("other", "json", values) : values \in JsonBodies}
    \cup {Record("contacts", "json", values) : values \in {<<>>, <<Holding("id", <<123456>>)>>}}
    \cup {Record("session_check", form, <<Holding("id", <<2000000>>)>>) : form \in {"json", "text"}}
    \cup {Record(kind, "bytes", values) : kind \in {"conv_list", "ws_frontier_sync"},
                                          values \in ByteBodies}, 3)

PartsInit ==
    /\ ServiceInit /\ PageInit /\ PaneInit /\ RuntimeInit /\ SyncLoopInit
    /\ KeyFilesInit /\ TikApiInit
    /\ \/ part \in {"page", "pane", "runtime", "loop", "files", "tikapi"} /\ arg = <<>>
       \/ part = "decode" /\ arg \in ShortBuffers
       \/ part = "request" /\ arg \in SentRequests
       \/ part = "content" /\ arg \in Strings \X BOOLEAN
       \/ part = "event" /\ arg \in Contents \X Records
       \/ part = "capture" /\ arg \in Captures

PartsNext ==
    \/ /\ part = "page" /\ PageNext
       /\ UNCHANGED <<pane, runtime, syncLoop, keyFiles, tikApi, idle>>
    \/ /\ part = "pane" /\ PaneNext
       /\ UNCHANGED <<service, page, runtime, syncLoop, keyFiles, tikApi, idle>>
    \/ /\ part = "runtime" /\ RuntimeNext
       /\ UNCHANGED <<service, page, pane, syncLoop, keyFiles, tikApi, idle>>
    \/ /\ part = "loop" /\ SyncLoopNext
       /\ UNCHANGED <<service, page, pane, runtime, keyFiles, tikApi, idle>>
    \/ /\ part = "files" /\ KeyFilesNext
       /\ UNCHANGED <<service, page, pane, runtime, syncLoop, tikApi, idle>>
    \/ /\ part = "tikapi" /\ TikApiNext
       /\ UNCHANGED <<service, page, pane, runtime, syncLoop, keyFiles, idle>>

\* The page's and the pane's own fairness: in another part they take no step and
\* none of these actions is enabled.
PartsSpec == PartsInit /\ [][PartsNext]_parts /\ PageFairness /\ PaneFairness

-----------------------------------------------------------------------------
\* proto.py: a value that looks like a nested message and is none never makes the
\* buffer around it undecodable.
CodecNested == part = "decode" => NestedDecodes(arg)

\* proto.py and web.py: a captured request is sent again byte for byte if and only if
\* it is canonical at every level that is taken for a message.
CodecRoundTrip == part = "request" => SentAgainAsItWas(arg)

\* frontier.py: by frame, backlog or history page, a message arrives with the text
\* its content spells, as it was written if that is UTF-8, and a command never does.
CodecDelivers == part = "content" => Delivered(7, 5000, 300, arg[1], arg[2])

\* normalize.py: no message is shown as a blank text ...
EventNeverBlank == part = "event" => NeverBlank(arg[1], arg[2])

\* ... what was typed is shown as typed ...
EventTextShown == part = "event" => TypedTextShown(arg[1], arg[2])

\* ... and text never as a picture, unless message_type calls it one.
EventTextIsNoMedia == part = "event" => TextIsNoMedia(arg[1], arg[2])

\* redact-capture.py: the ids that JSON bodies name have one stand-in each, under
\* the id keys of every JSON fixture and in every protobuf body.
CaptureIsPseudonymous == part = "capture" => Redact!Pseudonymous(arg)
=============================================================================
