----------------------------- MODULE Normalize -----------------------------
(***************************************************************************)
(* What is shown of a message: to_event and its helpers in                 *)
(* bridge/normalize.py, from the content field as the frames and the pages *)
(* give it to the kind and the body of the event.                          *)
(*                                                                         *)
(* A content is nothing, a plain text, or a JSON object, which comes as an *)
(* object or as the string that spells it.  Of an object only the keys the *)
(* code asks for are kept; a body is the sequence of texts it is made of.  *)
(***************************************************************************)
EXTENDS Naturals, Sequences

\* "http" begins like a URL; "braces" spells a JSON object with the text "word".
TypedTexts == {"word", "http", "braces"}

\* No text, or one that is empty.
Blank == ""

\* Keys that a content object may have, Blank and "none" for those it has not.
Objects ==
    [as : {"string", "object"},
     text : {Blank} \cup TypedTexts,   \* text, or else content
     share : BOOLEAN,               \* any of _SHARE_KEYS
     title : {Blank, "caption"},       \* content_title or title
     author : {Blank, "author"},       \* any of _AUTHOR_KEYS
     url : {"none", "jpg", "gif"},  \* a URL ...
     at : {"list", "other", "desc"},  \* ... in a key for media, in another, in desc
     gifType : BOOLEAN,             \* aweType 701 to 703
     sticker : BOOLEAN]             \* sticker, sticker_url or sticker_id

\* The record around the content: message_type (0: none), an aweme or a share
\* next to it, s:visible in ext.
Records == [type : {0, 1, 2, 5, 7, 99}, share : BOOLEAN, visible : BOOLEAN]

Nothing == [is |-> "none"]
Plain(text) == [is |-> "plain", text |-> text]
Json(object) == [is |-> "json", obj |-> object]

\* Mutant of ExtractText: what is inside the object is unpacked like the content.
ExtractTwice(raw) ==
    CASE raw.is = "none" -> Blank
      [] raw.is = "plain" -> raw.text
      [] raw.is = "json" -> IF raw.obj.text = "braces" THEN "word" ELSE raw.obj.text

\* extract_text unpacks one object; a broken one is text like any other.
ExtractText(raw) ==
    CASE raw.is = "none" -> Blank
      [] raw.is = "plain" -> raw.text
      [] raw.is = "json" -> raw.obj.text

\* Mutant of FindUrl: the text is looked at like any other key.
FindUrlAnywhere(obj) ==
    IF obj.url # "none" THEN obj.url ELSE IF obj.text = "http" THEN "http" ELSE "none"

\* _find_url passes over the keys that hold what somebody wrote.
FindUrl(obj) == IF obj.at = "desc" THEN "none" ELSE obj.url

\* _media_of, for content that is an object.
MediaOf(obj) ==
    [kind |-> IF FindUrl(obj) = "gif" \/ obj.gifType THEN "gif"
              ELSE IF obj.sticker THEN "sticker" ELSE "image",
     url |-> FindUrl(obj)]

Texts(text) == IF text = Blank THEN <<>> ELSE <<text>>

\* _share_of: the title, a description or the text, and the author.
ShareTitle(obj) ==
    LET title == IF obj.title # Blank THEN obj.title
                 ELSE IF obj.at = "desc" /\ obj.url # "none" THEN obj.url ELSE obj.text
    IN Texts(title) \o Texts(obj.author)

KindOf(hints, text) ==
    CASE hints.type = 1 -> "text" [] hints.type = 2 -> "image" [] hints.type = 5 -> "video"
      [] hints.type = 7 -> "share"
      [] OTHER -> IF text = Blank /\ hints.share THEN "share" ELSE "text"

\* An object without any of the keys, as a string: "{}".
IsEmptyString(raw) ==
    raw.is = "json" /\ raw.obj = [as |-> "string", text |-> Blank, share |-> FALSE,
        title |-> Blank, author |-> Blank, url |-> "none", at |-> "other",
        gifType |-> FALSE, sticker |-> FALSE]

Shown(kind, body) == [kind |-> kind, body |-> body]

\* Mutant of Otherwise: the hint is taken as it is.
OtherwiseAsHinted(hints) == Shown(KindOf(hints, Blank), <<>>)

\* No text, no media, no hint.
Otherwise(hints) ==
    Shown(IF KindOf(hints, Blank) = "text" THEN "unknown" ELSE KindOf(hints, Blank), <<>>)

ToEvent(raw, hints) ==
    LET text == ExtractText(raw) IN
    CASE raw.is = "json" /\ raw.obj.share -> Shown("share", ShareTitle(raw.obj))
      [] raw.is = "json" /\ ~raw.obj.share /\ FindUrl(raw.obj) # "none" ->
            Shown(MediaOf(raw.obj).kind, <<MediaOf(raw.obj).url>>)
      [] raw.is # "json" /\ hints.visible -> Shown("system", <<>>)
      [] OTHER -> IF text # Blank THEN Shown(KindOf(hints, text), <<text>>)
                  ELSE IF IsEmptyString(raw) THEN Shown("sticker", <<>>)
                  ELSE Otherwise(hints)

-----------------------------------------------------------------------------
\* The comment at line 256: whatever the content and the hints, no message is
\* shown as a blank text.
NeverBlank(raw, hints) == ToEvent(raw, hints).kind = "text" => ToEvent(raw, hints).body # <<>>

\* What somebody typed is shown as it was typed, also when it looks like a URL or
\* like JSON, and whether the object comes spelled out or not.
TypedTextShown(raw, hints) ==
    (/\ raw.is = "json" /\ raw.obj.text # Blank
     /\ ~raw.obj.share /\ raw.obj.url = "none" /\ hints.type \in {0, 1})
    => ToEvent(raw, hints) = Shown("text", <<raw.obj.text>>)

\* The comment at line 131: text is never shown as media; the body of a picture,
\* sticker or video is the URL that came with it, unless message_type is what
\* calls it an image (2) or a video (5).
TextIsNoMedia(raw, hints) ==
    LET ev == ToEvent(raw, hints) IN
    (/\ ev.kind \in {"gif", "sticker", "image", "video"}
     /\ ev.kind = "image" => hints.type # 2
     /\ ev.kind = "video" => hints.type # 5)
    => ev.body = <<>> \/ (raw.obj.url # "none" /\ ev.body = <<raw.obj.url>>)
=============================================================================
