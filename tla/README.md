# A TLA+ model of the TikTok DM bridge

The bridge logs one TikTok account in through a real browser, stores its chats
in SQLite and serves them to a local web page. This directory holds TLA+
modules that model it, configurations that check them with TLC, and theorems
checked with TLAPS. `PROJECT.json` maps every definition to the lines
it translates and lists runs, hazards, findings and theorems.

## 1. The system

| Part | State it keeps | Operations | Makes it correct |
| --- | --- | --- | --- |
| `bridge/live.py` **LiveBridge**, login life | dict `logins`, `LiveLogin` (state, authenticated, ctx, page, provider), command queue, stop event | HTTP threads: `connect`, `logout`, `shutdown`, `submit`; worker thread: `_run`, `_do_open`, `_tick`, `_check_login`, `_establish`, `_sync_now`, `_do_close`, `_do_logout` | one browser per profile, none left behind; connected means a live browser and a provider; only the account's chats are shown; logout leaves nothing; nothing stays opening |
| **LiveBridge**, ingest | `init_bodies`, `oldest_us`, `SyncState` (cursors, seen) | `_capture_init`, `_attach_ws`, `_ingest_init`, `_ingest_message`, `_sync_tick`, `_load_older`; `Syncer.poll_once` | every message is stored in the end; cursor and dedup set never run ahead of SQLite; history reaches the start |
| `bridge/pipeline.py` **Pipeline** | SQLite: logins, users, threads, events; webhook dead letter | upserts, `ingest_event`, `wipe_login`, reads, `_fire_webhook` | ingest is idempotent; a wipe leaves no row; webhook at least once or dead-lettered |
| `bridge/session_store.py` | sealed blob per login, `master.key` | save, load, delete, create key | a crash leaves the old or the new key, readable |
| `bridge/providers/web.py`, `bridge/web/page.py` | frame callbacks, history template | signed calls in the page, `subscribe` | errors are classified: AuthError ends a login, the rest is noted |
| `bridge/web/frontier.py`, `bridge/proto.py`, `bridge/normalize.py` | none | decode frames and bodies, encode requests | decode and encode are inverse on what is re-sent |
| `bridge/webapp.py`, `wrapper/` | page: LOGIN_ID, POLL, CUR_THREAD | HTTP front ends; the page polls status, chats, messages | an answer is shown where it belongs |
| `bridge/app.py`, `bridge/api.py` | `BridgeRuntime.logins`, `LoginManager.pending`, `BridgeApp._backoff` | add, connect, poll, remove; start, step, delete | no login left connecting; back-off resets on success only |
| `bridge/client.py` | attempt of a request | send, classify, retry, wait | every failure waits, retries end |
| `bridge/providers/tikapi.py` | `_sent_cmids`, `_conv_meta` | `send_text`, list conversations | what was sent is not sent again |
| `scripts/redact-capture.py` | map of user ids | walk a capture, scrub, select fixtures | one stand-in per id, under id keys and in bytes |
| `bridge/proxy.py`, `bridge/auth/`, `bridge/metrics.py`, `bridge/cmd/` | little or none | fail over, password ladder, ratios, start-up and tools | see section 6 |

Interaction: the page calls HTTP handlers, which run on threads of their own,
change the dict under a lock and put commands on a queue. One worker thread owns
Playwright, takes the commands, and between two of them ticks over the dict.
While it waits for the page, Playwright calls it back with responses and
websocket frames. TikTok, the user at the login window and the operating system
act whenever they like.

Hard behaviours: check-then-act over two locked regions; in-memory state and
SQLite row changed in separate steps; browser launches that fail half-way; a
user and a time-out racing; frames lost, repeated or interleaved with a poll;
sessions that expire during a login; restarts that keep the disk only.

## 2. The modules

### LiveBridge (core)

One action per region another thread or a crash can fall into: a locked region,
a SQLite statement, a queue operation, a browser operation.

* `ConnectCheck .. ConnectOpen` are the five steps of one `connect()` call, held
  per call in `cpc` with its local `existing` in `old`. A `LiveLogin` object is
  named by the call that makes it, so `logins` (the dict entry) is a call or
  `NoLogin`.
* `wpc` says where the worker is: `get` (queue), `tick`, or a step of a handler
  for the login `cur`, after which it goes to `ret`. `_set_state` and `_fail`
  change `st` and leave the row to the next step, `WriteRow` (`pend`).
* `ctx[l]` is the browser a LiveLogin refers to, `orphans` counts live ones
  nobody refers to any more. `_do_open` runs `Launch`, one of the `Probe`
  actions, `OpenWindow`; `_check_login` the `Check` actions and `Takeover`;
  `_establish` `EstablishWipe`, `EstablishUpsert`, `Establish`, a first sync and
  `MarkConnected`; `_do_logout` the five `Logout` steps. Each browser step has a
  variant in which it raises, with the handler that catches it.
* `row`, `rows`, `sealed` and `jar` are what the disk holds: the login's row,
  the accounts whose chats are stored, the sealed blob, the cookie in the
  profile. `Restart` keeps only these.
* What the syncs ingest is reduced to its account (`MayStore`); Ingest models it.

`Overlap` chooses the client. With TRUE, calls come at any time. With FALSE a
call is made only when no `connect()` is inside its steps and no logout is
pending; close and open commands may still be queued. The shipped page shows the
connect button before a queued logout is done, so FALSE is an assumption on the
client; the race run shows what happens without it.

### LoginService and LiveBridgeService

What all this promises those who use the login: four variables. `phase` is the
state a client is told, `asked` a logout under way, `who` the account in the
profile, `chats` whose chats are stored; its actions say which state follows
which, that a login is connected with one account's chats only, and that a login
goes away only on a logout that was asked for, its chats and session gone first.
`Promised` marks what holds only for a client that waits. `LiveBridgeService`
gives the mapping (the state of the entry in the dict, a logout in the queue or
at the worker, `jar`, `rows`) and the property `ImplementsService`.

### LiveBridgeInv, LiveBridgeProofs, LiveBridgeServiceProofs

The inductive invariants, the proofs of type correctness and of the safety
properties, and the proof of the refinement (section 5). `MCLiveBridge` adds the
symmetry for TLC.

### Ingest

How one login's messages reach SQLite: backlog bodies, websocket frames, the
poll, and history. The worker's position `pc` is the call it waits for; frames
(`Deliver`) and backlog responses (`LateBacklog`) are delivered in between, as
Playwright does. `sock` is closed, deaf (opened before there was a provider) or
tapped. A message is a conversation and a time, its place in the order of
sending. `kind` and `last` are the columns of the threads row that the chat list
is made from; `oldest`, `cursors` and `seen` are the variables of that meaning.
`MCIngest` is the module TLC runs.

Two assumptions on TikTok, which the repository does not settle: a cursor of
`get_messages` asks for the messages after it, oldest first, and the answer's
next cursor is its last message (the meaning under which both `backfill` and
`poll_once` of sync.py work, and the one that the fixture
`tests/fixtures/web/messages_synth.json` has); conversations are listed newest
first. The login's own life is reduced: `Connect` starts a fresh `LiveLogin`
after none, a failure or a logout, and `wipe_login`, the upsert and the fresh
object are one step, since nothing of the old login's ingest runs between them.

`IngestProofs` proves its safety.

### Page

The wrapper's page on top of `LoginService`: the bridge's part of its steps are
the service's actions with `Overlap` TRUE, since the page lets its user click
before a call has taken effect. A click or a timer sends a request (`ClickConnect`,
`StatusTimer`, `ClickLogout`), the bridge serves it, the answer or an error is
handled later by whatever the page shows then. `poll` is the timer `POLL` refers
to; `leaked` are timers that still run after `POLL` was overwritten. `errs` counts
requests that end in a 5xx, served or not.

### Pane

The message pane: opening a thread, the refresh every five seconds, "load older",
and their answers in any order, rendered as `loadMessages` does, with its
comparison to what was rendered last. Behind it are `messages()` with its limit
and the worker's queue of `load_older` jobs: `OlderTimesOut` is `submit()` giving
up after 60 seconds, or the proxy, with the job still in the queue, `RunJob` the
worker running it, also for nobody. Messages are stored in any order, since a
sync may bring one that is older than what the socket has brought.

`logout()` of the page and of the bridge belong to it. A click clears the timer
(`TimerStops`, which also stands for the other places that clear it) before its
request is sent, so that the timer is off under an open thread while the request is
on the way, and for good if it fails; a status "connected" starts it again. The
bridge queues the request (`LogoutServed`) and deletes the rows later (`ChatsWiped`);
the answer closes the thread and puts a placeholder in the pane (`LogoutAnswered`)
but leaves `LAST_RENDER`, the button of `loadOlder` and all answers on the way.
`NextLogin` is the next login on the same page, with what its first sync stores.

`WrapperProofs` proves the safety of the two halves of the wrapper's page.

### Runtime

Concurrent requests for one login id of the v1 API, each in a thread of its own:
`StartStep` to `PopPending` are the steps of a POST to step (ladder, `add_login`,
`connect` with its first poll, `ingest_event` and the webhook, state, row),
`Delete` is `remove_login`. A `LoginRecord` is named by the request that makes
it, so two steps may make two, the later one replacing the other while it is
being connected. `Crash` keeps SQLite and the dead-letter file.

### SyncLoop, KeyFiles, TikApi

* `SyncLoop`: `BridgeApp.run` over `Client._do`. A reply of each class, retries
  with their waits, Retry-After, the back-off of the loop. `burst` counts the
  requests since the loop last waited, `limited` the rate limits since a success.
* `KeyFiles`: processes that start together, read or create `master.key`, hold
  the ports, save and delete the sealed session. One step is one system call, and
  a process may die between any two.
* `TikApi`: calls of `send_text` on several threads, with the guard read before
  the request and set after it.

`PartsProofs` proves the safety of Runtime and of these three, and `NumberFacts`
what several proofs need of numbers: the least and the greatest of a finite set,
and powers of two.

### Codec, Frontier, Normalize, Redact

Algorithms on data, each with what must be true of any input. `Codec` is
`bridge/proto.py` on bytes: varints, fields, the guess that a value is a nested
message, trees. `Frontier` is the way out and in on top of it: trees encoded
again, and the way of a message from frame, backlog body or history page in
`bridge/web/frontier.py`, with the decoding of its content: `Utf8` is Python's
`decode("utf-8", "replace")`, by the lengths and ranges of UTF-8, and a text is the
bytes that would spell it. `Normalize` is `to_event`: from the keys a content has
and the hints around it to the kind and body shown. Loops and recursion are recursive
functions, of the position in a buffer or of the depth left. `CodecProofs` and
`FrontierProofs` have the theorems of the two for buffers of any length.

`Redact` is the map of ids of `scripts/redact-capture.py`. `walk` takes a value for
an id under one of the id keys and if it is a number of six digits or more; a
`conversation_id`, another key and text that is not JSON go to `scrub_str`, which
knows no ids. `scrub_bytes` is modelled on the bytes of a body: the digits and the
varint of each id are replaced wherever they are found, one id after the other.

`MCParts` puts the parts from Page to Redact into one run: a behaviour is of one
part while the others stay as they begin, and an algorithm's input is chosen at the
start. Page and Pane are two views of one page; what they have in common, the timer
and the logout, `Pane` has as steps of its own that may fall at any time. The other
parts share no state. `PartsProofs` is about that module, and
has the theorems of Normalize and those that carry what is proved of any buffer
over to the properties of the run.

## 3. The runs

| Run | Shows |
| --- | --- |
| `LiveBridge_serial` | with a client that waits: types, the inductive invariant, one browser, owned browsers, connected is backed, one account's chats, logout wipes, opens find their login; every step is one of LoginService |
| `LiveBridge_live` | with overlapping clients: row agrees with state when nothing is under way, opening ends, a window with a session in it is acted on even after its time-out (unless overlapping opens have left it behind a provider), logout ends the login |
| `Ingest_safety` | cursor and dedup set never ahead of the table |
| `Ingest_live` | every message stored, chat list up to date, history complete, with a socket that may never work |
| `Parts`: Page | the user can always act or wait for something (`CanAlwaysAct`); a login finished late is shown (`LateLoginShown`) |
| `Parts`: Pane | an answer that is not drawn is what the pane shows, or a logout has put the placeholder there (`SkippedIsShown`); the pane settles on what `messages()` gives for the open thread (`PaneSettles`) |
| `Parts`: Runtime | no login left connecting (`ConnectSettles`), no event lost without a crash (`NoEventLost`), three webhook calls at most (`BoundedRetry`) |
| `Parts`: SyncLoop | no spinning (`NeverSpins`), the back-off counts rate limits only (`BackoffFollowsLimits`) |
| `Parts`: KeyFiles | the key is never replaced under a process (`HoldsTheStoredKey`), the session can be opened (`SessionReadable`) |
| `Parts`: TikApi | a success is not repeated (`NotSentAgain`) |
| `Parts`: Codec | a wrong guess never loses the buffer around it (`CodecNested`), a request is sent again byte for byte exactly if it is canonical (`CodecRoundTrip`), a message arrives on three ways with the text its content spells, unchanged if it is UTF-8 (`CodecDelivers`) |
| `Parts`: Normalize | no blank text, typed text as typed, text not as media unless `message_type` says image or video (`EventNeverBlank`, `EventTextShown`, `EventTextIsNoMedia`) |
| `Parts`: Redact | one stand-in for each id that a JSON body names, under the id keys of JSON fixtures and in protobuf fixtures (`CaptureIsPseudonymous`) |
| `LiveBridge_race` | finding: two calls at once give two browsers |
| `LiveBridge_expired` | finding: needs_user overwritten by connected |
| `LiveBridge_logout_restart` | finding: logout after a restart deletes nothing |
| `Ingest_page` | finding: a conversation outside the first page is not polled |
| `Ingest_deaf` | finding: the socket opened while logging in is not heard |
| `Pane_newest` | finding: in a long thread the newest messages are never shown |
| `Runtime_delete` | finding: DELETE of a v1 login deletes no row |

Bounds. `LiveBridge_serial` has three connects, two flows, two accounts, one
logout and one restart: enough for a reconnect over a failed login whose window
is open, a logout between two logins, a second account on the same profile, and
a restart in every step. The proofs lift these bounds. `LiveBridge_live` has two
connects, one account and one logout, so that a logout can fall anywhere in a
reconnect. `Ingest_safety` has pages of one message, so a conversation takes
several polls, and three messages over two conversations with a second login and
a lost socket; `Ingest_live` has two messages, one login and no loss, but the
socket may stay closed or deaf for ever, and a backlog may never come. In
`Ingest_page` a page holds one of two conversations.

In `Parts` the page has one connect and one failed request at a time (a second
connect needs the first one answered, and the timers it leaks show with one); the
pane has two threads of up to three messages, one with all of them stored and one
with the middle one, so that a newer and an older message may come while it is open,
by itself or with an older page; answers of two rows, two messages requests and one
older job at once, and one lost request, so that an answer for the thread left behind,
a full answer, a logout, a login after it and a job that outlives its caller meet; the
runtime two steps, one DELETE, one message that both fetch, and a crash; the
loop an interval of 2 below a maximum of 7, which the doubling does not hit
exactly, two retries, a Retry-After of 0 or 1, and four rate limits in a row; the
files two processes and three keys; TikAPI three calls that share one id. The
codec gets every buffer of up to four of the bytes that mean something to it,
and every request of one or two fields, of three with one number between two of
another, and of a message in its frame, over strings that look like text, like a
message, like the end of one, like one that is written in another way, or like
UTF-8, whole and cut; `Normalize` every combination of keys and hints;
`Redact` every capture of up to three records, JSON, other text and bytes, over ids of
five to nine digits: two have as many digits and different varints, one is within
another as text, one as a varint. The proofs lift
the bounds of every part up to TikApi, for the safety properties, and those of
Codec, Frontier and `Normalize`; those of `Redact` stand.

Counters without a bound in the code (messages, logins, logouts, restarts,
losses, requests on the way, rate limits, keys) are capped by constants whose
names begin with `Max`, each in the guard of one or two actions. Deadlock is not
checked: with its bounds used up, or after a shutdown, the system may stop.

## 4. Fairness

LiveBridge: weak fairness of the worker, because it is a thread of its own and
every Playwright call has a time-out; strong fairness of `Tick`, because the
clock lets the one-second condition pass again and again while the loop runs;
weak fairness of the remaining steps of a call that has begun. Nothing is
assumed of users, TikTok, or of a browser step failing or succeeding.

Ingest: weak fairness of the worker's own steps, strong fairness of `SyncDue`
(the poll interval passes again and again) and of the calls of a sync: a call
that TikTok gets again and again is answered now and then. `LoadOlder` is
strongly fair, that is, the user keeps scrolling up; only `HistoryReachesStart`
needs it. Nothing is assumed of the socket or of the backlog. Each liveness
property is released when the login stops being connected.

Page: the status timer goes on, and a status request is served and answered.
`LateLoginShown` speaks of times when the page is polling and no connect or
logout is on its way; what fails is bounded by `MaxErrors`. Pane: the refresh
timer reloads the open thread as long as it runs, a messages request is served and
answered, unless it is one of the `MaxLost` that fail. That the timer runs is not
assumed: `PaneSettles` has it as its premise, since a logout that fails stops it
under the open thread. Nothing is assumed of `load_older`, of the user or of the bridge.

## 5. What is proved

Two results of LiveBridgeProofs hold for every client. `TypeCorrect`: `TypeInv` adds
to `TypeOK` that a call about to queue a close has a login to close, without which
the queue would not be typed. `StoredStateAgrees`, though state and row change in
separate steps and calls, worker and logout interleave freely: `RowInv` says that a
row may be behind only while the worker handles the login in the dict, and then it
writes the row last, or while a login that took its place still has its open to
come (`Reopens`), and whatever that comes to is written too; and that a row is
missing only between a wipe and the upsert or the end of the logout that follow.

The rest assumes `~Overlap`. `OneBrowser` and its companions
are not inductive: that a launch finds no browser depends on the close having
been queued before the open, on no second open being queued, and on the login
not being touched between its registration and its open. `IInv` says so in
parts: `CallInv` (one connect() at a time, none while a logout is pending,
what the dict holds at each of its steps), `QueueInv` (at most one open, closes
before it, logouts after both), `OpenInv` (an untouched login has its open
queued), `BrowserInv` (at most one live browser, owned), `WorkerInv` (state of
the login at each label), `LogoutInv` (what a logout has closed and wiped stays
so), `BackedInv` (provider and browser), `AccountInv` (rows and cookie). `Invariance` proves it with one step per action and one per part
the action can disturb; actions that change only a handler's data go through the
lemmas `LocalFrame` and `BrowserFrame`. Corollaries: `BrowsersAreOwned`,
`AtMostOneBrowser`, `ConnectedHasABrowser`, `ChatsAreOfTheAccount`, `WindowsHaveNoProvider`
(`BackedInv`: what `WindowIsWatched` has to except for overlapping clients does not
happen to one that waits), and the action properties `LogoutLeavesNothing` and
`OpensAreNotLost`. Besides `~Overlap` they use the constants' assumptions only:
the number of calls, accounts, logouts and restarts is arbitrary.

The refinement (LiveBridgeServiceProofs) holds for every client:
`BridgeImplementsService` has no assumption but the constants'. `SInv` joins what
holds of any client (`TypeInv`, and `HandledInv`: a login nobody has registered
is as it was made, the worker handles logins the dict has held) with `IInv` and
`MarkInv` (in which state a login is marked as connected) for one that waits. Each
group of actions is shown to be a step of LoginService or a stutter by lemmas
that say what one service step needs. What LoginService promises is therefore true of the bridge:
`BridgeShowsOneAccount` is `ShowsOneAccount` of the service, carried over.

Page (WrapperProofs): `PageUsesTheService` shows that the bridge's part of every step is
one of LoginService with overlapping calls, so the page stands on what the bridge
does. `CanAlwaysAct` is inductive together with the types and with the tab of the
chats being enabled while they are shown (`ChatsHaveTheirTab`), since a logout is
asked for from there; for any number of connects and failed requests.

Pane (WrapperProofs): that equal thread, number and last message mean equal messages is
not true of any two sets, but it is of what `messages()` answers. Each answer is the
lower end of what was stored when it was served (`AnswersAreStored`), and what is
stored only grows until a logout wipes it; so of two answers the earlier one has, up
to the last message of the later one, nothing that one has not (`AnswersAreOrdered`).
With the same last message it is part of the later one, and with the same number it is
the same. Answers served after the wipe are empty, as long as nobody is logged in
(`NothingIsLeft`), and the next login begins when the old answers have come. That
`LAST_RENDER` is of what is shown (`SigIsOfShown`) fails only while a logout has put
the placeholder there and no thread is open: opening one empties it, so that the first
answer is drawn. For any limit, threads, messages and number of requests, in any order.

Ingest (IngestProofs): `CursorCovers` needs that an answer has no gap between the
cursor and its last message (`FetchedInv`), that what is sent later is newer
(`SentInv`) and that a sync runs only while no error has ended the login
(`SyncInv`); for any conversations, page sizes, messages, logins and losses.

KeyFiles: whoever writes the key has made the file and nobody runs yet
(`WriterIsAlone`), one process has the ports (`OneServes`); for any processes and
keys. TikApi: a call past the guard has an id that was not in it (`PastTheGuard`),
and all that succeeded in this process are in it (`Guarded`); any calls and ids.
SyncLoop: `BurstInv` bounds the requests by the attempt; `BackoffCountsLimits` needs
that doubling up to a maximum is the power of two up to it, for powers taken from the
library's theorem on the number of subsets (NumberFacts), as an induction over an
operator is out of reach; any interval, limit and number of retries. Runtime: `HookInv` (one request hands over a message, and
counts its calls), `LookedUp` (the record in the dict still has a request that
will give it a state), `OwnRecord` (state and flag of a record one request uses),
`CrashInv`; any number of requests, messages and crashes.

Codec (CodecProofs): for buffers, numbers and fields of any length. The library's
induction theorems take an operator and are out of reach, so `RankInduction` and
`Recursion` are proved for sets and functions: a definition each value of which
depends on values of lesser rank (the distance to the end, the number left to
write, the depth left) defines a function. From then on every loop of proto.py
is known by its equation (`VarintsAre`, `FieldsFromIs`, `ValidFromIs`,
`DecodeIs`). `VarintIsRead`: a number is read as written, wherever it stands.
`FieldsAreRead`: decode_fields gives the fields encode_fields was given, and
takes what they were written to for a message. `NestedNeverFails`: a buffer that
`_valid_message` accepts has fields that decode, so a guess can only fail
deeper, and by induction on the depth nowhere; the run's `CodecNested` follows
(`GuessesAreHarmless`).

Frontier (FrontierProofs): which requests are sent again as they were.
`CanonicalIsSentAgain` says it for every buffer that decodes: exactly the canonical
ones, and `canonical` speaks of the buffer's fields only, at each level that is taken
for a message, never of trees. A tree puts the values of a number together, each
number once (`Tidy`); so the values come out with each number's in a row
(`TidyInRows`), and in the order they came in if they were in a row before
(`GroupedIsTidy`). As encode_fields can be undone (`FieldsAreRead`), the buffer comes
back as it was if and only if that order, the varints and each nested message do;
`WritesAsItWas` is the induction on the depth. The run's `CodecRoundTrip` follows
(`RequestsAreSentAgain`).

`MessagesAreDelivered`: a message of any id, time, content, with or without a notice,
is read from frame, backlog body and history page with the text its content spells, or
not at all if it is a command, and the page's cursor with it. What the text is, is
decided by `Utf8`, in which each byte that begins no character becomes U+FFFD;
`Utf8IsKept` says by induction on the distance to the end that a buffer of whole
characters stays as it is. Each wrapper is one field,
so that its tree has one value at that number (`ReadOne`), which is a nested message
one level deeper (`Down`); four levels down the fields are known (`InnerIsRead`), and
a content that was taken for a message is written as it was, as far as it is
canonical in the depth that is left (`EncodesDeeper`: encode_tree may have more). Any other
content is read as text or bytes. The run's `CodecDelivers` follows
(`ContentsAreDelivered`).

Normalize (PartsProofs): its three properties for any content and hints, whatever
the texts, titles, URLs and types in them, by the branches of `to_event`
(`EventIs`) and the kinds they give (`KindsAre`). `MediaIsNotText` is about gifs,
stickers, images and videos; that a text is shown as an image or a video when its
message_type says 2 or 5 is what the code does, and the property excepts it.

Only model-checked: all liveness (fairness and ENABLED are outside the prover's
reach), and `CaptureIsPseudonymous`. That one is not true of every capture: a
stand-in carries a counter of four digits, so that after 9999 ids it has not the
form of the id any more, and a real id may look like a stand-in. Nor is a protobuf
body always what it would be with the stand-ins in it, since an id's bytes may be
found in another number; the property excepts such bodies (`Apart`), and the run has
some. The script folds an operator over the records and over the ids of each, and so
what it makes of every capture within those limits is an induction over data.

## 6. Not modelled

* Browser internals: a `close()` that raises is taken to have closed the browser
  (the code logs and forgets it), `wait_profile_unlocked` to succeed. A crash of
  the process takes its browsers along.
* Deletions of `_do_logout` succeed. If one raised, the worker thread would end
  and every later command would wait for ever.
* Contacts, profiles, lag samples, error counters, the ratios of
  `bridge/metrics.py`: no control depends on them.
* A login on the same page while answers of the one before are still on their way:
  `NextLogin` waits for them, as a login takes longer than a request. Nor a login from
  elsewhere under an open thread, after which other messages could come to the same
  number and last message.
* The page's health view, the drawing of rows, and more than one status request
  at a time.
* Of the codec: the frame's outer envelope and gzip, profiles. A string that
  parses as a message with a value of a fixed width ("5abcd"), with a number that
  comes back after another ("0a8a0a"), or with a varint of more bytes than it needs,
  is not put back as it was: `canonical` says exactly which are. encode_tree's
  docstring promises an inverse for the fields built here only.
* Of `Redact`: secrets, handles, names, request bodies and the manifest; what
  `scrub_str` does to text. Of TikAPI: reading and
  parsing. Of the v1 API: `start` and the reads.
* `SyncState`'s file, saved on Ctrl-C of the run command: the mobile client's
  conversation list is always empty, so that there is nothing in it.
* `bridge/proxy.py`: failing over has no caller outside the tests. Login drivers,
  OAuth, e-mail codes, capture recorder, page scripts: they drive pages or parse
  inputs and keep no state the bridge relies on. Signing, encryption.

## 7. What could follow

1. Two logins in Runtime, which share the events table: its rows are unique by
   thread and message, without the login.
2. A deletion that raises in `_do_logout`, with liveness up to that point.
3. `ProxyPool`, `Metrics` and the reader's paging as algorithms, once something
   in the repository says what they have to satisfy.
4. `CaptureIsPseudonymous` for any capture of fewer ids than the counter has numbers,
   with the folds of `Redact` as recursive functions over the places of its records.
