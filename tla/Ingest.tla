------------------------------- MODULE Ingest -------------------------------
(***************************************************************************)
(* How the messages of one login get into SQLite, and stay complete.       *)
(*                                                                         *)
(* Four ways lead there: the backlog the /messages page fetches when it    *)
(* loads (init bodies), frames of the page's own websocket (the frontier), *)
(* the REST poll with a cursor per conversation, and pages of history the  *)
(* user asks for.  One worker thread runs them all, but frames are handed  *)
(* over whenever it waits for the page, so they interleave with the calls. *)
(* TikTok and the page are the environment.                                *)
(***************************************************************************)
EXTENDS Naturals, FiniteSets, FiniteSetsExt

CONSTANTS
    Convs,      \* conversations
    Groups,     \* those with more than two people
    MaxSent,    \* bound on the messages sent
    Page,       \* messages in one answer of TikTok
    ConvPage,   \* conversations in one answer of TikTok
    MaxLogins,  \* bound on connects
    MaxDrops    \* bound on socket losses

ASSUME ConvsAssumption == Groups \subseteq Convs
ASSUME SizeAssumption ==
    /\ MaxSent \in Nat /\ MaxLogins \in Nat /\ MaxDrops \in Nat
    /\ Page \in Nat \ {0} /\ ConvPage \in Nat \ {0}

VARIABLES
    sent,     \* messages TikTok has
    sock,     \* the page's websocket: closed, deaf (no handler) or tapped
    wire,     \* frames of a tapped socket not handed over yet
    state,    \* LiveLogin.state
    pc,       \* the call the worker waits for, or what it does next
    prov,     \* LiveLogin.provider is not None
    bodies,   \* messages of LiveLogin.init_bodies
    cursors,  \* SyncState.cursors; 0 is ""
    seen,     \* SyncState._seen
    oldest,   \* LiveLogin.oldest_us; 0 is no entry
    todo,     \* conversations poll_once has still to fetch
    resp,     \* messages of an answer that is being handled
    events,   \* rows of the events table
    kind,     \* thread_type of the threads rows, or none
    last,     \* last_ts of the threads rows
    nlogin,   \* connects so far
    ndrop     \* socket losses so far

page == <<sock, wire, bodies, ndrop>>
sync == <<cursors, seen, todo>>
tables == <<events, kind, last>>
login == <<state, prov, oldest, nlogin>>
vars == <<sent, page, sync, tables, login, pc, resp>>

-----------------------------------------------------------------------------
(* Messages.  A message's time is its place in the order of sending. *)

Messages == [conv : Convs, ts : 1..MaxSent]
Of(S, c) == {m \in S : m.conv = c}
Times(S) == {m.ts : m \in S}
Newest(S) == IF S = {} THEN 0 ELSE Max(Times(S))
Oldest(S) == Min(Times(S))
First(n, S) == {m \in S : Cardinality({o \in S : o.ts < m.ts}) < n}
Last(n, S) == {m \in S : Cardinality({o \in S : o.ts > m.ts}) < n}

\* What TikTok answers: conversations, newest first; the messages of one after
\* a cursor; those before one; the end of every conversation.
Listed == {c \in Convs :
             /\ Of(sent, c) # {}
             /\ Cardinality({d \in Convs : Newest(Of(sent, d)) > Newest(Of(sent, c))})
                < ConvPage}
After(c) == First(Page, {m \in Of(sent, c) : m.ts > cursors[c]})
Before(c) == Last(Page, {m \in Of(sent, c) : m.ts < oldest[c]})
Backlog == UNION {Last(Page, Of(sent, c)) : c \in Convs}

\* _ingest_message, for each of S: the thread's row is upserted as a direct
\* chat, the event inserted unless it is there.
Upsert(S) ==
    /\ kind' = [c \in Convs |-> IF Of(S, c) = {} THEN kind[c] ELSE "dm"]
    /\ last' = [c \in Convs |-> Max({last[c], Newest(Of(S, c))})]
    /\ events' = events \cup S
Lowered(S, c) == Min({oldest[c]} \cup Times(Of(S, c)))
Remember(S) ==
    oldest' = [c \in Convs |->
                 IF Of(S, c) = {} THEN oldest[c]
                 ELSE IF oldest[c] = 0 THEN Oldest(Of(S, c)) ELSE Lowered(S, c)]
IngestMessages(S) == Upsert(S) /\ Remember(S)

-----------------------------------------------------------------------------
Init ==
    /\ sent = {} /\ sock = "closed" /\ wire = {}
    /\ state = "none" /\ pc = "off" /\ prov = FALSE
    /\ bodies = {} /\ cursors = [c \in Convs |-> 0] /\ seen = {}
    /\ oldest = [c \in Convs |-> 0] /\ todo = {} /\ resp = {}
    /\ events = {} /\ kind = [c \in Convs |-> "none"] /\ last = [c \in Convs |-> 0]
    /\ nlogin = 0 /\ ndrop = 0

-----------------------------------------------------------------------------
(* _establish, on a LiveLogin that connect() has just made. *)

Connect ==
    /\ pc = "off" \/ (pc = "idle" /\ state \in {"needs_user", "error"})
    /\ nlogin < MaxLogins /\ nlogin' = nlogin + 1
    /\ state' = "connecting" /\ pc' = "load" /\ prov' = FALSE
    /\ cursors' = [c \in Convs |-> 0] /\ seen' = {} /\ todo' = {}
    /\ oldest' = [c \in Convs |-> 0] /\ bodies' = {} /\ sock' = "closed" /\ wire' = {}
    /\ events' = {} /\ kind' = [c \in Convs |-> "none"] /\ last' = [c \in Convs |-> 0]
    /\ UNCHANGED <<sent, ndrop, resp>>

\* _attach_ws looks at the provider when the socket is opened, and only then.
Attached == IF prov THEN "tapped" ELSE "deaf"

\* page.goto(/messages), and the wait after it: the page opens a socket and
\* fetches its backlog, if it gets that far in time.
PageLoads ==
    /\ pc = "load"
    /\ sock' \in {"closed", Attached} /\ wire' = {}
    /\ bodies' = bodies \cup Backlog \/ UNCHANGED bodies
    /\ pc' = IF prov THEN "ingest" ELSE "provider"
    /\ UNCHANGED <<sent, sync, tables, login, resp, ndrop>>

MakeProvider ==
    /\ pc = "provider"
    /\ prov' = TRUE /\ pc' = "ingest"
    /\ UNCHANGED <<sent, page, sync, tables, state, oldest, nlogin, resp>>

\* _ingest_init; a few reloads while no thread is there, then the first sync.
IngestInit ==
    /\ pc = "ingest"
    /\ IngestMessages(bodies) /\ bodies' = {}
    /\ \/ pc' = "list"
       \/ pc' = "load" /\ \A c \in Convs : kind'[c] = "none"
    /\ UNCHANGED <<sent, sock, wire, ndrop, sync, state, prov, nlogin, resp>>

-----------------------------------------------------------------------------
(* _sync_tick, _sync_now and Syncer.poll_once. *)

\* A tick starts a sync when poll_seconds have passed, with no backlog left.
SyncDue ==
    /\ pc = "idle" /\ state = "connected" /\ bodies = {}
    /\ pc' = "list"
    /\ UNCHANGED <<sent, page, sync, tables, login, resp>>

\* Mutant of ListThreads: a row that is there is left as it is.
ListThreadsOnce ==
    /\ pc = "list"
    /\ LET new == {c \in Listed : kind[c] = "none"} IN
         /\ kind' = [c \in Convs |-> IF c \notin new THEN kind[c]
                                     ELSE IF c \in Groups THEN "group" ELSE "dm"]
         /\ last' = [c \in Convs |-> IF c \notin new THEN last[c] ELSE Newest(Of(sent, c))]
    /\ pc' = "poll_list"
    /\ UNCHANGED <<sent, page, sync, events, login, resp>>

\* The first call for conversations: their rows.
ListThreads ==
    /\ pc = "list"
    /\ kind' = [c \in Convs |-> IF c \notin Listed THEN kind[c]
                                ELSE IF c \in Groups THEN "group" ELSE "dm"]
    /\ last' = [c \in Convs |-> IF c \notin Listed THEN last[c]
                                ELSE Max({last[c], Newest(Of(sent, c))})]
    /\ pc' = "poll_list"
    /\ UNCHANGED <<sent, page, sync, events, login, resp>>

\* The second one, in poll_once: whose messages to fetch.
PollList ==
    /\ pc = "poll_list"
    /\ todo' = Listed /\ pc' = "poll"
    /\ UNCHANGED <<sent, page, cursors, seen, tables, login, resp>>

\* Mutant of Fetch: an empty answer is handled like any other.
FetchAnything(c) ==
    /\ pc = "poll" /\ c \in todo
    /\ todo' = todo \ {c} /\ resp' = After(c)
    /\ pc' = "fetched"
    /\ UNCHANGED <<sent, page, cursors, seen, tables, login>>

\* An empty answer has no next cursor and nothing to emit.
Fetch(c) ==
    /\ pc = "poll" /\ c \in todo
    /\ todo' = todo \ {c} /\ resp' = After(c)
    /\ pc' = IF After(c) = {} THEN "poll" ELSE "fetched"
    /\ UNCHANGED <<sent, page, cursors, seen, tables, login>>

Answered(c) == Of(resp, c) # {}
Advanced == [c \in Convs |-> IF Answered(c) THEN Newest(resp) ELSE cursors[c]]

\* Mutant of EmitNew: the cursor is not stored.
EmitNewKeepsCursor ==
    /\ pc = "fetched"
    /\ events' = events \cup (resp \ seen)
    /\ seen' = seen \cup resp
    /\ pc' = "poll" /\ resp' = {}
    /\ UNCHANGED <<sent, page, cursors, todo, kind, last, login>>

\* _emit_new, then the cursor.
EmitNew ==
    /\ pc = "fetched"
    /\ events' = events \cup (resp \ seen)
    /\ seen' = seen \cup resp
    /\ cursors' = Advanced
    /\ pc' = "poll" /\ resp' = {}
    /\ UNCHANGED <<sent, page, todo, kind, last, login>>

\* Mutant of EmitFails: the cursor is stored before the messages.
EmitFailsBehindCursor ==
    /\ pc = "fetched"
    /\ \E m \in resp \ seen :
         /\ events' = events \cup {n \in resp \ seen : n.ts < m.ts}
         /\ seen' = seen \cup {n \in resp : n.ts <= m.ts}
    /\ cursors' = Advanced
    /\ state' = "error" /\ pc' = "idle" /\ resp' = {} /\ todo' = {}
    /\ UNCHANGED <<sent, page, kind, last, prov, oldest, nlogin>>

\* Mutant of EmitFails: the error is taken for a provider error and noted.
EmitFailsQuietly ==
    /\ pc = "fetched"
    /\ \E m \in resp \ seen :
         /\ events' = events \cup {n \in resp \ seen : n.ts < m.ts}
         /\ seen' = seen \cup {n \in resp : n.ts <= m.ts}
    /\ state' = "connected" /\ pc' = "idle" /\ resp' = {} /\ todo' = {}
    /\ UNCHANGED <<sent, page, cursors, kind, last, prov, oldest, nlogin>>

\* SQLite refuses the row of m, which is marked as seen by then: the login ends
\* in ERROR.
EmitFails ==
    /\ pc = "fetched"
    /\ \E m \in resp \ seen :
         /\ events' = events \cup {n \in resp \ seen : n.ts < m.ts}
         /\ seen' = seen \cup {n \in resp : n.ts <= m.ts}
    /\ state' = "error" /\ pc' = "idle" /\ resp' = {} /\ todo' = {}
    /\ UNCHANGED <<sent, page, cursors, kind, last, prov, oldest, nlogin>>

Calling == {"list", "poll_list", "poll"}

SyncEnds ==
    /\ pc = "poll" /\ todo = {}
    /\ state' = "connected" /\ pc' = "idle"
    /\ UNCHANGED <<sent, page, sync, tables, prov, oldest, nlogin, resp>>

\* A provider error is noted: the rest of the sync waits for the next one.
CallFails ==
    /\ pc \in Calling
    /\ state' = "connected" /\ pc' = "idle" /\ todo' = {}
    /\ UNCHANGED <<sent, page, cursors, seen, tables, prov, oldest, nlogin, resp>>

\* An AuthError ends the login, unless _establish overrules it.
CallRefused ==
    /\ pc \in Calling
    /\ state' = IF state = "connecting" THEN "connected" ELSE "needs_user"
    /\ pc' = "idle" /\ todo' = {}
    /\ UNCHANGED <<sent, page, cursors, seen, tables, prov, oldest, nlogin, resp>>

\* A backlog that was fetched late is ingested by the next tick.
IngestLate ==
    /\ pc = "idle" /\ state = "connected" /\ bodies # {}
    /\ IngestMessages(bodies) /\ bodies' = {}
    /\ UNCHANGED <<sent, sock, wire, ndrop, sync, state, prov, nlogin, pc, resp>>

-----------------------------------------------------------------------------
(* _load_older: a job the user queues for the worker. *)

LoadOlder(c) ==
    /\ pc = "idle" /\ prov /\ oldest[c] # 0 /\ Before(c) # {}
    /\ resp' = Before(c) /\ pc' = "older"
    /\ UNCHANGED <<sent, page, sync, tables, login>>

\* Mutant of StoreOlder: only new messages move the cursor.
StoreOlderNew ==
    /\ pc = "older"
    /\ IngestMessages(resp \ events)
    /\ pc' = "idle" /\ resp' = {}
    /\ UNCHANGED <<sent, page, sync, state, prov, nlogin>>

\* Messages SQLite has already are skipped; the cursor moves past them, too.
StoreOlder ==
    /\ pc = "older"
    /\ Upsert(resp \ events)
    /\ Remember(resp)
    /\ pc' = "idle" /\ resp' = {}
    /\ UNCHANGED <<sent, page, sync, state, prov, nlogin>>

\* _do_logout, from the closing of the browser to the wipe.
Logout ==
    /\ pc = "idle"
    /\ pc' = "off" /\ state' = "logged_out" /\ prov' = FALSE
    /\ sock' = "closed" /\ wire' = {}
    /\ events' = {} /\ kind' = [c \in Convs |-> "none"] /\ last' = [c \in Convs |-> 0]
    /\ UNCHANGED <<sent, bodies, ndrop, sync, oldest, nlogin, resp>>

-----------------------------------------------------------------------------
(* TikTok and the page. *)

Send(c) ==
    /\ Cardinality(sent) < MaxSent
    /\ LET m == [conv |-> c, ts |-> Cardinality(sent) + 1] IN
         /\ sent' = sent \cup {m}
         /\ wire' = IF sock = "tapped" THEN wire \cup {m} ELSE wire
    /\ UNCHANGED <<sock, bodies, ndrop, sync, tables, login, pc, resp>>

\* A frame is handed over while the worker waits for the page: in a call, or
\* when a tick of a connected login pumps events.
Pumping == pc \notin {"off", "idle"} \/ (pc = "idle" /\ state = "connected")

Deliver(m) ==
    /\ Pumping /\ m \in wire
    /\ wire' = wire \ {m} \/ UNCHANGED wire
    /\ IngestMessages({m})
    /\ UNCHANGED <<sent, sock, bodies, ndrop, sync, state, prov, nlogin, pc, resp>>

SocketDrops ==
    /\ sock # "closed" /\ ndrop < MaxDrops
    /\ sock' = "closed" /\ wire' = {} /\ ndrop' = ndrop + 1
    /\ UNCHANGED <<sent, bodies, sync, tables, login, pc, resp>>

SocketOpens ==
    /\ sock = "closed" /\ Pumping
    /\ sock' = Attached
    /\ UNCHANGED <<sent, wire, bodies, ndrop, sync, tables, login, pc, resp>>

\* The list of the page renders, and is fetched, after the load.
LateBacklog ==
    /\ Pumping /\ pc # "load"
    /\ bodies' = bodies \cup Backlog
    /\ UNCHANGED <<sent, sock, wire, ndrop, sync, tables, login, pc, resp>>

Worker == \/ Connect \/ PageLoads \/ MakeProvider \/ IngestInit
          \/ SyncDue \/ ListThreads \/ PollList \/ (\E c \in Convs : Fetch(c))
          \/ EmitNew \/ EmitFails \/ SyncEnds \/ CallFails \/ CallRefused
          \/ IngestLate \/ (\E c \in Convs : LoadOlder(c)) \/ StoreOlder \/ Logout

Environment == \/ \E c \in Convs : Send(c)
               \/ \E m \in wire : Deliver(m)
               \/ SocketDrops \/ SocketOpens \/ LateBacklog

Next == Worker \/ Environment

Spec == Init /\ [][Next]_vars

\* The worker runs; a call TikTok gets again and again is answered now and
\* then; the user scrolls up again and again.  Nothing is assumed of the socket.
Fairness ==
    /\ WF_vars(PageLoads \/ MakeProvider \/ IngestInit \/ IngestLate \/ EmitNew
               \/ SyncEnds \/ CallFails \/ StoreOlder)
    /\ SF_vars(SyncDue)
    /\ SF_vars(ListThreads) /\ SF_vars(PollList)
    /\ \A c \in Convs : SF_vars(Fetch(c)) /\ SF_vars(LoadOlder(c))

LiveSpec == Spec /\ Fairness

-----------------------------------------------------------------------------
(* What must be true. *)

Kinds == {"none", "dm", "group"}

\* Every variable keeps the values the code can give it; an answer that is
\* being handled is of one conversation and not empty.
TypeOK ==
    /\ sent \subseteq Messages /\ wire \subseteq sent /\ bodies \subseteq sent
    /\ events \subseteq sent /\ seen \subseteq sent /\ todo \subseteq Convs
    /\ sock \in {"closed", "deaf", "tapped"}
    /\ state \in {"none", "connecting", "connected", "needs_user", "error", "logged_out"}
    /\ pc \in {"off", "load", "provider", "ingest", "idle", "older", "fetched"} \cup Calling
    /\ prov \in BOOLEAN
    /\ cursors \in [Convs -> 0..MaxSent] /\ oldest \in [Convs -> 0..MaxSent]
    /\ kind \in [Convs -> Kinds] /\ last \in [Convs -> 0..MaxSent]
    /\ resp \subseteq sent
    /\ pc \in {"fetched", "older"} => \E c \in Convs : resp # {} /\ resp = Of(resp, c)

\* A cursor that has passed a message leaves it behind stored: the next poll
\* will not ask for it again.
CursorCovers ==
    pc # "off" => \A m \in sent : m.ts <= cursors[m.conv] => m \in events

\* What the dedup set holds is in SQLite, or nothing would ever store it.
SeenIsStored == pc # "off" /\ state # "error" => seen \subseteq events

\* Whatever the socket loses, the poll stores every message in the end.
EveryMessageStored ==
    \A m \in Messages :
        m \in sent /\ state = "connected" ~> m \in events \/ state # "connected"

\* The chat list catches up with what is stored: the thread has a row, and its
\* last_ts puts it in its place.
ThreadCatchesUp ==
    \A m \in Messages :
        m \in events /\ state = "connected"
        ~> (kind[m.conv] # "none" /\ last[m.conv] >= m.ts) \/ state # "connected"

\* Scrolling up gets to the start of a conversation, also past messages that
\* the poll has stored in the meantime.
HistoryReachesStart ==
    \A c \in Convs :
        oldest[c] # 0 /\ state = "connected"
        ~> (oldest[c] # 0 /\ oldest[c] = Oldest(Of(sent, c))) \/ state # "connected"

\* A connected login that has a socket hears it.
ConnectedIsTapped == state = "connected" /\ sock # "closed" => sock = "tapped"
=============================================================================
