-------------------------------- MODULE Pane --------------------------------
(***************************************************************************)
(* The message pane of the wrapper's page (wrapper/static/app.js): opening *)
(* a thread, the refresh every 5 seconds, "load older", and the answers to *)
(* all of them, which may come in any order and are rendered as they come; *)
(* the logout, which clears the pane while answers are on the way; behind  *)
(* it, messages(), load_older() and logout() of bridge/live.py.            *)
(*                                                                         *)
(* A message is its place in the thread's history, 1 the oldest.           *)
(***************************************************************************)
EXTENDS Naturals, Sequences, FiniteSets, FiniteSetsExt, SequencesExt

CONSTANTS
    Threads,
    NoThread,   \* CUR_THREAD = null
    Newest,     \* bound on the messages of a thread
    MaxStored,  \* bound on those stored in all threads, when one arrives
    Whole,      \* threads that have their whole history in SQLite after a first sync
    Stored,     \* messages that the others have
    Limit,      \* rows of one messages() answer (200 in the code)
    OlderPage,  \* messages of one older page (30 in the code)
    MaxGets,    \* bound on messages requests on the way at once
    MaxOlder,   \* bound on load_older requests on the way at once
    MaxLost     \* bound on messages and load_older requests that fail

ASSUME PaneAssumption ==
    /\ Limit \in Nat \ {0} /\ Newest \in Nat
    /\ Stored \subseteq 1..Newest /\ NoThread \notin Threads

VARIABLES
    db,      \* the rows of each thread in the events table
    cur,     \* CUR_THREAD
    shown,   \* what the pane shows: a thread and its messages
    sig,     \* LAST_RENDER: the thread, number and last message rendered
    gets,    \* messages requests on the way, answered or not
    timer,   \* refreshChats() is called every 5 seconds, and LOGIN_ID is set
    login,   \* the bridge's login: in, its logout queued, or out
    offer,   \* the "Load older" button is not hidden
    loading, \* ... and disabled, since a request is on the way
    jobs,    \* load_older jobs in the worker's queue
    answers, \* what they were answered with, on the way to the page
    lost     \* requests that failed so far

buttons == <<offer, loading>>
olders == <<jobs, answers>>
pane == <<db, cur, shown, sig, gets, buttons, olders, timer, login, lost>>

NoSig == <<NoThread, 0, 0>>
\* "Pick a chat to read it", or no messages of no thread.
Placeholder == [tid |-> NoThread, rows |-> {}]

\* What the first sync of a login leaves.
Synced == [t \in Threads |-> IF t \in Whole THEN 1..Newest ELSE Stored]

PaneInit ==
    /\ db = Synced
    /\ cur = NoThread
    /\ shown = Placeholder /\ sig = NoSig
    /\ gets = {} /\ offer = FALSE /\ loading = FALSE
    /\ jobs = <<>> /\ answers = {} /\ lost = 0
    /\ timer = FALSE /\ login = "in"

\* messages(): ORDER BY stream_order LIMIT ?, from the start of the thread; the
\* thread "null" has none.  Nobody looks at the login_id that is asked with.
MessagesOf(t) ==
    IF t = NoThread THEN {}
    ELSE {i \in db[t] : Cardinality({j \in db[t] : j <= i}) <= Limit}

\* Mutant of Signature: without the number, as the comment on LAST_RENDER has it.
SignatureOfLast(t, rows) == <<t, 0, IF rows = {} THEN 0 ELSE Max(rows)>>

Signature(t, rows) == <<t, Cardinality(rows), IF rows = {} THEN 0 ELSE Max(rows)>>

\* A request, by what sends it; more is what load_older had said.
Get(t, by, more) == [tid |-> t, by |-> by, more |-> more, rows |-> {}, answered |-> FALSE]

Send(get) ==
    /\ get \in gets \/ Cardinality(gets) < MaxGets
    /\ gets' = gets \cup {get}

-----------------------------------------------------------------------------
\* A message arrives, over the socket or with a sync, and is stored: a sync may
\* bring one that is older than what the socket has brought already.
Ingest ==
    /\ login # "out"
    /\ \E t \in Threads, i \in 1..Newest :
         /\ Cardinality({ti \in Threads \X (1..Newest) : ti[2] \in db[ti[1]]}) < MaxStored
         /\ i \notin db[t] /\ db' = [db EXCEPT ![t] = @ \cup {i}]
    /\ UNCHANGED <<cur, shown, sig, gets, buttons, olders, timer, login, lost>>

\* The button comes back, whatever is on the way.  A status that comes late shows
\* the chats again after a logout.
OpenThread ==
    /\ \E t \in Threads : cur' = t /\ Send(Get(t, "open", FALSE))
    /\ sig' = NoSig
    /\ offer' = TRUE /\ loading' = FALSE
    /\ UNCHANGED <<db, shown, olders, timer, login, lost>>

\* refreshChats(), by its timer or its button, reloads the thread that is open
\* when the list of threads has come.
Refresh ==
    /\ cur # NoThread /\ Send(Get(cur, "refresh", FALSE))
    /\ UNCHANGED <<db, cur, shown, sig, buttons, olders, timer, login, lost>>

ServeGet ==
    /\ \E g \in gets :
         /\ ~g.answered
         /\ gets' = (gets \ {g}) \cup
                    {[g EXCEPT !.answered = TRUE, !.rows = MessagesOf(g.tid)]}
    /\ UNCHANGED <<db, cur, shown, sig, buttons, olders, timer, login, lost>>

\* Mutant of Render: an answer for another thread than the open one, or an
\* unchanged one, is what sig already says it is.
RenderOnce(t, rows, force) ==
    IF sig[1] = t /\ ~force
    THEN UNCHANGED <<shown, sig>>
    ELSE shown' = [tid |-> t, rows |-> rows] /\ sig' = Signature(t, rows)

\* The rest of loadMessages(): whichever thread is open by now, the answer is
\* rendered, unless it looks like what was rendered last.
Render(t, rows, force) ==
    IF rows # {} /\ sig = Signature(t, rows) /\ ~force
    THEN UNCHANGED <<shown, sig>>
    ELSE shown' = [tid |-> t, rows |-> rows] /\ sig' = Signature(t, rows)

AnswerGet ==
    /\ \E g \in gets :
         /\ g.answered /\ gets' = gets \ {g}
         /\ Render(g.tid, g.rows, g.by # "refresh")
         /\ IF g.by = "older" THEN offer' = g.more /\ loading' = FALSE
                              ELSE UNCHANGED buttons
    /\ UNCHANGED <<db, cur, olders, timer, login, lost>>

\* loadOlder() does not catch this one: its button stays disabled.
GetFails ==
    /\ lost < MaxLost /\ lost' = lost + 1
    /\ \E g \in gets : gets' = gets \ {g}
    /\ UNCHANGED <<db, cur, shown, sig, buttons, olders, timer, login>>

-----------------------------------------------------------------------------
(* loadOlder(). *)

OlderAnswer(added, more) == [added |-> added, more |-> more]

ClickOlder ==
    /\ cur # NoThread /\ offer /\ ~loading
    /\ Len(jobs) + Cardinality(answers) < MaxOlder
    /\ loading' = TRUE
    /\ jobs' = Append(jobs, [tid |-> cur, waited |-> TRUE])
    /\ UNCHANGED <<db, cur, shown, sig, gets, offer, answers, timer, login, lost>>

\* submit() gives up, or the proxy does: the job stays in the queue and runs all
\* the same.
OlderTimesOut ==
    /\ lost < MaxLost /\ lost' = lost + 1
    /\ \E i \in DOMAIN jobs :
         /\ jobs[i].waited
         /\ jobs' = [jobs EXCEPT ![i].waited = FALSE]
    /\ \/ answers' = answers \cup {OlderAnswer(FALSE, FALSE)} /\ UNCHANGED loading
       \/ loading' = FALSE /\ UNCHANGED answers
    /\ UNCHANGED <<db, cur, shown, sig, gets, offer, timer, login>>

\* The newest OlderPage messages before the oldest one that is stored.
Older(t) ==
    LET before == {i \in 1..Newest : \A j \in db[t] : i < j} IN
    {i \in before : Cardinality({j \in before : j >= i}) <= OlderPage}

\* The worker runs a job; the provider may also refuse it, or know no short id,
\* or the login is gone, and then nothing is said of more.
RunJob ==
    /\ jobs # <<>> /\ jobs' = Tail(jobs)
    /\ \E new \in {{}, Older(Head(jobs).tid)}, more \in BOOLEAN :
         /\ login = "out" => new = {} /\ ~more
         /\ db' = [db EXCEPT ![Head(jobs).tid] = @ \cup new]
         /\ more => \E i \in 1..Newest : \A j \in db'[Head(jobs).tid] : i < j
         /\ answers' = IF Head(jobs).waited THEN answers \cup {OlderAnswer(new # {}, more)}
                                            ELSE answers
    /\ UNCHANGED <<cur, shown, sig, gets, buttons, timer, login, lost>>

\* The answer is applied to the thread that is open by now.
AnswerOlder ==
    /\ \E a \in answers :
         /\ answers' = answers \ {a}
         /\ IF a.added
            THEN Send(Get(cur, "older", a.more)) /\ UNCHANGED buttons
            ELSE offer' = a.more /\ loading' = FALSE /\ UNCHANGED gets
    /\ UNCHANGED <<db, cur, shown, sig, jobs, timer, login, lost>>

-----------------------------------------------------------------------------
(* logout(), of the page and of the bridge.                                   *)

\* A click on logout clears the timer before its request is sent, so the timer is
\* off under an open thread until the answer, and for good when the request
\* fails; connect() and a status "error" clear it too.
TimerStops ==
    /\ timer /\ timer' = FALSE
    /\ UNCHANGED <<db, cur, shown, sig, gets, buttons, olders, login, lost>>

\* A status "connected"; while no thread is open the timer reloads none.
TimerStarts ==
    /\ cur # NoThread /\ ~timer /\ timer' = TRUE
    /\ UNCHANGED <<db, cur, shown, sig, gets, buttons, olders, login, lost>>

\* LiveBridge.logout only queues the request, of this page or another.
LogoutServed ==
    /\ login = "in" /\ login' = "leaving"
    /\ UNCHANGED <<db, cur, shown, sig, gets, buttons, olders, timer, lost>>

\* The page gets its answer, now, later or never; a click after it, with nobody
\* to log out, ends like this too.  The pane is cleared, and refreshChats() does
\* nothing without LOGIN_ID; LAST_RENDER, the button and what is on the way stay.
LogoutAnswered ==
    /\ login # "in"
    /\ cur' = NoThread /\ shown' = Placeholder
    /\ timer' = FALSE
    /\ UNCHANGED <<db, sig, gets, buttons, olders, login, lost>>

\* _do_logout, between two jobs of the worker: no rows are left.
ChatsWiped ==
    /\ login = "leaving" /\ login' = "out"
    /\ db' = [t \in Threads |-> {}]
    /\ UNCHANGED <<cur, shown, sig, gets, buttons, olders, timer, lost>>

\* Somebody logs in again on the same page, which takes longer than what is on
\* the way: the first sync stores what there was to begin with.
NextLogin ==
    /\ login = "out" /\ login' = "in"
    /\ cur = NoThread /\ gets = {} /\ jobs = <<>> /\ answers = {}
    /\ db' = Synced
    /\ UNCHANGED <<cur, shown, sig, gets, buttons, olders, timer, lost>>

PaneNext ==
    \/ Ingest \/ OpenThread \/ Refresh \/ ServeGet \/ AnswerGet \/ GetFails
    \/ ClickOlder \/ OlderTimesOut \/ RunJob \/ AnswerOlder
    \/ TimerStops \/ TimerStarts \/ LogoutServed \/ LogoutAnswered
    \/ ChatsWiped \/ NextLogin

\* The timer refreshes as long as it runs, and a request that is not lost is
\* served and answered.
PaneFairness == WF_pane(timer /\ Refresh) /\ WF_pane(ServeGet) /\ WF_pane(AnswerGet)
PaneSpec == PaneInit /\ [][PaneNext]_pane /\ PaneFairness

-----------------------------------------------------------------------------
\* app.js, line 210: what is not rendered again has not changed.  The comparison
\* is of the thread, the number and the last message only; still no answer, early
\* or late, of whichever request, is taken for what the pane shows unless it has
\* the very same messages.  Only the placeholder that logout() puts in the pane
\* without resetting LAST_RENDER hides an answer, and no thread is open then.
SkippedIsShown ==
    \A g \in gets :
        g.answered /\ g.rows # {} /\ sig = Signature(g.tid, g.rows)
        => \/ shown = [tid |-> g.tid, rows |-> g.rows]
           \/ cur = NoThread /\ shown = Placeholder

\* Whatever the answers, their order and the clicks were, a logout and a login
\* after it too: when the user stays with a thread and the timer goes on, the pane
\* ends up with what messages() returns for it.  A logout that fails stops the
\* timer under an open thread: of that thread nothing is said.
PaneSettles ==
    \A t \in Threads :
        <>[](cur = t /\ timer) => <>[](shown.tid = t /\ shown.rows = MessagesOf(t))

\* README, lines 33-34: new messages come in live.  When the user stays with a
\* thread and the timer goes on, the pane ends up showing its newest message.
NewestIsShown ==
    \A t \in Threads :
        <>[](cur = t /\ timer) => <>[](db[t] # {} => Max(db[t]) \in shown.rows)
=============================================================================
