----------------------------- MODULE LiveBridge -----------------------------
(***************************************************************************)
(* The life of the one login ("session") of bridge/live.py.                *)
(*                                                                         *)
(* Two kinds of threads act on it.  HTTP threads run connect() and         *)
(* logout(): connect() checks and replaces the LiveLogin in the shared     *)
(* dict and queues commands, logout() only queues one.  A single worker    *)
(* thread owns Playwright: it takes commands from the FIFO queue and,      *)
(* between them, ticks over the dict.  Around them are the user at the     *)
(* login window, TikTok, and the process, which may die at any moment.     *)
(*                                                                         *)
(* One step is what another thread or a crash can fall between: a region   *)
(* under the lock, one SQLite statement, one queue operation, one browser  *)
(* operation.  A LiveLogin object is named by the connect() call that      *)
(* creates it.                                                             *)
(***************************************************************************)
EXTENDS Naturals, Sequences, FiniteSets

CONSTANTS
    Calls,       \* connect() calls; also the names of the LiveLogin objects
    QrCalls,     \* the calls made with flow="qr"
    Accounts,    \* TikTok accounts the user can log in to
    NoLogin,     \* None: no entry in LiveBridge.logins, or no existing login
    NoAccount,   \* the profile holds no session cookie
    Headless,    \* LiveBridge(headless=...): the login window is shown or not
    Overlap,     \* may a client call again before the last call took effect?
    MaxLogouts,  \* bound on logout() calls
    MaxRestarts  \* bound on process restarts

ASSUME CallsAssumption == QrCalls \subseteq Calls /\ NoLogin \notin Calls
ASSUME AccountsAssumption == NoAccount \notin Accounts
ASSUME ModeAssumption == Headless \in BOOLEAN /\ Overlap \in BOOLEAN
ASSUME BoundAssumption == MaxLogouts \in Nat /\ MaxRestarts \in Nat

VARIABLES
    logins,   \* LiveBridge.logins.get("session")
    st,       \* LiveLogin.state
    auth,     \* LiveLogin.authenticated
    prov,     \* LiveLogin.provider is not None
    ctx,      \* LiveLogin.ctx: none, or a live browser, headless or a window
    shut,     \* the page of that browser was closed by the user
    orphans,  \* live browsers no LiveLogin refers to any more
    q,        \* the worker's command queue
    stop,     \* the _stop event
    wpc,      \* where the worker is
    cur,      \* the LiveLogin the worker is handling
    ret,      \* where the worker goes when it is done with it
    pend,     \* the row update that completes a _set_state or a _fail
    cpc,      \* where each connect() call is
    old,      \* its local variable `existing`
    row,      \* state column of the login's row in SQLite, or NoRow
    rows,     \* accounts whose threads, users and events SQLite holds
    sealed,   \* SessionStore holds a sealed session
    jar,      \* account of the session cookie in the Chromium profile
    valid,    \* does TikTok still accept that cookie?
    nlogout,  \* logout() calls made
    nrestart  \* restarts so far

mem == <<st, auth, prov, ctx, shut, orphans>>
worker == <<wpc, cur, ret, pend>>
client == <<cpc, old>>
disk == <<row, rows, sealed, jar>>
vars == <<logins, mem, q, stop, worker, client, disk, valid, nlogout, nrestart>>

-----------------------------------------------------------------------------
(* States and commands. *)

States == {"opening_browser", "waiting_login", "connecting", "connected",
           "needs_user", "error", "logged_out"}
\* Mutant of Busy: a login that is opening does not count.
BusyOnceOpen == {"waiting_login", "connecting", "connected"}

Busy == {"opening_browser", "waiting_login", "connecting", "connected"}
NoRow == "no_row"
Modes == {"none", "headless", "window"}
NoPend == [row |-> NoRow, next |-> "get"]

Commands == [cmd : {"open", "logout", "stop"}, login : {NoLogin}]
            \cup [cmd : {"close"}, login : Calls]
Command(c, l) == [cmd |-> c, login |-> l]

WorkerLabels ==
    {"get", "tick", "row", "launch", "probe", "window", "check", "takeover",
     "wipe", "upsert", "establish", "sync", "first_sync", "mark", "lo_close",
     "lo_delete", "lo_wipe", "lo_rmtree", "lo_pop", "exit"}
CallLabels == {"idle", "register", "upsert", "close", "open", "done"}

\* How many Chromium processes are alive on the profile.
Live == Cardinality({l \in Calls : ctx[l] # "none"}) + orphans

Logging == {"lo_close", "lo_delete", "lo_wipe", "lo_rmtree", "lo_pop"}

InFlight(c) == cpc[c] \notin {"idle", "done"}
LogoutPending == \/ wpc \in Logging
                 \/ \E i \in 1..Len(q) : q[i].cmd = "logout"

\* The client of the wrapper UI, when it waits for each action to take effect.
MayCall == ~stop /\ (Overlap \/ (~LogoutPending /\ \A c \in Calls : ~InFlight(c)))

-----------------------------------------------------------------------------
Init ==
    /\ logins = NoLogin
    /\ st = [l \in Calls |-> "opening_browser"]
    /\ auth = [l \in Calls |-> FALSE]
    /\ prov = [l \in Calls |-> FALSE]
    /\ ctx = [l \in Calls |-> "none"]
    /\ shut = [l \in Calls |-> FALSE]
    /\ orphans = 0
    /\ q = <<>>
    /\ stop = FALSE
    /\ wpc = "get" /\ cur = NoLogin /\ ret = "get" /\ pend = NoPend
    /\ cpc = [c \in Calls |-> "idle"]
    /\ old = [c \in Calls |-> NoLogin]
    /\ row = NoRow /\ rows = {} /\ sealed = FALSE
    /\ jar = NoAccount /\ valid = FALSE
    /\ nlogout = 0 /\ nrestart = 0

-----------------------------------------------------------------------------
(* HTTP threads: connect() and logout(). *)

CallStep(c, from, to) == cpc[c] = from /\ cpc' = [cpc EXCEPT ![c] = to]

\* First locked region: read the existing login, return early if it is busy.
ConnectCheck(c) ==
    /\ MayCall
    /\ IF logins # NoLogin /\ st[logins] \in Busy
       THEN CallStep(c, "idle", "done") /\ UNCHANGED old
       ELSE /\ CallStep(c, "idle", "register")
            /\ old' = [old EXCEPT ![c] = logins]
    /\ UNCHANGED <<logins, mem, q, stop, worker, disk, valid, nlogout, nrestart>>

\* Second locked region: put a new LiveLogin, built in between, in the dict.
ConnectRegister(c) ==
    /\ CallStep(c, "register", "upsert")
    /\ logins' = c
    /\ UNCHANGED <<mem, q, stop, worker, old, disk, valid, nlogout, nrestart>>

\* Mutant of ConnectUpsert: a close is queued with no login to close.
ConnectUpsertThenClose(c) ==
    /\ CallStep(c, "upsert", "close")
    /\ row' = "opening_browser"
    /\ UNCHANGED <<logins, mem, q, stop, worker, old, rows, sealed, jar, valid,
                   nlogout, nrestart>>

ConnectUpsert(c) ==
    /\ CallStep(c, "upsert", IF old[c] = NoLogin THEN "open" ELSE "close")
    /\ row' = "opening_browser"
    /\ UNCHANGED <<logins, mem, q, stop, worker, old, rows, sealed, jar, valid,
                   nlogout, nrestart>>

\* Mutant of ConnectClose: the replaced login is not closed.
ConnectCloseForgotten(c) ==
    /\ CallStep(c, "close", "open")
    /\ UNCHANGED <<logins, mem, q, stop, worker, old, disk, valid, nlogout, nrestart>>

\* Queue the close of the login it replaces, which may still own the window.
ConnectClose(c) ==
    /\ CallStep(c, "close", "open")
    /\ q' = Append(q, Command("close", old[c]))
    /\ UNCHANGED <<logins, mem, stop, worker, old, disk, valid, nlogout, nrestart>>

ConnectOpen(c) ==
    /\ CallStep(c, "open", "done")
    /\ old' = [old EXCEPT ![c] = NoLogin]
    /\ q' = Append(q, Command("open", NoLogin))
    /\ UNCHANGED <<logins, mem, stop, worker, disk, valid, nlogout, nrestart>>

Connect(c) ==
    \/ ConnectCheck(c) \/ ConnectRegister(c) \/ ConnectUpsert(c)
    \/ ConnectClose(c) \/ ConnectOpen(c)

Logout ==
    /\ MayCall /\ nlogout < MaxLogouts
    /\ q' = Append(q, Command("logout", NoLogin))
    /\ nlogout' = nlogout + 1
    /\ UNCHANGED <<logins, mem, stop, worker, client, disk, valid, nrestart>>

\* shutdown() of the whole bridge.
Shutdown ==
    /\ ~stop
    /\ stop' = TRUE
    /\ q' = Append(q, Command("stop", NoLogin))
    /\ UNCHANGED <<logins, mem, worker, client, disk, valid, nlogout, nrestart>>

-----------------------------------------------------------------------------
(* The worker: state helpers.  _set_state and _fail change the object under *)
(* the lock and the SQLite row afterwards, in a step of its own.            *)

Outside == <<logins, q, stop, client, valid, nlogout, nrestart>>

At(label) == wpc = label
Goto(label) == wpc' = label /\ UNCHANGED <<cur, ret, pend>>

SetState(s, next) ==
    /\ st' = [st EXCEPT ![cur] = s]
    /\ pend' = [row |-> s, next |-> next]
    /\ wpc' = "row"
    /\ UNCHANGED <<cur, ret>>

Fail(s, next) ==
    /\ auth' = [auth EXCEPT ![cur] = FALSE]
    /\ SetState(s, next)

\* Mutant of WriteRow: the state is changed in memory only.
WriteRowForgotten ==
    /\ At("row")
    /\ wpc' = pend.next /\ pend' = NoPend
    /\ UNCHANGED <<mem, cur, ret, disk, Outside>>

\* UPDATE logins ... WHERE login_id=?: nothing happens without a row.
WriteRow ==
    /\ At("row")
    /\ row' = IF row = NoRow THEN NoRow ELSE pend.row
    /\ wpc' = pend.next /\ pend' = NoPend
    /\ UNCHANGED <<mem, cur, ret, rows, sealed, jar, Outside>>

\* _open_context: launch a browser; a context already in login.ctx is lost.
OpenContext(mode) ==
    /\ ctx' = [ctx EXCEPT ![cur] = mode]
    /\ shut' = [shut EXCEPT ![cur] = FALSE]
    /\ orphans' = IF ctx[cur] = "none" THEN orphans ELSE orphans + 1

CloseContext(l) ==
    /\ ctx' = [ctx EXCEPT ![l] = "none"]
    /\ shut' = [shut EXCEPT ![l] = FALSE]
    /\ UNCHANGED orphans

\* _relaunch: keep a browser that is in the right mode, else swap it.
Relaunch(mode) ==
    IF ctx[cur] = mode
    THEN UNCHANGED <<ctx, shut, orphans>>
    ELSE /\ ctx' = [ctx EXCEPT ![cur] = mode]
         /\ shut' = [shut EXCEPT ![cur] = FALSE]
         /\ UNCHANGED orphans

\* The same, when the second launch raises: the first browser is closed.
RelaunchFails(mode) == ctx[cur] # mode /\ CloseContext(cur)

-----------------------------------------------------------------------------
(* The worker's loop. *)

Take(c) == At("get") /\ q # <<>> /\ Head(q).cmd = c /\ q' = Tail(q)

\* A command for a login that is not in the dict does nothing.
TakeOpen ==
    /\ Take("open")
    /\ cur' = logins /\ ret' = "tick"
    /\ wpc' = IF logins = NoLogin THEN "tick" ELSE "launch"
    /\ UNCHANGED <<logins, mem, stop, pend, client, disk, valid, nlogout, nrestart>>

TakeLogout ==
    /\ Take("logout")
    /\ cur' = logins /\ ret' = "tick"
    /\ wpc' = IF logins = NoLogin THEN "tick" ELSE "lo_close"
    /\ UNCHANGED <<logins, mem, stop, pend, client, disk, valid, nlogout, nrestart>>

\* _do_close of the login a later connect() replaced.
TakeClose ==
    /\ Take("close")
    /\ LET l == Head(q).login IN
         CloseContext(l) /\ prov' = [prov EXCEPT ![l] = FALSE]
    /\ wpc' = "tick"
    /\ UNCHANGED <<logins, st, auth, stop, cur, ret, pend, client, disk, valid,
                   nlogout, nrestart>>

\* The queue stayed empty for half a second.
TakeNothing ==
    /\ At("get") /\ q = <<>> /\ ~stop
    /\ Goto("tick")
    /\ UNCHANGED <<mem, disk, Outside>>

\* The loop ends, all browsers are closed (_close_all, then Playwright's exit).
ExitLoop ==
    /\ At("get") /\ stop
    /\ Goto("exit")
    /\ ctx' = [l \in Calls |-> "none"] /\ shut' = [l \in Calls |-> FALSE]
    /\ orphans' = 0
    /\ UNCHANGED <<st, auth, prov, disk, Outside>>

\* Mutant of Watched: a window is forgotten after the time-out.
WatchedUntilTimeout(l) == st[l] = "waiting_login"

Watched(l) == \/ st[l] = "waiting_login"
              \/ st[l] = "needs_user" /\ ctx[l] # "none" /\ ~prov[l]

\* _tick, when a second has passed: look at the login the dict now holds.
Tick ==
    /\ At("tick")
    /\ cur' = logins /\ ret' = "get"
    /\ wpc' = IF logins = NoLogin THEN "get"
              ELSE IF Watched(logins) THEN "check"
              ELSE IF st[logins] = "connected" THEN "sync" ELSE "get"
    /\ UNCHANGED <<mem, pend, disk, Outside>>

TickNotDue ==
    /\ At("tick")
    /\ Goto("get")
    /\ UNCHANGED <<mem, disk, Outside>>

-----------------------------------------------------------------------------
(* _do_open. *)

Launch ==
    /\ At("launch")
    /\ OpenContext("headless")
    /\ Goto("probe")
    /\ UNCHANGED <<st, auth, prov, disk, Outside>>

\* Mutant of LaunchFails: the error is swallowed.
LaunchFailsQuietly ==
    /\ At("launch")
    /\ Goto(ret)
    /\ UNCHANGED <<mem, disk, Outside>>

LaunchFails ==
    /\ At("launch")
    /\ Fail("error", ret)
    /\ UNCHANGED <<prov, ctx, shut, orphans, disk, Outside>>

\* /messages loads: a session cookie and no redirect to /login.
ProbeSession ==
    /\ At("probe") /\ jar # NoAccount
    /\ SetState("connecting", "wipe")
    /\ UNCHANGED <<auth, prov, ctx, shut, orphans, disk, Outside>>

\* Not logged in; TikTok's redirect may also drop the expired cookie.
Redirected ==
    /\ ~valid
    /\ jar' = NoAccount \/ UNCHANGED jar

ProbeQr ==
    /\ At("probe") /\ cur \in QrCalls
    /\ Redirected
    /\ SetState("waiting_login", ret)
    /\ UNCHANGED <<auth, prov, ctx, shut, orphans, row, rows, sealed, Outside>>

ProbePassword ==
    /\ At("probe") /\ cur \notin QrCalls
    /\ Redirected
    /\ Goto("window")
    /\ UNCHANGED <<mem, row, rows, sealed, Outside>>

ProbeFails ==
    /\ At("probe")
    /\ Fail("error", ret)
    /\ UNCHANGED <<prov, ctx, shut, orphans, disk, Outside>>

LoginMode == IF Headless THEN "headless" ELSE "window"

OpenWindow ==
    /\ At("window")
    /\ Relaunch(LoginMode)
    /\ SetState("waiting_login", ret)
    /\ UNCHANGED <<auth, prov, disk, Outside>>

\* The launch of the window raises, or the login page does not load in it.
OpenWindowFails ==
    /\ At("window")
    /\ RelaunchFails(LoginMode) \/ Relaunch(LoginMode)
    /\ Fail("error", ret)
    /\ UNCHANGED <<prov, disk, Outside>>

-----------------------------------------------------------------------------
(* _check_login: watch a window, or a QR page, until somebody is logged in. *)

PageOpen(l) == ctx[l] # "none" /\ ~shut[l]

\* The user closed the window before the login finished.
CheckClosed ==
    /\ At("check") /\ ctx[cur] # "none" /\ shut[cur]
    /\ IF st[cur] = "waiting_login"
       THEN CloseContext(cur) /\ prov' = [prov EXCEPT ![cur] = FALSE]
            /\ Fail("needs_user", ret)
       ELSE Goto(ret) /\ UNCHANGED mem
    /\ UNCHANGED <<disk, Outside>>

\* No browser to look at, or no session cookie in it yet.
CheckNotYet ==
    /\ At("check")
    /\ ctx[cur] = "none" \/ (~shut[cur] /\ jar = NoAccount)
    /\ Goto(ret)
    /\ UNCHANGED <<mem, disk, Outside>>

\* login_timeout has passed, or TikTok says "too many attempts".
CheckGivesUp ==
    /\ At("check") /\ PageOpen(cur) /\ jar = NoAccount
    /\ st[cur] = "waiting_login"
    /\ Fail("needs_user", ret)
    /\ UNCHANGED <<prov, ctx, shut, orphans, disk, Outside>>

\* Mutant of CheckLoggedIn: no headless browser takes over.
CheckLoggedInStays ==
    /\ At("check") /\ PageOpen(cur) /\ jar # NoAccount
    /\ SetState("connecting", "wipe")
    /\ UNCHANGED <<auth, prov, ctx, shut, orphans, disk, Outside>>

CheckLoggedIn ==
    /\ At("check") /\ PageOpen(cur) /\ jar # NoAccount
    /\ SetState("connecting", "takeover")
    /\ UNCHANGED <<auth, prov, ctx, shut, orphans, disk, Outside>>

\* Reading the cookies raises: _tick catches it.
CheckFails ==
    /\ At("check") /\ PageOpen(cur)
    /\ Fail("error", ret)
    /\ UNCHANGED <<prov, ctx, shut, orphans, disk, Outside>>

\* The window goes away, a headless browser takes over.
Takeover ==
    /\ At("takeover")
    /\ Relaunch("headless")
    /\ Goto("wipe")
    /\ UNCHANGED <<st, auth, prov, disk, Outside>>

TakeoverFails ==
    /\ At("takeover")
    /\ RelaunchFails("headless")
    /\ Fail("error", ret)
    /\ UNCHANGED <<prov, disk, Outside>>

-----------------------------------------------------------------------------
(* _establish. *)

\* Mutant of EstablishWipe: the rows of the account before stay.
EstablishWipeForgotten ==
    /\ At("wipe")
    /\ row' = NoRow
    /\ Goto("upsert")
    /\ UNCHANGED <<mem, rows, sealed, jar, Outside>>

\* Pipeline.wipe_login: every row of the login, its own one too.
EstablishWipe ==
    /\ At("wipe")
    /\ row' = NoRow /\ rows' = {}
    /\ Goto("upsert")
    /\ UNCHANGED <<mem, sealed, jar, Outside>>

EstablishUpsert ==
    /\ At("upsert")
    /\ row' = "connecting"
    /\ Goto("establish")
    /\ UNCHANGED <<mem, rows, sealed, jar, Outside>>

\* Whatever TikTok hands out is of the account that is logged in.
MayStore == \/ UNCHANGED rows
            \/ jar # NoAccount /\ rows' = rows \cup {jar}

\* The provider is made, the session sealed unless that fails, and the
\* backlog the page fetched, if any, ingested; an exception ends the attempt.
Establish ==
    /\ At("establish")
    /\ prov' = [prov EXCEPT ![cur] = TRUE]
    /\ sealed' = TRUE \/ UNCHANGED sealed
    /\ MayStore
    /\ \/ Goto("first_sync") /\ UNCHANGED <<st, auth>>
       \/ Fail("error", ret)
    /\ UNCHANGED <<ctx, shut, orphans, row, jar, Outside>>

\* authenticated = True and the state becomes CONNECTED, whatever the first
\* sync said.
MarkConnected ==
    /\ At("mark")
    /\ auth' = [auth EXCEPT ![cur] = TRUE]
    /\ SetState("connected", ret)
    /\ UNCHANGED <<prov, ctx, shut, orphans, disk, Outside>>

-----------------------------------------------------------------------------
(* _sync_now, the first one of _establish and those of _sync_tick. *)

Syncing == At("first_sync") \/ At("sync")
AfterSync == IF At("first_sync") THEN "mark" ELSE ret

\* Contacts, conversations and messages are stored as far as they came;
\* an error that is not an AuthError is only noted.
SyncDone ==
    /\ Syncing
    /\ MayStore
    /\ row' = IF row = NoRow THEN NoRow ELSE "connected"
    /\ Goto(AfterSync)
    /\ UNCHANGED <<mem, sealed, jar, Outside>>

\* AuthError, from the contacts or from the conversations.
SyncRefused ==
    /\ Syncing /\ ~valid
    /\ MayStore
    /\ Fail("needs_user", AfterSync)
    /\ UNCHANGED <<prov, ctx, shut, orphans, row, sealed, jar, Outside>>

\* The browser died: no provider error, so the caller's handler gets it.
SyncFails ==
    /\ Syncing
    /\ MayStore
    /\ Fail("error", ret)
    /\ UNCHANGED <<prov, ctx, shut, orphans, row, sealed, jar, Outside>>

\* _sync_tick when poll_seconds have not passed: pump events and ingest what
\* they brought.
SyncNotDue ==
    /\ At("sync")
    /\ MayStore
    /\ Goto(ret)
    /\ UNCHANGED <<mem, row, sealed, jar, Outside>>

-----------------------------------------------------------------------------
(* _do_logout. *)

\* Mutant of LogoutClose: the browser is left running.
LogoutCloseForgotten ==
    /\ At("lo_close")
    /\ Goto("lo_delete")
    /\ UNCHANGED <<mem, disk, Outside>>

LogoutClose ==
    /\ At("lo_close")
    /\ CloseContext(cur)
    /\ Goto("lo_delete")
    /\ UNCHANGED <<st, auth, prov, disk, Outside>>

\* Mutant of LogoutDelete: the sealed session stays.
LogoutDeleteForgotten ==
    /\ At("lo_delete")
    /\ Goto("lo_wipe")
    /\ UNCHANGED <<mem, disk, Outside>>

LogoutDelete ==
    /\ At("lo_delete")
    /\ sealed' = FALSE
    /\ Goto("lo_wipe")
    /\ UNCHANGED <<mem, row, rows, jar, Outside>>

\* Mutant of LogoutWipe: the login's row goes, its chats stay.
LogoutWipeRowOnly ==
    /\ At("lo_wipe")
    /\ row' = NoRow
    /\ Goto("lo_rmtree")
    /\ UNCHANGED <<mem, rows, sealed, jar, Outside>>

LogoutWipe ==
    /\ At("lo_wipe")
    /\ row' = NoRow /\ rows' = {}
    /\ Goto("lo_rmtree")
    /\ UNCHANGED <<mem, sealed, jar, Outside>>

LogoutRmtree ==
    /\ At("lo_rmtree")
    /\ jar' = NoAccount /\ valid' = FALSE
    /\ Goto("lo_pop")
    /\ UNCHANGED <<mem, row, rows, sealed, logins, q, stop, client, nlogout, nrestart>>

\* Mutant of LogoutPop: the entry stays in the dict.
LogoutPopForgotten ==
    /\ At("lo_pop")
    /\ st' = [st EXCEPT ![cur] = "logged_out"]
    /\ prov' = [prov EXCEPT ![cur] = FALSE]
    /\ Goto(ret)
    /\ UNCHANGED <<logins, auth, ctx, shut, orphans, q, stop, client, disk, valid,
                   nlogout, nrestart>>

\* The dict entry is popped by its key, whichever login it now is.
LogoutPop ==
    /\ At("lo_pop")
    /\ st' = [st EXCEPT ![cur] = "logged_out"]
    /\ prov' = [prov EXCEPT ![cur] = FALSE]
    /\ logins' = NoLogin
    /\ Goto(ret)
    /\ UNCHANGED <<auth, ctx, shut, orphans, q, stop, client, disk, valid,
                   nlogout, nrestart>>

-----------------------------------------------------------------------------
(* The user, TikTok and the process. *)

\* Somebody logs in on a page the bridge has open for it: a window, one no login
\* refers to any more too, or the QR code of a headless page.  A login that has
\* a provider shows /messages instead of the code, unless an open that overlaps
\* another one fetched the code again.
QrShown(l) ==
    /\ l \in QrCalls /\ ctx[l] = "headless"
    /\ \/ st[l] = "waiting_login"
       \/ st[l] = "needs_user" /\ (Overlap \/ ~prov[l])

UserLogsIn ==
    /\ ~valid
    /\ orphans > 0 \/ \E l \in Calls : (ctx[l] = "window" /\ ~shut[l]) \/ QrShown(l)
    /\ jar' \in Accounts /\ valid' = TRUE
    /\ UNCHANGED <<logins, mem, q, stop, worker, client, row, rows, sealed,
                   nlogout, nrestart>>

UserClosesWindow ==
    /\ \E l \in Calls : /\ ctx[l] = "window" /\ ~shut[l]
                        /\ shut' = [shut EXCEPT ![l] = TRUE]
    /\ UNCHANGED <<st, auth, prov, ctx, orphans, worker, disk, Outside>>

\* The session expires, or is ended from another device.
SessionExpires ==
    /\ valid /\ valid' = FALSE
    /\ UNCHANGED <<logins, mem, q, stop, worker, client, disk, nlogout, nrestart>>

\* The process dies and is started again: only what is on disk stays.
Restart ==
    /\ nrestart < MaxRestarts /\ nrestart' = nrestart + 1
    /\ logins' = NoLogin
    /\ st' = [l \in Calls |-> "opening_browser"]
    /\ auth' = [l \in Calls |-> FALSE] /\ prov' = [l \in Calls |-> FALSE]
    /\ ctx' = [l \in Calls |-> "none"] /\ shut' = [l \in Calls |-> FALSE]
    /\ orphans' = 0
    /\ q' = <<>> /\ stop' = FALSE
    /\ wpc' = "get" /\ cur' = NoLogin /\ ret' = "get" /\ pend' = NoPend
    /\ cpc' = [c \in Calls |-> IF cpc[c] = "idle" THEN "idle" ELSE "done"]
    /\ old' = [c \in Calls |-> NoLogin]
    /\ UNCHANGED <<disk, valid, nlogout>>

Environment == UserLogsIn \/ UserClosesWindow \/ SessionExpires \/ Restart

Loop == \/ TakeOpen \/ TakeLogout \/ TakeClose \/ TakeNothing \/ ExitLoop
        \/ Tick \/ TickNotDue \/ WriteRow
DoOpen == \/ Launch \/ LaunchFails \/ ProbeSession \/ ProbeQr \/ ProbePassword
          \/ ProbeFails \/ OpenWindow \/ OpenWindowFails
CheckLogin == \/ CheckClosed \/ CheckNotYet \/ CheckGivesUp \/ CheckLoggedIn
              \/ CheckFails \/ Takeover \/ TakeoverFails
DoEstablish == EstablishWipe \/ EstablishUpsert \/ Establish \/ MarkConnected
SyncNow == SyncDone \/ SyncRefused \/ SyncFails \/ SyncNotDue
DoLogout == \/ LogoutClose \/ LogoutDelete \/ LogoutWipe \/ LogoutRmtree
            \/ LogoutPop
Worker == Loop \/ DoOpen \/ CheckLogin \/ DoEstablish \/ SyncNow \/ DoLogout

Next == \/ \E c \in Calls : Connect(c)
        \/ Logout \/ Shutdown \/ Worker \/ Environment

Spec == Init /\ [][Next]_vars

\* The worker thread is scheduled and every Playwright call it makes has a
\* timeout, the loop's clock lets a tick pass again and again, and an HTTP
\* thread that began a call finishes it.
Fairness == /\ WF_vars(Worker)
            /\ SF_vars(Tick)
            /\ \A c \in Calls : WF_vars(ConnectRegister(c) \/ ConnectUpsert(c)
                                        \/ ConnectClose(c) \/ ConnectOpen(c))

LiveSpec == Spec /\ Fairness

-----------------------------------------------------------------------------
(* What must be true. *)

\* Every variable keeps the values the code can give it.
TypeOK ==
    /\ logins \in Calls \cup {NoLogin}
    /\ st \in [Calls -> States]
    /\ auth \in [Calls -> BOOLEAN]
    /\ prov \in [Calls -> BOOLEAN]
    /\ ctx \in [Calls -> Modes]
    /\ shut \in [Calls -> BOOLEAN]
    /\ orphans \in Nat
    /\ q \in Seq(Commands)
    /\ stop \in BOOLEAN
    /\ wpc \in WorkerLabels
    /\ cur \in Calls \cup {NoLogin}
    /\ ret \in {"get", "tick"}
    /\ pend \in [row : States \cup {NoRow}, next : WorkerLabels]
    /\ cpc \in [Calls -> CallLabels]
    /\ old \in [Calls -> Calls \cup {NoLogin}]
    /\ row \in States \cup {NoRow}
    /\ rows \subseteq Accounts
    /\ sealed \in BOOLEAN
    /\ jar \in Accounts \cup {NoAccount}
    /\ valid \in BOOLEAN
    /\ nlogout \in Nat
    /\ nrestart \in Nat

\* At most one Chromium is alive on the profile, whatever fails on the way:
\* what connect()'s close command and wait_profile_unlocked are there for.
OneBrowser == Live <= 1

ClosePending(l) ==
    \/ \E i \in 1..Len(q) : q[i] = Command("close", l)
    \/ \E c \in Calls : old[c] = l /\ cpc[c] \in {"register", "upsert", "close"}

\* No browser is left behind: a live one belongs to the login in the dict, or
\* to one whose close is already on its way to the worker.
EveryBrowserOwned ==
    /\ orphans = 0
    /\ \A l \in Calls : ctx[l] # "none" => l = logins \/ ClosePending(l)

\* A login shown as connected, or counted by Live-Session-Ratio, has a provider
\* on a live headless browser; the window is gone.  (Not while it is being
\* logged out, nor once the worker has exited.)
ConnectedIsBacked ==
    \A l \in Calls :
        /\ l = logins /\ (st[l] = "connected" \/ auth[l])
        /\ wpc \notin Logging \cup {"exit"}
        => prov[l] /\ ctx[l] = "headless"

\* A connected login shows the chats of the account that is logged in, and of
\* no account that used the profile before.
AccountMatches ==
    logins # NoLogin /\ st[logins] = "connected" => rows \subseteq {jar}

Quiet == /\ wpc \in {"get", "tick"}
         /\ \A c \in Calls : ~InFlight(c)
         /\ \A i \in 1..Len(q) : q[i].cmd = "logout"

\* When nothing is under way, the stored state of the login is its state.
RowAgrees == Quiet /\ logins # NoLogin => row = st[logins]

Wiped == row = NoRow /\ rows = {} /\ ~sealed /\ jar = NoAccount

\* An open command finds the login it was queued for, still unopened: none is
\* lost to a logout in between, none is carried out a second time.
OpenTaken == wpc = "get" /\ q # <<>> /\ Head(q).cmd = "open" /\ q' = Tail(q)

OpenFindsItsLogin ==
    [][OpenTaken => /\ logins # NoLogin
                    /\ st[logins] = "opening_browser"
                    /\ ctx[logins] = "none" /\ ~prov[logins]]_vars

\* When the worker has carried out a logout of the login it found, nothing of
\* the login is left: no row, chats, sealed session or profile.
LogoutWipes == [][wpc = "lo_pop" /\ wpc' = "tick" => Wiped']_vars

\* A login never stays in opening_browser: the worker gets to its open command.
OpeningEnds ==
    \A l \in Calls : logins = l /\ st[l] = "opening_browser"
                     ~> logins # l \/ st[l] # "opening_browser" \/ stop

\* Somebody who logs in in the window gets connected, even after the time-out
\* or the throttle message: the window is still watched.  Not so when that login
\* has a provider: then it is watched until the time-out only.  Opens that
\* overlap reach that state, a client that waits does not (BackedInv).
WindowIsWatched ==
    \A l \in Calls :
        /\ logins = l
        /\ st[l] = "waiting_login" \/ (st[l] = "needs_user" /\ ~prov[l])
        /\ ctx[l] = "window" /\ ~shut[l] /\ jar # NoAccount
        ~> \/ logins # l \/ stop
           \/ st[l] \notin {"waiting_login", "needs_user"}
           \/ shut[l] \/ jar = NoAccount

\* A logout that was asked for ends the login it was asked for.
LogoutEnds ==
    \A l \in Calls :
        logins = l /\ (\E i \in 1..Len(q) : q[i].cmd = "logout")
        ~> logins # l \/ stop

\* needs_user ends only when somebody logs in again or logs out.
NeedsUserUntilLogin ==
    [][\A l \in Calls : st[l] = "needs_user" /\ st'[l] # "needs_user" /\ nrestart' = nrestart
          => st'[l] \in {"connecting", "logged_out", "error"}]_vars

\* Every logout request leaves nothing of the login behind, found or not.
LogoutServed ==
    \/ wpc = "lo_pop" /\ wpc' = "tick"
    \/ wpc = "get" /\ wpc' = "tick" /\ q # <<>> /\ Head(q).cmd = "logout"

EveryLogoutWipes == [][LogoutServed => Wiped']_vars
=============================================================================
