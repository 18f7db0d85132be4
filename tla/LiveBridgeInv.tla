--------------------------- MODULE LiveBridgeInv ---------------------------
(***************************************************************************)
(* The inductive invariant behind the safety properties of LiveBridge, for *)
(* a client that waits for its calls to take effect (~Overlap).            *)
(*                                                                         *)
(* Its idea: of connect's check, its commands in the queue and the         *)
(* worker's handling of "open", only one is under way at a time, and the   *)
(* queue keeps them in the order close, open, logout.  So when an open is  *)
(* carried out, every browser of an earlier login has been closed, and     *)
(* when a logout is carried out, nobody else is about to write.            *)
(***************************************************************************)
EXTENDS LiveBridge

\* A call that queues a close has a login to close: with TypeOK, the part of
\* the invariant that holds for clients that overlap too.
TypeInv == TypeOK /\ \A c \in Calls : cpc[c] = "close" => old[c] \in Calls

\* The worker is in the middle of a command or a tick, on behalf of cur.
Handling == wpc \notin {"get", "tick", "exit"}

\* The login in the dict, or one that replaces it, is still to be opened.
Reopens == \/ \E i \in 1..Len(q) : q[i].cmd = "open"
           \/ \E c \in Calls : cpc[c] \in {"upsert", "close", "open"}

\* The row, for clients that overlap too: when it is missing, and when it must
\* already say the state of the login.  A call that replaces the login under the
\* worker queues an open afterwards, and whatever an open comes to is written.
RowInv ==
    /\ Handling => cur \in Calls
    /\ wpc = "sync" => st[cur] = "connected"
    /\ wpc = "row" => /\ pend.row = st[cur]
                      /\ pend.next \in {"get", "tick", "wipe", "takeover", "mark"}
    /\ logins # NoLogin /\ wpc # "exit" =>
         /\ row = NoRow => \/ wpc \in {"upsert", "lo_rmtree", "lo_pop"}
                           \/ \E c \in Calls : cpc[c] = "upsert"
         /\ wpc \notin Logging /\ ~Reopens =>
              /\ Handling => cur = logins
              /\ wpc \in {"get", "tick", "check", "sync"} => row = st[logins]

\* A LiveLogin nothing has happened to since it was made.
Fresh(l) ==
    /\ st[l] = "opening_browser" /\ ctx[l] = "none" /\ ~prov[l]
    /\ Handling => cur # l

\* connect(): one call at a time, and none while a logout is pending.
CallInv ==
    /\ \A c, d \in Calls : InFlight(c) /\ InFlight(d) => c = d
    /\ (\E c \in Calls : InFlight(c)) => ~LogoutPending
    /\ \A c \in Calls :
         /\ cpc[c] # "done" => Fresh(c)
         /\ cpc[c] \in {"upsert", "close", "open"} => logins = c
         /\ cpc[c] = "register" => logins = old[c]
         /\ cpc[c] = "close" => old[c] # NoLogin
         /\ old[c] # NoLogin => InFlight(c) /\ cpc[old[c]] = "done"
         /\ logins = c => cpc[c] \notin {"idle", "register"}

\* The queue: at most one open, for the untouched login in the dict; closes,
\* of logins no longer in the dict, before it; logouts after both.
QueueInv ==
    /\ \A i \in 1..Len(q) :
         /\ q[i].cmd = "open" => /\ logins # NoLogin /\ Fresh(logins)
                                 /\ \A c \in Calls : ~InFlight(c)
         /\ q[i].cmd = "close" => /\ q[i].login # logins
                                  /\ cpc[q[i].login] = "done"
    /\ \A i, j \in 1..Len(q) : i < j =>
         /\ q[i].cmd = "open" => q[j].cmd \notin {"open", "close"}
         /\ q[i].cmd = "logout" => q[j].cmd \notin {"open", "close"}

\* Browsers: at most one is alive, and whose it is.
BrowserInv ==
    /\ EveryBrowserOwned
    /\ \A l, m \in Calls : ctx[l] # "none" /\ ctx[m] # "none" => l = m

\* The worker at a label, or about to get there once it has written the row.
Near(label) == wpc = label \/ (wpc = "row" /\ pend.next = label)

\* The worker: what it handles, in which state, and where it can go next.
WorkerInv ==
    /\ Handling => cur \in Calls /\ cpc[cur] = "done"
    /\ Handling /\ logins \notin {cur, NoLogin} => st[logins] = "opening_browser"
    /\ pend.next \in {"get", "tick", "wipe", "takeover", "mark"}
    /\ wpc = "launch" => /\ cur = logins
                         /\ \A l \in Calls : ctx[l] = "none" /\ ~InFlight(l)
    /\ wpc \in {"launch", "probe", "window"} => st[cur] = "opening_browser"
    /\ wpc = "row" => st[cur] # "opening_browser"
    /\ wpc = "check" => st[cur] \in {"waiting_login", "needs_user"}
    /\ wpc = "sync" => st[cur] = "connected"
    /\ Near("takeover") \/ Near("wipe") \/ wpc \in {"upsert", "establish", "first_sync"}
       => st[cur] = "connecting"

\* What a logout has already closed and wiped stays so while it goes on.
LogoutInv ==
    /\ wpc \in Logging =>
         /\ cur = logins
         /\ \A i \in 1..Len(q) : q[i].cmd \notin {"open", "close"}
         /\ \A l \in Calls : ctx[l] # "none" => wpc = "lo_close" /\ l = cur
    /\ wpc \in {"lo_wipe", "lo_rmtree", "lo_pop"} => ~sealed
    /\ wpc \in {"lo_rmtree", "lo_pop"} => row = NoRow /\ rows = {}
    /\ wpc = "lo_pop" => jar = NoAccount

Backed(l) == prov[l] /\ ctx[l] = "headless"

\* The browser the worker counts on is there, and the provider once made; a
\* window has none behind it, so _tick never stops to watch it.
BackedInv ==
    /\ \A l \in Calls : ctx[l] = "window" \/ st[l] = "waiting_login" => ~prov[l]
    /\ wpc \in {"launch", "probe", "window"} => ~prov[cur]
    /\ wpc = "window" \/ Near("takeover") => ctx[cur] # "none"
    /\ wpc \in {"probe", "upsert", "establish"} \/ Near("wipe") => ctx[cur] = "headless"
    /\ wpc \in {"first_sync", "sync"} \/ Near("mark") => Backed(cur)
    /\ \A l \in Calls : auth[l] => st[l] \in {"connected", "logged_out"}
    /\ logins # NoLogin => st[logins] # "logged_out"
    /\ wpc = "exit" => \A l \in Calls : ctx[l] = "none"
    /\ logins # NoLogin /\ st[logins] = "connected"
       /\ wpc \notin (Logging \ {"lo_close"}) \cup {"exit"} => Backed(logins)

\* Everything stored is of the account whose session is used.
AccountInv ==
    /\ AccountMatches
    /\ wpc \in {"upsert", "establish", "first_sync", "sync"} \/ Near("mark")
       => rows \subseteq {jar}

\* A login nothing has been done for yet still has its open in the queue.
OpenInv ==
    /\ logins # NoLogin /\ st[logins] = "opening_browser"
    /\ ~(Handling /\ cur = logins) /\ wpc # "exit"
    /\ \A c \in Calls : ~InFlight(c)
    => \E i \in 1..Len(q) : q[i].cmd = "open"

CoreInv == /\ CallInv /\ QueueInv /\ OpenInv /\ BrowserInv /\ WorkerInv
           /\ LogoutInv /\ BackedInv /\ AccountInv

\* The inductive invariant.
IInv == TypeOK /\ CoreInv
=============================================================================
