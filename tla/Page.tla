-------------------------------- MODULE Page --------------------------------
(***************************************************************************)
(* The wrapper's page (wrapper/static/app.js): its connect and logout      *)
(* buttons and its timers, on top of the login service, through the proxy  *)
(* of wrapper/server.py and the handlers of bridge/webapp.py.              *)
(*                                                                         *)
(* The page's script runs one event at a time and stops at each await: a   *)
(* click or a timer sends a request, the bridge serves it, and the answer, *)
(* or an error, is handled later, whatever the page shows by then.  The    *)
(* page does not wait for its calls to take effect: Overlap is TRUE.       *)
(***************************************************************************)
EXTENDS LoginService, Naturals

CONSTANTS MaxConnects,  \* bound on connect requests on the way at once
          MaxErrors     \* bound on requests that end in a 5xx

VARIABLES
    lid,      \* LOGIN_ID is set
    view,     \* the view shown
    actions,  \* connect-actions, with the connect button, is not hidden
    tab,      \* the Chats tab is enabled
    poll,     \* the timer POLL refers to
    leaked,   \* running timers POLL does not refer to any more
    conn,     \* connect requests sent and served
    lout,     \* the logout request
    stat,     \* the status request, or the state it was answered with
    errs      \* requests that failed

widgets == <<view, actions, tab>>
timers == <<poll, leaked>>
page == <<lid, widgets, timers, conn, lout, stat, errs>>

Views == {"connect", "chats", "health"}
Timers == {"status", "chats"}
Busy == {"opening_browser", "waiting_login", "connecting", "connected"}

PageInit ==
    /\ lid = FALSE /\ view = "connect" /\ actions = TRUE /\ tab = FALSE
    /\ poll = "none" /\ leaked = {}
    /\ conn = [sent |-> 0, served |-> 0] /\ lout = "none" /\ stat = "none"
    /\ errs = 0

Running(timer) == poll = timer \/ timer \in leaked

\* The proxy answers 502 when the bridge does, when it is not reachable, and
\* after 60 seconds: the request may still have been served, or be served yet.
RequestFails == errs < MaxErrors /\ errs' = errs + 1

Show(v) == view' = v

-----------------------------------------------------------------------------
(* connect(). *)

ClickConnect ==
    /\ view = "connect" /\ actions /\ conn.sent + conn.served < MaxConnects
    /\ actions' = FALSE
    /\ poll' = "none"
    /\ conn' = [conn EXCEPT !.sent = @ + 1]
    /\ UNCHANGED <<service, lid, view, tab, leaked, lout, stat, errs>>

\* LiveBridge.connect: a login that is busy is left as it is.
ServeConnect ==
    /\ conn.sent > 0
    /\ conn' = [sent |-> conn.sent - 1, served |-> conn.served + 1]
    /\ IF phase \in Busy THEN UNCHANGED service ELSE Connect
    /\ UNCHANGED <<lid, widgets, timers, lout, stat, errs>>

\* The timer POLL refers to by now is not cleared, only forgotten.
AnswerConnect ==
    /\ conn.served > 0
    /\ conn' = [conn EXCEPT !.served = @ - 1]
    /\ lid' = TRUE
    /\ poll' = "status" /\ leaked' = leaked \cup ({poll} \ {"none"})
    /\ UNCHANGED <<service, widgets, lout, stat, errs>>

\* Mutant of ConnectFails: the button stays hidden.
ConnectFailsHidden ==
    /\ RequestFails
    /\ \/ conn.sent > 0 /\ conn' = [conn EXCEPT !.sent = @ - 1]
       \/ conn.served > 0 /\ conn' = [conn EXCEPT !.served = @ - 1]
    /\ UNCHANGED <<service, lid, view, actions, tab, timers, lout, stat>>

ConnectFails ==
    /\ RequestFails
    /\ \/ conn.sent > 0 /\ conn' = [conn EXCEPT !.sent = @ - 1]
       \/ conn.served > 0 /\ conn' = [conn EXCEPT !.served = @ - 1]
    /\ actions' = TRUE
    /\ UNCHANGED <<service, lid, view, tab, timers, lout, stat>>

-----------------------------------------------------------------------------
(* pollStatus(). *)

StatusTimer ==
    /\ Running("status") /\ lid /\ stat = "none"
    /\ stat' = "sent"
    /\ UNCHANGED <<service, lid, widgets, timers, conn, lout, errs>>

\* A login that is not in the dict is a 404: JSON without a state.
ServeStatus ==
    /\ stat = "sent"
    /\ stat' = phase
    /\ UNCHANGED <<service, lid, widgets, timers, conn, lout, errs>>

\* Mutant of AnswerStatus: polling ends when the user is needed.
AnswerStatusGivesUp ==
    /\ stat \in Phases
    /\ IF stat = "connected"
       THEN Show("chats") /\ tab' = TRUE /\ poll' = "chats" /\ UNCHANGED actions
       ELSE /\ poll' = IF stat \in {"needs_user", "error"} THEN "none" ELSE poll
            /\ actions' = (actions \/ stat \in {"needs_user", "error"})
            /\ UNCHANGED <<view, tab>>
    /\ stat' = "none"
    /\ UNCHANGED <<service, lid, leaked, conn, lout, errs>>

\* An error ends the polling, needs_user does not: the window is still watched.
AnswerStatus ==
    /\ stat \in Phases
    /\ IF stat = "connected"
       THEN Show("chats") /\ tab' = TRUE /\ poll' = "chats" /\ UNCHANGED actions
       ELSE /\ poll' = IF stat = "error" THEN "none" ELSE poll
            /\ actions' = (actions \/ stat \in {"needs_user", "error"})
            /\ UNCHANGED <<view, tab>>
    /\ stat' = "none"
    /\ UNCHANGED <<service, lid, leaked, conn, lout, errs>>

StatusFails ==
    /\ stat = "sent" /\ RequestFails
    /\ stat' = "none"
    /\ UNCHANGED <<service, lid, widgets, timers, conn, lout>>

-----------------------------------------------------------------------------
(* logout(), and the tabs. *)

\* The thread that is open and its messages are cleared too: LogoutAnswered of Pane.
LoggedOut ==
    /\ lid' = FALSE
    /\ tab' = FALSE /\ actions' = TRUE /\ Show("connect")

ClickLogout ==
    /\ view = "chats" /\ lout = "none"
    /\ poll' = "none"
    /\ IF lid THEN lout' = "sent" /\ UNCHANGED <<lid, widgets>>
              ELSE LoggedOut /\ UNCHANGED lout
    /\ UNCHANGED <<service, leaked, conn, stat, errs>>

\* LiveBridge.logout only queues the request, and answers at once.
ServeLogout ==
    /\ lout = "sent"
    /\ lout' = "served"
    /\ AskLogout
    /\ UNCHANGED <<lid, widgets, timers, conn, stat, errs>>

AnswerLogout ==
    /\ lout = "served"
    /\ lout' = "none"
    /\ LoggedOut
    /\ UNCHANGED <<service, timers, conn, stat, errs>>

\* The exception leaves logout(): POLL is cleared, the rest stays as it was.
LogoutFails ==
    /\ lout # "none" /\ RequestFails
    /\ lout' = "none"
    /\ UNCHANGED <<service, lid, widgets, timers, conn, stat>>

ClickTab ==
    /\ \E v \in Views : (v = "chats" => tab) /\ Show(v)
    /\ UNCHANGED <<service, lid, actions, tab, timers, conn, lout, stat, errs>>

\* What the bridge does meanwhile.
BridgeSteps ==
    /\ \/ AskUser \/ UserLogsIn \/ SessionFound \/ GiveUp \/ Wipe \/ Receive
       \/ Established \/ Expire \/ Fail \/ ForgetChats \/ ForgetSession \/ Leave
       \/ NobodyToLeave \/ ServiceRestart
    /\ UNCHANGED page

PageNext ==
    \/ ClickConnect \/ ServeConnect \/ AnswerConnect \/ ConnectFails
    \/ StatusTimer \/ ServeStatus \/ AnswerStatus \/ StatusFails
    \/ ClickLogout \/ ServeLogout \/ AnswerLogout \/ LogoutFails
    \/ ClickTab \/ BridgeSteps

\* The status timer goes on, and a status request is served and answered.
PageFairness ==
    /\ WF_<<service, page>>(StatusTimer) /\ WF_<<service, page>>(ServeStatus)
    /\ WF_<<service, page>>(AnswerStatus)

\* The page with the bridge behind it.
PageSpec ==
    ServiceInit /\ PageInit /\ [][PageNext]_<<service, page>> /\ PageFairness

-----------------------------------------------------------------------------
\* While no request is on the way there is something the user can do or wait
\* for: the connect button, a status that is polled, or the chats with their
\* logout button.
CanAlwaysAct ==
    conn.sent + conn.served = 0 =>
        actions \/ (lid /\ Running("status")) \/ tab

\* app.js, lines 95-96: somebody who finishes the login in the window after a
\* throttle message or a time-out is shown the chats.
Watching == lid /\ poll = "status" /\ stat # "error"
Undisturbed == phase # "error" /\ conn.sent + conn.served = 0 /\ lout = "none"

LateLoginShown ==
    [](Watching /\ []Undisturbed /\ <>[](phase = "connected") => <>(view = "chats"))
=============================================================================
