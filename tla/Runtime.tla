------------------------------ MODULE Runtime -------------------------------
(***************************************************************************)
(* The v1 provisioning API: bridge/api.py with the login ladder behind it, *)
(* BridgeRuntime of bridge/app.py, and the pipeline both write to.         *)
(*                                                                         *)
(* One login id was started.  Every HTTP request for it (a step, a DELETE) *)
(* runs in a thread of its own; the runtime's dict has no lock, only the   *)
(* pipeline serialises its statements.  A LoginRecord is named by the step *)
(* request that makes it.                                                  *)
(***************************************************************************)
EXTENDS Naturals, FiniteSets

CONSTANTS
    Steps,       \* POST /v1/login/{id}/step requests
    Deletes,     \* DELETE /v1/logins/{id} requests
    NoRecord,    \* None: no record, or no row
    Messages,    \* what the provider's conversations hold
    MaxCrashes   \* bound on crashes of the process

ASSUME RuntimeAssumption == NoRecord \notin Steps /\ Steps \cap Deletes = {}

VARIABLES
    pending,  \* the login id is in LoginManager.pending
    logins,   \* BridgeRuntime.logins.get(login_id)
    state,    \* LoginRecord.state
    authed,   \* LoginRecord.authenticated
    pc,       \* where each request is
    rec,      \* connect()'s local variable rec
    todo,     \* messages a poll has fetched and not yet emitted
    end,      \* how that poll ends
    msg,      \* the message being handed to the webhook, and the attempts so far
    row,      \* state of the login's row in SQLite
    events,   \* messages in the events table
    calls,    \* webhook calls made for each message
    sent,     \* messages the webhook has taken
    dead,     \* messages in the dead-letter file
    crashes   \* crashes so far

memory == <<pending, logins, state, authed>>
locals == <<pc, rec, todo, end, msg>>
store == <<row, events, calls, sent, dead>>
runtime == <<memory, locals, store, crashes>>

Requests == Steps \cup Deletes
NoMessage == [id |-> NoRecord, tries |-> 0]

\* What connect() makes of a provider's answer.
Outcomes == {"connected", "needs_user", "rate_limited", "blocked", "unknown_error"}

RuntimeInit ==
    /\ pending = TRUE /\ logins = NoRecord
    /\ state = [r \in Steps |-> "connecting"] /\ authed = [r \in Steps |-> FALSE]
    /\ pc = [r \in Requests |-> "idle"]
    /\ rec = [r \in Steps |-> NoRecord]
    /\ todo = [r \in Steps |-> {}] /\ end = [r \in Steps |-> "connected"]
    /\ msg = [r \in Steps |-> NoMessage]
    /\ row = NoRecord /\ events = {}
    /\ calls = [m \in Messages |-> 0] /\ sent = {} /\ dead = {}
    /\ crashes = 0

Goto(r, from, to) == pc[r] = from /\ pc' = [pc EXCEPT ![r] = to]

-----------------------------------------------------------------------------
(* LoginManager.step. *)

\* Ladder.connect: a live session is used as it is; else exactly one password
\* login, and every outcome of it but success leaves the login pending.  An
\* import of cookies either raises or goes on.
StartStep(r) ==
    /\ pending
    /\ \/ Goto(r, "idle", "add")
       \/ Goto(r, "idle", "done")
    /\ UNCHANGED <<memory, rec, todo, end, msg, store, crashes>>

RefuseStep(r) ==
    /\ ~pending /\ Goto(r, "idle", "done")
    /\ UNCHANGED <<memory, rec, todo, end, msg, store, crashes>>

\* add_login: a new record takes the place of the one before, then the row.
AddRecord(r) ==
    /\ Goto(r, "add", "add_row")
    /\ logins' = r
    /\ UNCHANGED <<pending, state, authed, rec, todo, end, msg, store, crashes>>

AddRow(r) ==
    /\ Goto(r, "add_row", "find")
    /\ row' = "connecting"
    /\ UNCHANGED <<memory, rec, todo, end, msg, events, calls, sent, dead, crashes>>

\* connect() looks its login up again: by now it may be another request's
\* record, or none, which is a KeyError that ends the request.
FindRecord(r) ==
    /\ Goto(r, "find", IF logins = NoRecord THEN "done" ELSE "pull")
    /\ rec' = [rec EXCEPT ![r] = logins]
    /\ UNCHANGED <<memory, todo, end, msg, store, crashes>>

\* Contacts and threads are pulled, provider errors there are passed over, and
\* the poll brings messages, up to an error if there is one.
Pull(r) ==
    /\ Goto(r, "pull", "emit")
    /\ \E fetched \in SUBSET Messages : todo' = [todo EXCEPT ![r] = fetched]
    /\ \E outcome \in Outcomes : end' = [end EXCEPT ![r] = outcome]
    /\ UNCHANGED <<memory, rec, msg, store, crashes>>

\* state and authenticated are two assignments, and another request may write
\* the same record between them: _fail() sets state first, and so does what is
\* connected without being able to send.
SetState(r) ==
    /\ todo[r] = {} /\ Goto(r, "emit", "authed")
    /\ state' = [state EXCEPT ![rec[r]] = end[r]]
    /\ UNCHANGED <<pending, logins, authed, rec, todo, end, msg, store, crashes>>

ThenAuthed(r) ==
    /\ Goto(r, "authed", "row")
    /\ authed' = [authed EXCEPT ![rec[r]] = end[r] = "connected"]
    /\ UNCHANGED <<pending, logins, state, rec, todo, end, msg, store, crashes>>

\* Mutant of SetAuthed: authenticated before the poll's end is known.
SetAuthedEarly(r) ==
    /\ todo[r] = {} /\ Goto(r, "emit", "state")
    /\ authed' = [authed EXCEPT ![rec[r]] = TRUE]
    /\ UNCHANGED <<pending, logins, state, rec, todo, end, msg, store, crashes>>

\* A poll that succeeds sets authenticated first.
SetAuthed(r) ==
    /\ todo[r] = {} /\ end[r] = "connected" /\ Goto(r, "emit", "state")
    /\ authed' = [authed EXCEPT ![rec[r]] = TRUE]
    /\ UNCHANGED <<pending, logins, state, rec, todo, end, msg, store, crashes>>

ThenState(r) ==
    /\ Goto(r, "state", "row")
    /\ state' = [state EXCEPT ![rec[r]] = end[r]]
    /\ UNCHANGED <<pending, logins, authed, rec, todo, end, msg, store, crashes>>

WriteRow(r) ==
    /\ Goto(r, "row", "pop")
    /\ row' = IF row = NoRecord THEN NoRecord ELSE end[r]
    /\ UNCHANGED <<memory, rec, todo, end, msg, events, calls, sent, dead, crashes>>

\* The step answers "connected", whatever connect() made of it.
PopPending(r) ==
    /\ Goto(r, "pop", "done")
    /\ pending' = FALSE
    /\ UNCHANGED <<logins, state, authed, rec, todo, end, msg, store, crashes>>

\* remove_login takes the record out of the dict, and nothing else.
Delete(d) ==
    /\ Goto(d, "idle", "done")
    /\ logins' = NoRecord
    /\ UNCHANGED <<pending, state, authed, rec, todo, end, msg, store, crashes>>

-----------------------------------------------------------------------------
(* Pipeline.ingest_event and its webhook. *)

\* Mutant of InsertEvent: a message that is stored already counts as inserted.
InsertEventAgain(r) ==
    /\ pc[r] = "emit" /\ \E m \in todo[r] :
         /\ todo' = [todo EXCEPT ![r] = @ \ {m}]
         /\ events' = events \cup {m}
         /\ msg' = [msg EXCEPT ![r] = [id |-> m, tries |-> 0]]
         /\ pc' = [pc EXCEPT ![r] = "hook"]
    /\ UNCHANGED <<memory, rec, end, row, calls, sent, dead, crashes>>

\* INSERT OR IGNORE under the lock: one of two that have the message gets it.
InsertEvent(r) ==
    /\ pc[r] = "emit" /\ \E m \in todo[r] :
         /\ todo' = [todo EXCEPT ![r] = @ \ {m}]
         /\ events' = events \cup {m}
         /\ IF m \in events THEN UNCHANGED <<msg, pc>>
            ELSE /\ msg' = [msg EXCEPT ![r] = [id |-> m, tries |-> 0]]
                 /\ pc' = [pc EXCEPT ![r] = "hook"]
    /\ UNCHANGED <<memory, rec, end, row, calls, sent, dead, crashes>>

\* One attempt, outside the lock.  It may raise although the call got through.
CallWebhook(r) ==
    /\ pc[r] = "hook" /\ msg[r].tries < 3
    /\ calls' = [calls EXCEPT ![msg[r].id] = @ + 1]
    /\ \/ Goto(r, "hook", "emit") /\ sent' = sent \cup {msg[r].id}
          /\ msg' = [msg EXCEPT ![r] = NoMessage]
       \/ /\ msg' = [msg EXCEPT ![r].tries = @ + 1]
          /\ sent' \in {sent, sent \cup {msg[r].id}}
          /\ UNCHANGED pc
    /\ UNCHANGED <<memory, rec, todo, end, row, events, dead, crashes>>

\* Mutant of DeadLetter: the message is given up.
DeadLetterDropped(r) ==
    /\ msg[r].tries = 3 /\ Goto(r, "hook", "emit")
    /\ msg' = [msg EXCEPT ![r] = NoMessage]
    /\ UNCHANGED <<memory, rec, todo, end, row, events, calls, sent, dead, crashes>>

\* Three attempts have raised.
DeadLetter(r) ==
    /\ msg[r].tries = 3 /\ Goto(r, "hook", "emit")
    /\ dead' = dead \cup {msg[r].id}
    /\ msg' = [msg EXCEPT ![r] = NoMessage]
    /\ UNCHANGED <<memory, rec, todo, end, row, events, calls, sent, crashes>>

\* The process dies: what is in memory is gone, SQLite and the file stay.
Crash ==
    /\ crashes < MaxCrashes /\ crashes' = crashes + 1
    /\ pending' = FALSE /\ logins' = NoRecord
    /\ pc' = [r \in Requests |-> IF pc[r] = "idle" THEN "idle" ELSE "done"]
    /\ msg' = [r \in Steps |-> NoMessage] /\ todo' = [r \in Steps |-> {}]
    /\ UNCHANGED <<state, authed, rec, end, store>>

Step(r) ==
    \/ StartStep(r) \/ RefuseStep(r) \/ AddRecord(r) \/ AddRow(r)
    \/ FindRecord(r) \/ Pull(r) \/ InsertEvent(r) \/ CallWebhook(r)
    \/ DeadLetter(r) \/ SetState(r) \/ ThenAuthed(r) \/ SetAuthed(r)
    \/ ThenState(r) \/ WriteRow(r) \/ PopPending(r)

RuntimeNext ==
    \/ \E r \in Steps : Step(r)
    \/ \E d \in Deletes : Delete(d)
    \/ Crash

RuntimeSpec == RuntimeInit /\ [][RuntimeNext]_runtime

-----------------------------------------------------------------------------
RuntimeTypeOK ==
    /\ pending \in BOOLEAN
    /\ logins \in Steps \cup {NoRecord}
    /\ state \in [Steps -> Outcomes \cup {"connecting"}]
    /\ authed \in [Steps -> BOOLEAN]
    /\ pc \in [Requests -> {"idle", "add", "add_row", "find", "pull", "emit",
                            "hook", "authed", "state", "row", "pop", "done"}]
    /\ rec \in [Steps -> Steps \cup {NoRecord}]
    /\ todo \in [Steps -> SUBSET Messages]
    /\ end \in [Steps -> Outcomes]
    /\ msg \in [Steps -> [id : Messages \cup {NoRecord}, tries : 0..3]]
    /\ row \in Outcomes \cup {"connecting", NoRecord}
    /\ events \subseteq Messages
    /\ calls \in [Messages -> Nat]
    /\ sent \subseteq Messages /\ dead \subseteq Messages
    /\ crashes \in Nat

Answered == \A r \in Requests : pc[r] \in {"idle", "done"}

Shared(l) == \E r, s \in Steps : r # s /\ rec[r] = l /\ rec[s] = l

\* However steps and a DELETE interleave, when all are answered the login in the
\* dict is not left in connecting: the last record to enter the dict is one that
\* is looked up.  It is authenticated exactly when it is connected, unless two
\* requests shared it: their assignments may mix.
ConnectSettles ==
    Answered /\ logins # NoRecord =>
        /\ state[logins] # "connecting"
        /\ Shared(logins) \/ authed[logins] = (state[logins] = "connected")

\* pipeline.py, lines 5-7: a webhook outage never loses an event.  Unless the
\* process crashed, every stored message was taken by the webhook, is in the
\* dead-letter file, or is on its way there.
NoEventLost ==
    crashes = 0 => \A m \in events :
        m \in sent \cup dead \/ \E r \in Steps : pc[r] = "hook" /\ msg[r].id = m

\* The same lines: for one message the webhook is called three times at most,
\* whichever of the requests that fetched it called it; crashes change nothing.
BoundedRetry == \A m \in Messages : calls[m] <= 3

\* api.py, line 10, and DESIGN.md, lines 291-293: a DELETE wipes the login.
DeletedIsGone ==
    (\E d \in Deletes : pc[d] = "done") /\ Answered /\ logins = NoRecord
    => row = NoRecord /\ events = {}
=============================================================================
