------------------------------- MODULE TikApi -------------------------------
(***************************************************************************)
(* Sending through TikAPI (bridge/providers/tikapi.py): the cached short   *)
(* id and ticket of a conversation, and the guard against sending a client *)
(* message id twice.  Callers, each in a thread of its own, send to one    *)
(* conversation and may take an id again, as a retry does.                 *)
(***************************************************************************)
CONSTANTS
    Sends,   \* calls of send_text
    Cmids    \* client message ids; "" is none

VARIABLES
    step,    \* where each call is
    cmid,    \* its client_message_id
    guard,   \* _sent_cmids
    meta,    \* _conv_meta has the conversation's short id and ticket
    posted,  \* calls whose message TikAPI has sent
    before   \* of each call: the calls that had succeeded when it began

tikApi == <<step, cmid, guard, meta, posted, before>>

TikApiInit ==
    /\ step = [s \in Sends |-> "new"] /\ cmid = [s \in Sends |-> ""]
    /\ guard = {} /\ meta = FALSE
    /\ posted = {} /\ before = [s \in Sends |-> {}]

Go(s, from, to) == step[s] = from /\ step' = [step EXCEPT ![s] = to]

CheckGuard(s) ==
    /\ \E c \in Cmids \cup {""} :
         /\ cmid' = [cmid EXCEPT ![s] = c]
         /\ Go(s, "new", IF c \in guard THEN "failed" ELSE "resolve")
    /\ before' = [before EXCEPT ![s] = {t \in Sends : step[t] = "sent"}]
    /\ UNCHANGED <<guard, meta, posted>>

\* Without a ticket the conversations are listed once: that may fail, and the
\* conversation need not be on the page.
Resolve(s) ==
    /\ \/ Go(s, "resolve", "post") /\ (meta' = TRUE)
       \/ ~meta /\ Go(s, "resolve", "failed") /\ UNCHANGED meta
    /\ UNCHANGED <<cmid, guard, posted, before>>

\* _handle raises for every status but 200 and for a 200 that is no JSON, and
\* the transport for no answer: TikAPI may have sent the message all the same.
Post(s) ==
    /\ \/ Go(s, "post", "mark") /\ posted' = posted \cup {s}
       \/ Go(s, "post", "failed") /\ posted' \in {posted, posted \cup {s}}
    /\ UNCHANGED <<cmid, guard, meta, before>>

\* Mutant of Mark: the id is kept only if the answer names the message.
MarkIfNamed(s) ==
    /\ Go(s, "mark", "sent")
    /\ guard' \in {guard, guard \cup ({cmid[s]} \ {""})}
    /\ UNCHANGED <<cmid, meta, posted, before>>

Mark(s) ==
    /\ Go(s, "mark", "sent")
    /\ guard' = guard \cup ({cmid[s]} \ {""})
    /\ UNCHANGED <<cmid, meta, posted, before>>

\* A poll lists the conversations, or reads one: what is cached is overwritten,
\* and may come without its ticket.
ListConversations ==
    /\ meta' = ~meta
    /\ UNCHANGED <<step, cmid, guard, posted, before>>

\* The guard is of this process only.
TikApiRestart ==
    /\ \E s \in Sends : step[s] # "new"
    /\ step' = [s \in Sends |-> IF step[s] = "new" THEN "new" ELSE "lost"]
    /\ guard' = {} /\ meta' = FALSE
    /\ UNCHANGED <<cmid, posted, before>>

TikApiNext ==
    \/ \E s \in Sends : CheckGuard(s) \/ Resolve(s) \/ Post(s) \/ Mark(s)
    \/ ListConversations \/ TikApiRestart

TikApiSpec == TikApiInit /\ [][TikApiNext]_tikApi

-----------------------------------------------------------------------------
\* The docstring of send_text: a guard against double sends.  A call that begins
\* after one with its id has succeeded in this process sends nothing, whatever
\* else goes on.  (Calls that overlap may both send, and a failed one may have.)
NotSentAgain ==
    \A s \in posted : cmid[s] # "" => \A t \in before[s] : cmid[t] # cmid[s]
=============================================================================
