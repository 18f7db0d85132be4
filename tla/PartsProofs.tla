---------------------------- MODULE PartsProofs -----------------------------
(***************************************************************************)
(* TLAPS proofs about the parts that MCParts puts together and that have   *)
(* no module of proofs of their own: for every value of their constants,   *)
(* the files of the key and the session (KeyFiles), the guard of send_text *)
(* (TikApi), the poll loop (SyncLoop) and the v1 runtime (Runtime), each   *)
(* with its inductive invariant; and what is shown of a message            *)
(* (Normalize) for any texts, titles, URLs and types.  Last, from          *)
(* CodecProofs and FrontierProofs, what MCParts says of buffers, requests  *)
(* and messages.                                                           *)
(***************************************************************************)
EXTENDS MCParts, FrontierProofs

-----------------------------------------------------------------------------
(* KeyFiles, for any processes and keys: the master key is never replaced  *)
(* under a process that runs, and a sealed session can always be opened.   *)

KeyFilesTypeOK ==
    /\ at \in [Procs -> {"off", "create", "write"} \cup Started]
    /\ key \in [Procs -> Nat]
    /\ keyFile \in Nat \cup {Absent}
    /\ drawn \in Nat
    /\ tmpFile \in Nat \cup {Absent}
    /\ sealed \in Nat \cup {Absent}

\* A process that runs holds a key, and it is the one on disk.
StartedHolds == \A p \in Procs : at[p] \in Started => key[p] > 0 /\ key[p] = keyFile

\* Who writes the key file has made it, and is alone: nobody runs yet, and
\* nobody else writes.
WriterIsAlone ==
    \A p \in Procs : at[p] = "write" =>
        /\ keyFile = Empty /\ key[p] > 0
        /\ \A q \in Procs : q # p => at[q] \notin {"write"} \cup Started

\* One process has the ports, so that the temporary file is its own.
OneServes == \A p, q \in Procs : at[p] \in Serving /\ at[q] \in Serving => p = q
TemporaryIsWhole == \A p \in Procs : at[p] = "saved" => tmpFile = key[p]

KeyFilesInv ==
    /\ KeyFilesTypeOK
    /\ StartedHolds
    /\ WriterIsAlone
    /\ OneServes
    /\ TemporaryIsWhole
    /\ SessionReadable

\* The fresh disk, before the first start.
LEMMA KeyFilesInitially == KeyFilesInit => KeyFilesInv
  BY DEF KeyFilesInit, KeyFilesInv, KeyFilesTypeOK, StartedHolds, WriterIsAlone,
         OneServes, TemporaryIsWhole, SessionReadable, Absent, Started, Serving

\* Every step of load_or_create_master_key: the file is opened with O_EXCL, so a
\* process that writes it is the only one that can.
LEMMA KeySteps ==
    ASSUME KeyFilesInv, NEW p \in Procs, ReadKey(p) \/ CreateKey(p) \/ WriteKey(p)
    PROVE  KeyFilesInv'
<1> USE DEF KeyFilesInv, KeyFilesTypeOK, StartedHolds, WriterIsAlone, OneServes,
            TemporaryIsWhole, SessionReadable, Absent, Empty, Started, Serving, Advance
<1>1. CASE ReadKey(p)
  <2>1. CASE keyFile = Absent
    BY <1>1, <2>1 DEF ReadKey
  <2>2. CASE keyFile = Empty
    BY <1>1, <2>2 DEF ReadKey
  <2>3. CASE keyFile \notin {Absent, Empty}
    BY <1>1, <2>3 DEF ReadKey
  <2> QED BY <2>1, <2>2, <2>3
<1>2. CASE CreateKey(p)
  <2>1. CASE keyFile = Absent
    BY <1>2, <2>1 DEF CreateKey
  <2>2. CASE keyFile # Absent
    BY <1>2, <2>2 DEF CreateKey
  <2> QED BY <2>1, <2>2
<1>3. CASE WriteKey(p)
  BY <1>3 DEF WriteKey
<1> QED BY <1>1, <1>2, <1>3

\* Every step of a process that has its key: the ports let one process save, and
\* what it renames it has written whole.
LEMMA ServingSteps ==
    ASSUME KeyFilesInv, NEW p \in Procs,
           \/ Serve(p) \/ OpenTemporary(p) \/ WriteTemporary(p) \/ Replace(p)
           \/ DeleteSession(p) \/ Die(p)
    PROVE  KeyFilesInv'
<1> USE DEF KeyFilesInv, KeyFilesTypeOK, StartedHolds, WriterIsAlone, OneServes,
            TemporaryIsWhole, SessionReadable, Absent, Empty, Started, Serving, Advance
<1>1. CASE Serve(p)
  BY <1>1 DEF Serve
<1>2. CASE OpenTemporary(p)
  BY <1>2 DEF OpenTemporary
<1>3. CASE WriteTemporary(p)
  BY <1>3 DEF WriteTemporary
<1>4. CASE Replace(p)
  BY <1>4 DEF Replace
<1>5. CASE DeleteSession(p)
  BY <1>5 DEF DeleteSession
<1>6. CASE Die(p)
  BY <1>6 DEF Die
<1> QED BY <1>1, <1>2, <1>3, <1>4, <1>5, <1>6

\* No step, a crash or the user's removal of an empty key file among them, breaks
\* the invariant.
LEMMA KeyFilesSteps == KeyFilesInv /\ [KeyFilesNext]_keyFiles => KeyFilesInv'
<1> SUFFICES ASSUME KeyFilesInv, [KeyFilesNext]_keyFiles
             PROVE  KeyFilesInv'
  OBVIOUS
<1>1. CASE DeleteKey
  BY <1>1 DEF DeleteKey, KeyFilesInv, KeyFilesTypeOK, StartedHolds, WriterIsAlone,
              OneServes, TemporaryIsWhole, SessionReadable, Absent, Empty, Started, Serving
<1>2. ASSUME NEW p \in Procs, ReadKey(p) \/ CreateKey(p) \/ WriteKey(p)
      PROVE  KeyFilesInv'
  BY <1>2, KeySteps
<1>3. ASSUME NEW p \in Procs,
             \/ Serve(p) \/ OpenTemporary(p) \/ WriteTemporary(p) \/ Replace(p)
             \/ DeleteSession(p) \/ Die(p)
      PROVE  KeyFilesInv'
  BY <1>3, ServingSteps
<1>4. CASE UNCHANGED keyFiles
  BY <1>4 DEF keyFiles, KeyFilesInv, KeyFilesTypeOK, StartedHolds, WriterIsAlone,
              OneServes, TemporaryIsWhole, SessionReadable
<1> QED BY <1>1, <1>2, <1>3, <1>4 DEF KeyFilesNext

\* The invariant in every reachable state.
THEOREM KeyFilesInvariant == KeyFilesSpec => []KeyFilesInv
  BY KeyFilesInitially, KeyFilesSteps, PTL DEF KeyFilesSpec

\* However starts and crashes interleave, a process that runs holds the key that
\* is on disk.
THEOREM KeyIsNeverReplaced == KeyFilesSpec => []HoldsTheStoredKey
<1>1. KeyFilesInv => HoldsTheStoredKey
  BY DEF KeyFilesInv, StartedHolds, HoldsTheStoredKey
<1> QED BY <1>1, KeyFilesInvariant, PTL

\* Whatever was interrupted, a sealed session on disk is whole and opens under
\* the key that is stored.
THEOREM SealedSessionOpens == KeyFilesSpec => []SessionReadable
<1>1. KeyFilesInv => SessionReadable
  BY DEF KeyFilesInv
<1> QED BY <1>1, KeyFilesInvariant, PTL

-----------------------------------------------------------------------------
(* TikApi, for any number of calls and ids: no message id is sent again    *)
(* after a success.  Inductive: an id that has succeeded is in the guard   *)
(* until a restart, which ends every call; so a call that got past the     *)
(* guard has another id than all that had succeeded when it began, and it  *)
(* is only such calls that post.                                           *)

CallSteps == {"new", "resolve", "post", "mark", "sent", "failed", "lost"}

TikApiTypeOK ==
    /\ step \in [Sends -> CallSteps]
    /\ cmid \in [Sends -> Cmids \cup {""}]
    /\ before \in [Sends -> SUBSET Sends]
    /\ posted \subseteq Sends

Guarded == \A t \in Sends : step[t] = "sent" /\ cmid[t] # "" => cmid[t] \in guard

\* Who has begun keeps its id: only those that have are in before.
BeforeBegan == \A s \in Sends : \A t \in before[s] : step[t] # "new"

NewHasNotPosted == \A s \in Sends : step[s] = "new" => s \notin posted

PastTheGuard ==
    \A s \in Sends :
        (s \in posted \/ step[s] \in {"resolve", "post", "mark"}) /\ cmid[s] # ""
        => \A t \in before[s] : cmid[t] # cmid[s]

SendInv == TikApiTypeOK /\ Guarded /\ BeforeBegan /\ NewHasNotPosted /\ PastTheGuard

\* Nothing is sent and nobody has begun at the start.
LEMMA SendInitially == TikApiInit => SendInv
BY DEF TikApiInit, SendInv, TikApiTypeOK, CallSteps, Guarded, BeforeBegan,
       NewHasNotPosted, PastTheGuard

\* Every step of a call, of a poll, and a restart keep the invariant.
LEMMA SendSteps == SendInv /\ [TikApiNext]_tikApi => SendInv'
<1> SUFFICES ASSUME SendInv, [TikApiNext]_tikApi PROVE SendInv'
    OBVIOUS
<1> USE DEF SendInv, TikApiTypeOK, CallSteps, Guarded, BeforeBegan, NewHasNotPosted,
            PastTheGuard
<1>1. CASE \E s \in Sends : CheckGuard(s)
  <2>1. PICK s \in Sends : CheckGuard(s)
        BY <1>1
  <2>2. PICK c \in Cmids \cup {""} :
            /\ cmid' = [cmid EXCEPT ![s] = c]
            /\ Go(s, "new", IF c \in guard THEN "failed" ELSE "resolve")
        BY <2>1 DEF CheckGuard
  <2>3. /\ before' = [before EXCEPT ![s] = {t \in Sends : step[t] = "sent"}]
        /\ UNCHANGED <<guard, posted>>
        BY <2>1 DEF CheckGuard
  <2>4. TikApiTypeOK'
        BY <2>2, <2>3 DEF Go
  <2>5. Guarded'
        BY <2>2, <2>3 DEF Go
  <2>6. BeforeBegan'
        BY <2>2, <2>3 DEF Go
  <2>7. NewHasNotPosted'
        BY <2>2, <2>3 DEF Go
  <2>8. PastTheGuard'
    <3> SUFFICES ASSUME NEW r \in Sends,
                        r \in posted' \/ step'[r] \in {"resolve", "post", "mark"},
                        cmid'[r] # "",
                        NEW t \in before'[r]
                 PROVE  cmid'[t] # cmid'[r]
        OBVIOUS
    <3>1. CASE r = s
          BY <2>2, <2>3, <3>1 DEF Go
    <3>2. CASE r # s
          BY <2>2, <2>3, <3>2 DEF Go
    <3> QED
          BY <3>1, <3>2
  <2> QED
        BY <2>4, <2>5, <2>6, <2>7, <2>8
<1>2. CASE \E s \in Sends : Resolve(s)
      BY ZenonT(30), <1>2 DEF Resolve, Go
<1>3. CASE \E s \in Sends : Post(s)
      BY ZenonT(30), <1>3 DEF Post, Go
<1>4. CASE \E s \in Sends : Mark(s)
      BY ZenonT(30), <1>4 DEF Mark, Go
<1>5. CASE ListConversations
      BY <1>5 DEF ListConversations
<1>6. CASE TikApiRestart
      BY <1>6 DEF TikApiRestart
<1>7. CASE UNCHANGED tikApi
      BY <1>7 DEF tikApi
<1> QED
      BY <1>1, <1>2, <1>3, <1>4, <1>5, <1>6, <1>7 DEF TikApiNext

\* The guard works as the docstring of send_text says, for any callers.
THEOREM SuccessIsNotRepeated == TikApiSpec => []NotSentAgain
<1>1. SendInv => NotSentAgain
      BY DEF SendInv, PastTheGuard, TikApiTypeOK, NotSentAgain
<1> QED
      BY <1>1, SendInitially, SendSteps, PTL DEF TikApiSpec

-----------------------------------------------------------------------------
(* SyncLoop, for any interval, limits and number of retries, and whatever  *)
(* is answered: the loop never spins.  Inductive: since the last wait at   *)
(* most one request was sent for each attempt of the poll under way, for   *)
(* only a Retry-After of 0 goes on to the next attempt without a wait, and *)
(* a poll that ends waits; the back-off waited for is never 0.             *)

LoopTypeOK ==
    /\ loop \in {"poll"} \cup Replies \cup Ends
    /\ attempt \in Nat /\ backoff \in Nat /\ burst \in Nat /\ limited \in Nat

\* burst counts the request under way once it is answered.
BurstInv ==
    /\ attempt <= MaxRetries
    /\ burst <= attempt + 1
    /\ loop = "poll" => burst <= attempt

LoopInv == LoopTypeOK /\ BurstInv

\* Nothing was sent yet.
LEMMA LoopInitially == SyncLoopInit => LoopInv
BY SyncLoopAssumption DEF SyncLoopInit, LoopInv, LoopTypeOK, BurstInv

\* One request more for one attempt more, or none after a wait.
LEMMA LoopSteps == LoopInv /\ [SyncLoopNext]_syncLoop => LoopInv'
<1> SUFFICES ASSUME LoopInv, [SyncLoopNext]_syncLoop PROVE LoopInv'
    OBVIOUS
<1> USE SyncLoopAssumption DEF LoopInv, LoopTypeOK, BurstInv, Replies, Errors, Ends
<1>1. CASE Request
      BY <1>1 DEF Request
<1>2. CASE Retry
  <2>1. PICK n \in {Delay} \cup IF loop = "429" THEN 0..MaxWait ELSE {} : Wait(n)
        BY <1>2 DEF Retry
  <2>2. burst' \in Nat /\ burst' <= burst
        BY <2>1 DEF Wait
  <2> QED
        BY <1>2, <2>2 DEF Retry
<1>3. CASE NegativeWait
      BY <1>3 DEF NegativeWait
<1>4. CASE RateLimited
  <2>1. backoff' \in Nat \ {0}
    <3>1. (IF backoff = 0 THEN Interval ELSE 2 * backoff) \in Nat \ {0}
          OBVIOUS
    <3> QED
          BY <1>4, <3>1, MinIsLess DEF RateLimited
  <2>2. burst' = 0
        BY <1>4, <2>1 DEF RateLimited, Wait
  <2> QED
        BY <1>4, <2>1, <2>2 DEF RateLimited
<1>5. CASE Transient
      BY <1>5 DEF Transient, Wait
<1>6. CASE Polled
      BY <1>6 DEF Polled, Wait
<1>7. CASE PollEnds
      BY <1>7 DEF PollEnds
<1>8. CASE UNCHANGED syncLoop
      BY <1>8 DEF syncLoop
<1> QED
      BY <1>1, <1>2, <1>3, <1>4, <1>5, <1>6, <1>7, <1>8 DEF SyncLoopNext

\* app.py's promise that failures back off, for every configuration.
THEOREM LoopWaits == SyncLoopSpec => []NeverSpins
<1>1. LoopInv => NeverSpins
      BY SyncLoopAssumption DEF LoopInv, LoopTypeOK, BurstInv, NeverSpins
<1> QED
      BY <1>1, LoopInitially, LoopSteps, PTL DEF SyncLoopSpec

\* What is due after so many rate limits: doubled before it is capped or after,
\* it is the same.
Due(n) == Min({MaxBackoff, Interval * 2 ^ (n - 1)})

\* The first rate limit, and each that follows.
LEMMA DueDoubles ==
    /\ Due(1) = Min({MaxBackoff, Interval})
    /\ \A n \in Nat \ {0} : Due(n) > 0 /\ Due(n + 1) = Min({MaxBackoff, 2 * Due(n)})
<1>1. Due(1) = Min({MaxBackoff, Interval})
  <2>1. 1 - 1 = 0 /\ Interval * 1 = Interval
        BY SyncLoopAssumption
  <2> QED
        BY <2>1, PowersBegin DEF Due
<1>2. ASSUME NEW n \in Nat \ {0}
      PROVE  Due(n) > 0 /\ Due(n + 1) = Min({MaxBackoff, 2 * Due(n)})
  <2> DEFINE p == 2 ^ (n - 1)
           x == Interval * p
  <2>1. n - 1 \in Nat /\ (n - 1) + 1 = n /\ (n + 1) - 1 = n
        OBVIOUS
  <2>2. p \in Nat \ {0}
        BY <2>1, PowersDouble, PowersBegin
  <2>3. 2 ^ n = 2 * p
        BY <2>1, PowersDouble
  <2> HIDE DEF p
  <2>4. x \in Nat \ {0} /\ Interval * (2 * p) = 2 * x
        BY <2>2, SyncLoopAssumption
  <2> HIDE DEF x
  <2>5. Due(n) = Min({MaxBackoff, x}) /\ Due(n + 1) = Min({MaxBackoff, 2 * x})
        BY <2>1, <2>3, <2>4 DEF Due, p, x
  <2>6. Due(n) = IF MaxBackoff <= x THEN MaxBackoff ELSE x
        BY <2>4, <2>5, SyncLoopAssumption, MinIsLess
  <2>7. Due(n + 1) = IF MaxBackoff <= 2 * x THEN MaxBackoff ELSE 2 * x
        BY <2>4, <2>5, SyncLoopAssumption, MinIsLess
  <2>8. Due(n) \in Nat \ {0} /\ 2 * Due(n) \in Nat
        BY <2>4, <2>6, SyncLoopAssumption
  <2>9. Min({MaxBackoff, 2 * Due(n)})
          = IF MaxBackoff <= 2 * Due(n) THEN MaxBackoff ELSE 2 * Due(n)
        BY <2>8, SyncLoopAssumption, MinIsLess
  <2> QED
        BY <2>4, <2>6, <2>7, <2>8, <2>9, SyncLoopAssumption
<1> QED
      BY <1>1, <1>2

\* Only a rate limit and a success touch the back-off, and they count.
LEMMA BackoffSteps ==
    LoopInv /\ BackoffFollowsLimits /\ [SyncLoopNext]_syncLoop => BackoffFollowsLimits'
<1> SUFFICES ASSUME LoopInv, BackoffFollowsLimits, [SyncLoopNext]_syncLoop
             PROVE  BackoffFollowsLimits'
    OBVIOUS
<1>1. backoff = IF limited = 0 THEN 0 ELSE Due(limited)
      BY DEF BackoffFollowsLimits, Due
<1>2. backoff' = (IF limited' = 0 THEN 0 ELSE Due(limited')) => BackoffFollowsLimits'
      BY DEF BackoffFollowsLimits, Due
<1>3. limited \in Nat
      BY DEF LoopInv, LoopTypeOK
<1>4. CASE UNCHANGED <<backoff, limited>>
      BY <1>1, <1>2, <1>4
<1>5. CASE RateLimited
  <2>1. /\ backoff' = Min({MaxBackoff, IF backoff = 0 THEN Interval ELSE 2 * backoff})
        /\ limited' = limited + 1
        BY <1>5 DEF RateLimited
  <2>2. CASE limited = 0
        BY <1>1, <1>2, <2>1, <2>2, DueDoubles
  <2>3. CASE limited # 0
    <3>1. Due(limited) > 0 /\ Due(limited + 1) = Min({MaxBackoff, 2 * Due(limited)})
          BY <1>3, <2>3, DueDoubles
    <3>2. backoff = Due(limited) /\ backoff # 0
          BY <1>1, <2>3, <3>1
    <3> QED
          BY <1>2, <1>3, <2>1, <3>1, <3>2
  <2> QED
        BY <2>2, <2>3
<1>6. CASE Polled
      BY <1>2, <1>6 DEF Polled
<1> QED
      BY <1>4, <1>5, <1>6
      DEF SyncLoopNext, Request, Retry, NegativeWait, Transient, PollEnds, syncLoop

\* The back-off after any rate limits, with any other failures and retries in
\* between, for any interval and maximum: BackoffFollowsLimits.
THEOREM BackoffCountsLimits == SyncLoopSpec => []BackoffFollowsLimits
<1>1. SyncLoopInit => BackoffFollowsLimits
      BY DEF SyncLoopInit, BackoffFollowsLimits
<1> QED
      BY <1>1, LoopInitially, LoopSteps, BackoffSteps, PTL DEF SyncLoopSpec

-----------------------------------------------------------------------------
(* Runtime, for any number of step requests, DELETEs, messages and crashes. *)
(* Inductive: a message is handed to the webhook by one request, the one   *)
(* that inserted it, which counts the calls (HookInv) and hands it over    *)
(* before it forgets it (HandedOver); a record in the dict is still to be  *)
(* looked up by its own request, or by one that will give it a state       *)
(* (LookedUp); a record used by one request has the state and flag of that *)
(* request's position (OwnRecord); after a crash nothing runs (CrashInv).  *)

HookInv ==
    /\ \A m \in Messages : calls[m] <= 3 /\ (m \notin events => calls[m] = 0)
    /\ \A r \in Steps : pc[r] = "hook" =>
         msg[r].id \in events /\ calls[msg[r].id] = msg[r].tries
    /\ \A r, s \in Steps : pc[r] = "hook" /\ pc[s] = "hook" /\ r # s =>
         msg[r].id # msg[s].id

HandedOver == NoEventLost

CrashInv ==
    crashes > 0 => /\ logins = NoRecord /\ ~pending
                   /\ \A r \in Requests : pc[r] \in {"idle", "done"}

Before == {"idle", "add", "add_row", "find"}
Connecting == {"pull", "emit", "hook"}
Connects == Connecting \cup {"authed", "state", "row", "pop"}

RecInv ==
    \A r \in Steps : /\ pc[r] \in Before => rec[r] = NoRecord
                     /\ pc[r] \in Connects => rec[r] \in Steps

LookedUp ==
    logins # NoRecord /\ state[logins] = "connecting" =>
        \/ pc[logins] \in {"add_row", "find"}
        \/ \E s \in Steps : rec[s] = logins /\ pc[s] \in Connecting \cup {"state"}

Fresh(l) == state[l] = "connecting" /\ ~authed[l]

\* What the one request s that uses record l has made of it.
Owned(s, l) ==
    /\ pc[s] \in Connecting => Fresh(l)
    /\ pc[s] = "authed" => state[l] = end[s] /\ ~authed[l]
    /\ pc[s] = "state" => authed[l] /\ end[s] = "connected"
    /\ pc[s] \in {"row", "pop", "done"} => authed[l] = (state[l] = "connected")

OwnRecord ==
    crashes = 0 =>
        \A l \in Steps :
            /\ (\A s \in Steps : rec[s] # l) => Fresh(l)
            /\ \A s \in Steps : rec[s] = l /\ ~Shared(l) => Owned(s, l)

RuntimeInv == /\ RuntimeTypeOK /\ HookInv /\ HandedOver /\ CrashInv
              /\ RecInv /\ LookedUp /\ OwnRecord

-----------------------------------------------------------------------------
\* Nothing has been asked for yet.
LEMMA RuntimeInitially == RuntimeInit => RuntimeInv
BY RuntimeAssumption
   DEF RuntimeInit, RuntimeInv, RuntimeTypeOK, HookInv, HandedOver, NoEventLost,
       CrashInv, RecInv, LookedUp, OwnRecord, Fresh, Owned, Shared, Before,
       Connecting, Connects, Requests, Outcomes, NoMessage

\* Every step keeps the types.
LEMMA TypeSteps ==
    ASSUME RuntimeInv, [RuntimeNext]_runtime PROVE RuntimeTypeOK'
<1> USE RuntimeAssumption DEF RuntimeInv, RuntimeTypeOK, memory, locals, store, Requests, Outcomes, NoMessage
<1>1. ASSUME NEW r \in Steps, StartStep(r) PROVE RuntimeTypeOK'
      BY <1>1 DEF StartStep, Goto
<1>2. ASSUME NEW r \in Steps, RefuseStep(r) PROVE RuntimeTypeOK'
      BY <1>2 DEF RefuseStep, Goto
<1>3. ASSUME NEW r \in Steps, AddRecord(r) PROVE RuntimeTypeOK'
      BY <1>3 DEF AddRecord, Goto
<1>4. ASSUME NEW r \in Steps, AddRow(r) PROVE RuntimeTypeOK'
      BY <1>4 DEF AddRow, Goto
<1>5. ASSUME NEW r \in Steps, FindRecord(r) PROVE RuntimeTypeOK'
      BY <1>5 DEF FindRecord, Goto
<1>6. ASSUME NEW r \in Steps, Pull(r) PROVE RuntimeTypeOK'
      BY <1>6 DEF Pull, Goto
<1>7. ASSUME NEW r \in Steps, InsertEvent(r) PROVE RuntimeTypeOK'
      BY <1>7 DEF InsertEvent, Goto
<1>8. ASSUME NEW r \in Steps, CallWebhook(r) PROVE RuntimeTypeOK'
  <2>1. pc[r] = "hook" /\ msg[r].id \in Messages
        BY <1>8 DEF CallWebhook, HookInv
  <2>2. calls' \in [Messages -> Nat] /\ sent' \subseteq Messages
        BY <1>8, <2>1 DEF CallWebhook
  <2>3. msg' \in [Steps -> [id : Messages \cup {NoRecord}, tries : 0..3]]
    <3>1. CASE msg' = [msg EXCEPT ![r] = NoMessage]
          BY <3>1
    <3>2. CASE msg' = [msg EXCEPT ![r].tries = @ + 1]
          BY <1>8, <3>2 DEF CallWebhook
    <3> QED
          BY <1>8, <3>1, <3>2 DEF CallWebhook
  <2> QED
        BY <1>8, <2>2, <2>3 DEF CallWebhook, Goto
<1>9. ASSUME NEW r \in Steps, DeadLetter(r) PROVE RuntimeTypeOK'
  <2>1. msg[r].id \in Messages
        BY <1>9 DEF DeadLetter, Goto, HookInv
  <2> QED
        BY <1>9, <2>1 DEF DeadLetter, Goto
<1>10. ASSUME NEW r \in Steps, SetState(r) PROVE RuntimeTypeOK'
      BY <1>10 DEF SetState, Goto
<1>11. ASSUME NEW r \in Steps, ThenAuthed(r) PROVE RuntimeTypeOK'
      BY <1>11 DEF ThenAuthed, Goto
<1>12. ASSUME NEW r \in Steps, SetAuthed(r) PROVE RuntimeTypeOK'
      BY <1>12 DEF SetAuthed, Goto
<1>13. ASSUME NEW r \in Steps, ThenState(r) PROVE RuntimeTypeOK'
      BY <1>13 DEF ThenState, Goto
<1>14. ASSUME NEW r \in Steps, WriteRow(r) PROVE RuntimeTypeOK'
      BY <1>14 DEF WriteRow, Goto
<1>15. ASSUME NEW r \in Steps, PopPending(r) PROVE RuntimeTypeOK'
      BY <1>15 DEF PopPending, Goto
<1>16. ASSUME NEW d \in Deletes, Delete(d) PROVE RuntimeTypeOK'
      BY <1>16 DEF Delete, Goto
<1>17. CASE Crash
  <2>1. msg' \in [Steps -> [id : Messages \cup {NoRecord}, tries : 0..3]]
        BY <1>17 DEF Crash
  <2>2. pc' \in [Requests -> {"idle", "add", "add_row", "find", "pull", "emit",
                              "hook", "authed", "state", "row", "pop", "done"}]
        BY <1>17 DEF Crash
  <2>3. todo' \in [Steps -> SUBSET Messages] /\ crashes' \in Nat
        BY <1>17 DEF Crash
  <2>4. pending' \in BOOLEAN /\ logins' = NoRecord
        /\ UNCHANGED <<state, authed, rec, end>>
        BY <1>17 DEF Crash
  <2>5. UNCHANGED <<row, events, calls, sent, dead>>
        BY <1>17 DEF Crash
  <2> QED
        BY <2>1, <2>2, <2>3, <2>4, <2>5
<1>18. CASE UNCHANGED runtime
      BY <1>18 DEF runtime, memory, locals, store
<1> QED
      BY <1>1, <1>2, <1>3, <1>4, <1>5, <1>6, <1>7, <1>8, <1>9, <1>10, <1>11,
         <1>12, <1>13, <1>14, <1>15, <1>16, <1>17, <1>18 DEF
         RuntimeNext, Step

\* A message has one hand-over, of three calls at most.
LEMMA HookSteps ==
    ASSUME RuntimeInv, [RuntimeNext]_runtime PROVE HookInv'
<1> USE RuntimeAssumption DEF RuntimeInv, RuntimeTypeOK, memory, locals, store, HookInv, Requests, NoMessage
<1>1. ASSUME NEW r \in Steps, StartStep(r) PROVE HookInv'
      BY <1>1 DEF StartStep, Goto
<1>2. ASSUME NEW r \in Steps, RefuseStep(r) PROVE HookInv'
      BY <1>2 DEF RefuseStep, Goto
<1>3. ASSUME NEW r \in Steps, AddRecord(r) PROVE HookInv'
      BY <1>3 DEF AddRecord, Goto
<1>4. ASSUME NEW r \in Steps, AddRow(r) PROVE HookInv'
      BY <1>4 DEF AddRow, Goto
<1>5. ASSUME NEW r \in Steps, FindRecord(r) PROVE HookInv'
      BY <1>5 DEF FindRecord, Goto
<1>6. ASSUME NEW r \in Steps, Pull(r) PROVE HookInv'
      BY <1>6 DEF Pull, Goto
<1>7. ASSUME NEW r \in Steps, InsertEvent(r) PROVE HookInv'
  <2>1. PICK m \in todo[r] :
             /\ events' = events \cup {m}
             /\ IF m \in events THEN UNCHANGED <<msg, pc>>
                ELSE /\ msg' = [msg EXCEPT ![r] = [id |-> m, tries |-> 0]]
                     /\ pc' = [pc EXCEPT ![r] = "hook"]
        BY <1>7 DEF InsertEvent
  <2>2. UNCHANGED calls
        BY <1>7 DEF InsertEvent
  <2>3. CASE m \in events
        BY <2>1, <2>2, <2>3
  <2>4. CASE m \notin events
    <3>1. m \in Messages /\ calls[m] = 0
          BY <2>4
    <3>2. \A s \in Steps \ {r} : pc'[s] = pc[s] /\ msg'[s] = msg[s]
          BY <2>1, <2>4
    <3>3. pc'[r] = "hook" /\ msg'[r].id = m /\ msg'[r].tries = 0
          BY <2>1, <2>4
    <3>4. events' = events \cup {m}
          BY <2>1
    <3>5. \A n \in Messages : calls'[n] <= 3 /\ (n \notin events' => calls'[n] = 0)
          BY <2>2, <3>4
    <3>6. \A s \in Steps : pc'[s] = "hook" =>
             msg'[s].id \in events' /\ calls'[msg'[s].id] = msg'[s].tries
          BY <2>2, <3>1, <3>2, <3>3, <3>4
    <3>7. \A s, t \in Steps : pc'[s] = "hook" /\ pc'[t] = "hook" /\ s # t =>
             msg'[s].id # msg'[t].id
          BY <2>4, <3>2, <3>3
    <3> QED
          BY <3>5, <3>6, <3>7
  <2> QED
        BY <2>3, <2>4
<1>8. ASSUME NEW r \in Steps, CallWebhook(r) PROVE HookInv'
  <2> DEFINE m == msg[r].id
  <2>1. /\ pc[r] = "hook" /\ m \in Messages /\ m \in events
        /\ calls[m] = msg[r].tries /\ msg[r].tries \in 0..2
        /\ UNCHANGED events
        BY <1>8 DEF CallWebhook
  <2>2. calls' = [calls EXCEPT ![m] = @ + 1]
        BY <1>8 DEF CallWebhook
  <2>3. \A s \in Steps \ {r} : pc'[s] = pc[s] /\ msg'[s] = msg[s]
        BY <1>8 DEF CallWebhook, Goto
  <2>4. \/ pc'[r] = "emit"
        \/ pc'[r] = "hook" /\ msg'[r].id = m /\ msg'[r].tries = msg[r].tries + 1
        BY <1>8, <2>1 DEF CallWebhook, Goto
  <2>5. \A n \in Messages : calls'[n] <= 3 /\ (n \notin events' => calls'[n] = 0)
        BY <2>1, <2>2
  <2>6. \A s \in Steps : pc'[s] = "hook" =>
           msg'[s].id \in events' /\ calls'[msg'[s].id] = msg'[s].tries
        BY <2>1, <2>2, <2>3, <2>4
  <2>7. \A s, t \in Steps : pc'[s] = "hook" /\ pc'[t] = "hook" /\ s # t =>
           msg'[s].id # msg'[t].id
        BY <2>1, <2>3, <2>4
  <2> QED
        BY <2>5, <2>6, <2>7
<1>9. ASSUME NEW r \in Steps, DeadLetter(r) PROVE HookInv'
      BY <1>9 DEF DeadLetter, Goto
<1>10. ASSUME NEW r \in Steps, SetState(r) PROVE HookInv'
      BY <1>10 DEF SetState, Goto
<1>11. ASSUME NEW r \in Steps, ThenAuthed(r) PROVE HookInv'
      BY <1>11 DEF ThenAuthed, Goto
<1>12. ASSUME NEW r \in Steps, SetAuthed(r) PROVE HookInv'
      BY <1>12 DEF SetAuthed, Goto
<1>13. ASSUME NEW r \in Steps, ThenState(r) PROVE HookInv'
      BY <1>13 DEF ThenState, Goto
<1>14. ASSUME NEW r \in Steps, WriteRow(r) PROVE HookInv'
      BY <1>14 DEF WriteRow, Goto
<1>15. ASSUME NEW r \in Steps, PopPending(r) PROVE HookInv'
      BY <1>15 DEF PopPending, Goto
<1>16. ASSUME NEW d \in Deletes, Delete(d) PROVE HookInv'
      BY <1>16 DEF Delete, Goto
<1>17. CASE Crash
      BY <1>17 DEF Crash
<1>18. CASE UNCHANGED runtime
      BY <1>18 DEF runtime, memory, locals, store
<1> QED
      BY <1>1, <1>2, <1>3, <1>4, <1>5, <1>6, <1>7, <1>8, <1>9, <1>10, <1>11,
         <1>12, <1>13, <1>14, <1>15, <1>16, <1>17, <1>18 DEF
         RuntimeNext, Step

\* A stored message is never forgotten before the webhook or the file has it.
LEMMA HandedOverSteps ==
    ASSUME RuntimeInv, [RuntimeNext]_runtime PROVE HandedOver'
<1> USE RuntimeAssumption DEF RuntimeInv, RuntimeTypeOK, memory, locals, store, HookInv, HandedOver, NoEventLost, Requests, NoMessage
<1>1. ASSUME NEW r \in Steps, StartStep(r) PROVE HandedOver'
      BY <1>1 DEF StartStep, Goto
<1>2. ASSUME NEW r \in Steps, RefuseStep(r) PROVE HandedOver'
      BY <1>2 DEF RefuseStep, Goto
<1>3. ASSUME NEW r \in Steps, AddRecord(r) PROVE HandedOver'
      BY <1>3 DEF AddRecord, Goto
<1>4. ASSUME NEW r \in Steps, AddRow(r) PROVE HandedOver'
      BY <1>4 DEF AddRow, Goto
<1>5. ASSUME NEW r \in Steps, FindRecord(r) PROVE HandedOver'
      BY <1>5 DEF FindRecord, Goto
<1>6. ASSUME NEW r \in Steps, Pull(r) PROVE HandedOver'
      BY <1>6 DEF Pull, Goto
<1>7. ASSUME NEW r \in Steps, InsertEvent(r) PROVE HandedOver'
      BY <1>7 DEF InsertEvent, Goto
<1>8. ASSUME NEW r \in Steps, CallWebhook(r) PROVE HandedOver'
      BY <1>8 DEF CallWebhook, Goto
<1>9. ASSUME NEW r \in Steps, DeadLetter(r) PROVE HandedOver'
      BY <1>9 DEF DeadLetter, Goto
<1>10. ASSUME NEW r \in Steps, SetState(r) PROVE HandedOver'
      BY <1>10 DEF SetState, Goto
<1>11. ASSUME NEW r \in Steps, ThenAuthed(r) PROVE HandedOver'
      BY <1>11 DEF ThenAuthed, Goto
<1>12. ASSUME NEW r \in Steps, SetAuthed(r) PROVE HandedOver'
      BY <1>12 DEF SetAuthed, Goto
<1>13. ASSUME NEW r \in Steps, ThenState(r) PROVE HandedOver'
      BY <1>13 DEF ThenState, Goto
<1>14. ASSUME NEW r \in Steps, WriteRow(r) PROVE HandedOver'
      BY <1>14 DEF WriteRow, Goto
<1>15. ASSUME NEW r \in Steps, PopPending(r) PROVE HandedOver'
      BY <1>15 DEF PopPending, Goto
<1>16. ASSUME NEW d \in Deletes, Delete(d) PROVE HandedOver'
      BY <1>16 DEF Delete, Goto
<1>17. CASE Crash
      BY <1>17 DEF Crash
<1>18. CASE UNCHANGED runtime
      BY <1>18 DEF runtime, memory, locals, store
<1> QED
      BY <1>1, <1>2, <1>3, <1>4, <1>5, <1>6, <1>7, <1>8, <1>9, <1>10, <1>11,
         <1>12, <1>13, <1>14, <1>15, <1>16, <1>17, <1>18 DEF
         RuntimeNext, Step

\* A crash ends everything, and nothing starts again.
LEMMA CrashSteps ==
    ASSUME RuntimeInv, [RuntimeNext]_runtime PROVE CrashInv'
<1> USE RuntimeAssumption DEF RuntimeInv, RuntimeTypeOK, memory, locals, store, CrashInv, Requests
<1>1. ASSUME NEW r \in Steps, StartStep(r) PROVE CrashInv'
      BY <1>1 DEF StartStep, Goto
<1>2. ASSUME NEW r \in Steps, RefuseStep(r) PROVE CrashInv'
      BY <1>2 DEF RefuseStep, Goto
<1>3. ASSUME NEW r \in Steps, AddRecord(r) PROVE CrashInv'
      BY <1>3 DEF AddRecord, Goto
<1>4. ASSUME NEW r \in Steps, AddRow(r) PROVE CrashInv'
      BY <1>4 DEF AddRow, Goto
<1>5. ASSUME NEW r \in Steps, FindRecord(r) PROVE CrashInv'
      BY <1>5 DEF FindRecord, Goto
<1>6. ASSUME NEW r \in Steps, Pull(r) PROVE CrashInv'
      BY <1>6 DEF Pull, Goto
<1>7. ASSUME NEW r \in Steps, InsertEvent(r) PROVE CrashInv'
      BY <1>7 DEF InsertEvent, Goto
<1>8. ASSUME NEW r \in Steps, CallWebhook(r) PROVE CrashInv'
      BY <1>8 DEF CallWebhook, Goto
<1>9. ASSUME NEW r \in Steps, DeadLetter(r) PROVE CrashInv'
      BY <1>9 DEF DeadLetter, Goto
<1>10. ASSUME NEW r \in Steps, SetState(r) PROVE CrashInv'
      BY <1>10 DEF SetState, Goto
<1>11. ASSUME NEW r \in Steps, ThenAuthed(r) PROVE CrashInv'
      BY <1>11 DEF ThenAuthed, Goto
<1>12. ASSUME NEW r \in Steps, SetAuthed(r) PROVE CrashInv'
      BY <1>12 DEF SetAuthed, Goto
<1>13. ASSUME NEW r \in Steps, ThenState(r) PROVE CrashInv'
      BY <1>13 DEF ThenState, Goto
<1>14. ASSUME NEW r \in Steps, WriteRow(r) PROVE CrashInv'
      BY <1>14 DEF WriteRow, Goto
<1>15. ASSUME NEW r \in Steps, PopPending(r) PROVE CrashInv'
      BY <1>15 DEF PopPending, Goto
<1>16. ASSUME NEW d \in Deletes, Delete(d) PROVE CrashInv'
      BY <1>16 DEF Delete, Goto
<1>17. CASE Crash
      BY <1>17 DEF Crash
<1>18. CASE UNCHANGED runtime
      BY <1>18 DEF runtime, memory, locals, store
<1> QED
      BY <1>1, <1>2, <1>3, <1>4, <1>5, <1>6, <1>7, <1>8, <1>9, <1>10, <1>11,
         <1>12, <1>13, <1>14, <1>15, <1>16, <1>17, <1>18 DEF
         RuntimeNext, Step

\* A request has a record from the look-up on.
LEMMA RecSteps ==
    ASSUME RuntimeInv, [RuntimeNext]_runtime PROVE RecInv'
<1> USE RuntimeAssumption DEF RuntimeInv, RuntimeTypeOK, memory, locals, store, RecInv, Before, Connecting, Connects, Requests
<1>1. ASSUME NEW r \in Steps, StartStep(r) PROVE RecInv'
      BY <1>1 DEF StartStep, Goto
<1>2. ASSUME NEW r \in Steps, RefuseStep(r) PROVE RecInv'
      BY <1>2 DEF RefuseStep, Goto
<1>3. ASSUME NEW r \in Steps, AddRecord(r) PROVE RecInv'
      BY <1>3 DEF AddRecord, Goto
<1>4. ASSUME NEW r \in Steps, AddRow(r) PROVE RecInv'
      BY <1>4 DEF AddRow, Goto
<1>5. ASSUME NEW r \in Steps, FindRecord(r) PROVE RecInv'
      BY <1>5 DEF FindRecord, Goto
<1>6. ASSUME NEW r \in Steps, Pull(r) PROVE RecInv'
      BY <1>6 DEF Pull, Goto
<1>7. ASSUME NEW r \in Steps, InsertEvent(r) PROVE RecInv'
      BY <1>7 DEF InsertEvent, Goto
<1>8. ASSUME NEW r \in Steps, CallWebhook(r) PROVE RecInv'
      BY <1>8 DEF CallWebhook, Goto
<1>9. ASSUME NEW r \in Steps, DeadLetter(r) PROVE RecInv'
      BY <1>9 DEF DeadLetter, Goto
<1>10. ASSUME NEW r \in Steps, SetState(r) PROVE RecInv'
      BY <1>10 DEF SetState, Goto
<1>11. ASSUME NEW r \in Steps, ThenAuthed(r) PROVE RecInv'
      BY <1>11 DEF ThenAuthed, Goto
<1>12. ASSUME NEW r \in Steps, SetAuthed(r) PROVE RecInv'
      BY <1>12 DEF SetAuthed, Goto
<1>13. ASSUME NEW r \in Steps, ThenState(r) PROVE RecInv'
      BY <1>13 DEF ThenState, Goto
<1>14. ASSUME NEW r \in Steps, WriteRow(r) PROVE RecInv'
      BY <1>14 DEF WriteRow, Goto
<1>15. ASSUME NEW r \in Steps, PopPending(r) PROVE RecInv'
      BY <1>15 DEF PopPending, Goto
<1>16. ASSUME NEW d \in Deletes, Delete(d) PROVE RecInv'
      BY <1>16 DEF Delete, Goto
<1>17. CASE Crash
      BY <1>17 DEF Crash
<1>18. CASE UNCHANGED runtime
      BY <1>18 DEF runtime, memory, locals, store
<1> QED
      BY <1>1, <1>2, <1>3, <1>4, <1>5, <1>6, <1>7, <1>8, <1>9, <1>10, <1>11,
         <1>12, <1>13, <1>14, <1>15, <1>16, <1>17, <1>18 DEF
         RuntimeNext, Step

\* The record in the dict gets its state.
LEMMA LookedUpSteps ==
    ASSUME RuntimeInv, [RuntimeNext]_runtime PROVE LookedUp'
<1> USE RuntimeAssumption DEF RuntimeInv, RuntimeTypeOK, memory, locals, store, RecInv, LookedUp, Before, Connecting, Connects, Requests, Outcomes
<1>1. ASSUME NEW r \in Steps, StartStep(r) PROVE LookedUp'
      BY <1>1 DEF StartStep, Goto
<1>2. ASSUME NEW r \in Steps, RefuseStep(r) PROVE LookedUp'
      BY <1>2 DEF RefuseStep, Goto
<1>3. ASSUME NEW r \in Steps, AddRecord(r) PROVE LookedUp'
      BY <1>3 DEF AddRecord, Goto
<1>4. ASSUME NEW r \in Steps, AddRow(r) PROVE LookedUp'
      BY <1>4 DEF AddRow, Goto
<1>5. ASSUME NEW r \in Steps, FindRecord(r) PROVE LookedUp'
      BY <1>5 DEF FindRecord, Goto
<1>6. ASSUME NEW r \in Steps, Pull(r) PROVE LookedUp'
      BY <1>6 DEF Pull, Goto
<1>7. ASSUME NEW r \in Steps, InsertEvent(r) PROVE LookedUp'
      BY <1>7 DEF InsertEvent, Goto
<1>8. ASSUME NEW r \in Steps, CallWebhook(r) PROVE LookedUp'
      BY <1>8 DEF CallWebhook, Goto
<1>9. ASSUME NEW r \in Steps, DeadLetter(r) PROVE LookedUp'
      BY <1>9 DEF DeadLetter, Goto
<1>10. ASSUME NEW r \in Steps, SetState(r) PROVE LookedUp'
      BY <1>10 DEF SetState, Goto
<1>11. ASSUME NEW r \in Steps, ThenAuthed(r) PROVE LookedUp'
      BY <1>11 DEF ThenAuthed, Goto
<1>12. ASSUME NEW r \in Steps, SetAuthed(r) PROVE LookedUp'
      BY <1>12 DEF SetAuthed, Goto
<1>13. ASSUME NEW r \in Steps, ThenState(r) PROVE LookedUp'
      BY <1>13 DEF ThenState, Goto
<1>14. ASSUME NEW r \in Steps, WriteRow(r) PROVE LookedUp'
      BY <1>14 DEF WriteRow, Goto
<1>15. ASSUME NEW r \in Steps, PopPending(r) PROVE LookedUp'
      BY <1>15 DEF PopPending, Goto
<1>16. ASSUME NEW d \in Deletes, Delete(d) PROVE LookedUp'
      BY <1>16 DEF Delete, Goto
<1>17. CASE Crash
      BY <1>17 DEF Crash
<1>18. CASE UNCHANGED runtime
      BY <1>18 DEF runtime, memory, locals, store
<1> QED
      BY <1>1, <1>2, <1>3, <1>4, <1>5, <1>6, <1>7, <1>8, <1>9, <1>10, <1>11,
         <1>12, <1>13, <1>14, <1>15, <1>16, <1>17, <1>18 DEF
         RuntimeNext, Step

\* A record that is not shared agrees with its request.
LEMMA OwnRecordSteps ==
    ASSUME RuntimeInv, [RuntimeNext]_runtime PROVE OwnRecord'
<1> USE RuntimeAssumption DEF RuntimeInv, RuntimeTypeOK, memory, locals, store, CrashInv, RecInv, OwnRecord, Owned, Fresh, Shared, Before, Connecting, Connects, Requests, Outcomes
<1>1. ASSUME NEW r \in Steps, StartStep(r) PROVE OwnRecord'
      BY <1>1 DEF StartStep, Goto
<1>2. ASSUME NEW r \in Steps, RefuseStep(r) PROVE OwnRecord'
      BY <1>2 DEF RefuseStep, Goto
<1>3. ASSUME NEW r \in Steps, AddRecord(r) PROVE OwnRecord'
      BY <1>3 DEF AddRecord, Goto
<1>4. ASSUME NEW r \in Steps, AddRow(r) PROVE OwnRecord'
      BY <1>4 DEF AddRow, Goto
<1>5. ASSUME NEW r \in Steps, FindRecord(r) PROVE OwnRecord'
  <2>1. /\ pc[r] = "find" /\ rec[r] = NoRecord
        /\ pc'[r] = IF logins = NoRecord THEN "done" ELSE "pull"
        /\ rec'[r] = logins
        /\ \A s \in Steps \ {r} : pc'[s] = pc[s] /\ rec'[s] = rec[s]
        /\ UNCHANGED <<state, authed, end, crashes>>
        BY <1>5 DEF FindRecord, Goto
  <2>2. SUFFICES ASSUME crashes = 0, NEW l \in Steps
                 PROVE  /\ (\A s \in Steps : rec'[s] # l) => Fresh(l)
                        /\ \A s \in Steps : rec'[s] = l /\ ~Shared(l)' => Owned(s, l)'
        BY <2>1
  <2>3. (\A s \in Steps : rec'[s] # l) => \A s \in Steps : rec[s] # l
        BY <2>1
  <2>4. ASSUME NEW s \in Steps, rec'[s] = l, ~Shared(l)' PROVE Owned(s, l)'
    <3>1. CASE s = r
      <4>1. \A t \in Steps : rec[t] # l
            BY <2>1, <2>4, <3>1
      <4>2. Fresh(l)
            BY <2>2, <4>1
      <4> QED
            BY <2>1, <2>4, <3>1, <4>2
    <3>2. CASE s # r
      <4>1. rec[s] = l /\ ~Shared(l)
            BY <2>1, <2>4, <3>2
      <4>2. Owned(s, l)
            BY <2>2, <4>1
      <4> QED
            BY <2>1, <3>2, <4>2
    <3> QED
          BY <3>1, <3>2
  <2> QED
        BY <2>2, <2>3, <2>4
<1>6. ASSUME NEW r \in Steps, Pull(r) PROVE OwnRecord'
      BY <1>6 DEF Pull, Goto
<1>7. ASSUME NEW r \in Steps, InsertEvent(r) PROVE OwnRecord'
      BY <1>7 DEF InsertEvent, Goto
<1>8. ASSUME NEW r \in Steps, CallWebhook(r) PROVE OwnRecord'
  <2>1. UNCHANGED <<state, authed, rec, end, crashes>>
        BY <1>8 DEF CallWebhook
  <2>2. \A s \in Steps :
           \/ pc'[s] = pc[s]
           \/ pc[s] = "hook" /\ pc'[s] = "emit"
    <3>1. CASE Goto(r, "hook", "emit")
          BY <3>1 DEF Goto
    <3>2. CASE UNCHANGED pc
          BY <3>2
    <3> QED
          BY <1>8, <3>1, <3>2 DEF CallWebhook
  <2> QED
        BY <2>1, <2>2
<1>9. ASSUME NEW r \in Steps, DeadLetter(r) PROVE OwnRecord'
      BY <1>9 DEF DeadLetter, Goto
<1>10. ASSUME NEW r \in Steps, SetState(r) PROVE OwnRecord'
      BY <1>10 DEF SetState, Goto
<1>11. ASSUME NEW r \in Steps, ThenAuthed(r) PROVE OwnRecord'
      BY <1>11 DEF ThenAuthed, Goto
<1>12. ASSUME NEW r \in Steps, SetAuthed(r) PROVE OwnRecord'
  <2>1. /\ pc[r] = "emit" /\ pc'[r] = "state" /\ end[r] = "connected"
        /\ rec[r] \in Steps /\ authed'[rec[r]]
        /\ \A l \in Steps \ {rec[r]} : authed'[l] = authed[l]
        /\ \A s \in Steps \ {r} : pc'[s] = pc[s]
        /\ UNCHANGED <<state, rec, end, crashes>>
        BY <1>12 DEF SetAuthed, Goto
  <2>2. SUFFICES ASSUME crashes = 0, NEW l \in Steps
                 PROVE  /\ (\A s \in Steps : rec[s] # l) => Fresh(l)'
                        /\ \A s \in Steps : rec[s] = l /\ ~Shared(l) => Owned(s, l)'
        BY <2>1
  <2>3. (\A s \in Steps : rec[s] # l) => Fresh(l)'
        BY <2>1, <2>2
  <2>4. ASSUME NEW s \in Steps, rec[s] = l, ~Shared(l) PROVE Owned(s, l)'
    <3>1. CASE s = r
          BY <2>1, <2>4, <3>1
    <3>2. CASE s # r
          BY <2>1, <2>2, <2>4, <3>2
    <3> QED
          BY <3>1, <3>2
  <2> QED
        BY <2>3, <2>4
<1>13. ASSUME NEW r \in Steps, ThenState(r) PROVE OwnRecord'
      BY <1>13 DEF ThenState, Goto
<1>14. ASSUME NEW r \in Steps, WriteRow(r) PROVE OwnRecord'
      BY <1>14 DEF WriteRow, Goto
<1>15. ASSUME NEW r \in Steps, PopPending(r) PROVE OwnRecord'
      BY <1>15 DEF PopPending, Goto
<1>16. ASSUME NEW d \in Deletes, Delete(d) PROVE OwnRecord'
      BY <1>16 DEF Delete, Goto
<1>17. CASE Crash
      BY <1>17 DEF Crash
<1>18. CASE UNCHANGED runtime
      BY <1>18 DEF runtime, memory, locals, store
<1> QED
      BY <1>1, <1>2, <1>3, <1>4, <1>5, <1>6, <1>7, <1>8, <1>9, <1>10, <1>11,
         <1>12, <1>13, <1>14, <1>15, <1>16, <1>17, <1>18 DEF
         RuntimeNext, Step

\* The invariant holds in every state.
THEOREM RuntimeInvariant == RuntimeSpec => []RuntimeInv
<1>1. RuntimeInv /\ [RuntimeNext]_runtime => RuntimeInv'
      BY TypeSteps, HookSteps, HandedOverSteps, CrashSteps, RecSteps, LookedUpSteps,
         OwnRecordSteps DEF RuntimeInv
<1> QED
      BY <1>1, RuntimeInitially, PTL DEF RuntimeSpec

\* pipeline.py's retry is bounded per message, not only per request.
THEOREM WebhookIsBounded == RuntimeSpec => []BoundedRetry
<1>1. RuntimeInv => BoundedRetry
      BY DEF RuntimeInv, HookInv, BoundedRetry
<1> QED
      BY <1>1, RuntimeInvariant, PTL

\* Without a crash no stored message is lost to the webhook.
THEOREM EventsReachTheWebhook == RuntimeSpec => []NoEventLost
<1>1. RuntimeInv => NoEventLost
      BY DEF RuntimeInv, HandedOver
<1> QED
      BY <1>1, RuntimeInvariant, PTL

\* However requests interleave, the login in the dict is settled at the end.
THEOREM ConnectsSettle == RuntimeSpec => []ConnectSettles
<1>1. RuntimeInv => ConnectSettles
  <2> SUFFICES ASSUME RuntimeInv, Answered, logins # NoRecord
               PROVE  /\ state[logins] # "connecting"
                      /\ Shared(logins) \/ authed[logins] = (state[logins] = "connected")
      BY DEF ConnectSettles
  <2>1. state[logins] # "connecting"
        BY DEF RuntimeInv, RuntimeTypeOK, LookedUp, Connecting, Answered, Requests
  <2>2. crashes = 0
        BY DEF RuntimeInv, RuntimeTypeOK, CrashInv
  <2>3. PICK s \in Steps : rec[s] = logins
        BY <2>1, <2>2 DEF RuntimeInv, RuntimeTypeOK, OwnRecord, Fresh
  <2>4. pc[s] = "done"
        BY <2>3 DEF RuntimeInv, RuntimeTypeOK, RecInv, Before, Answered, Requests
  <2>5. ~Shared(logins) => authed[logins] = (state[logins] = "connected")
        BY <2>2, <2>3, <2>4 DEF RuntimeInv, RuntimeTypeOK, OwnRecord, Owned
  <2> QED
        BY <2>1, <2>5
<1> QED
      BY <1>1, RuntimeInvariant, PTL

-----------------------------------------------------------------------------
(* Normalize, for any texts, titles, URLs and types.                       *)

\* The kinds that media and hints give.
LEMMA KindsAre ==
    ASSUME NEW hints
    PROVE  /\ \A obj : MediaOf(obj).kind \in {"gif", "sticker", "image"}
           /\ \A text : KindOf(hints, text) \in {"text", "image", "video", "share"}
           /\ \A text : KindOf(hints, text) = "image" => hints.type = 2
           /\ \A text : KindOf(hints, text) = "video" => hints.type = 5
           /\ \A text : hints.type \in {0, 1} /\ text # Blank => KindOf(hints, text) = "text"
<1>1. \A obj : MediaOf(obj).kind \in {"gif", "sticker", "image"}
      BY DEF MediaOf
<1>2. ASSUME NEW text
      PROVE  /\ KindOf(hints, text) \in {"text", "image", "video", "share"}
             /\ KindOf(hints, text) = "image" => hints.type = 2
             /\ KindOf(hints, text) = "video" => hints.type = 5
             /\ hints.type \in {0, 1} /\ text # Blank => KindOf(hints, text) = "text"
  <2>1. CASE hints.type = 1
        BY <2>1 DEF KindOf
  <2>2. CASE hints.type = 2
        BY <2>2 DEF KindOf
  <2>3. CASE hints.type = 5
        BY <2>3 DEF KindOf
  <2>4. CASE hints.type = 7
        BY <2>4 DEF KindOf
  <2>5. CASE hints.type \notin {1, 2, 5, 7}
    <3>1. KindOf(hints, text) = IF text = Blank /\ hints.share THEN "share" ELSE "text"
          BY <2>5 DEF KindOf
    <3> QED
        BY <2>5, <3>1
  <2> QED
      BY <2>1, <2>2, <2>3, <2>4, <2>5
<1> QED
    BY <1>1, <1>2

\* The branches of to_event.
LEMMA EventIs ==
    ASSUME NEW raw, NEW hints,
           NEW ev, ev = ToEvent(raw, hints),
           NEW text, text = ExtractText(raw)
    PROVE  \/ /\ raw.is = "json" /\ raw.obj.share /\ ev.kind = "share"
           \/ /\ raw.is = "json" /\ FindUrl(raw.obj) # "none"
              /\ ev.kind = MediaOf(raw.obj).kind
              /\ ev.body = <<FindUrl(raw.obj)>>
           \/ ev.kind = "system"
           \/ text # Blank /\ ev.kind = KindOf(hints, text) /\ ev.body = <<text>>
           \/ ev.kind = "sticker" /\ ev.body = <<>>
           \/ /\ ev.kind = "unknown" \/ ev.kind = KindOf(hints, Blank)
              /\ ev.kind # "text" /\ ev.body = <<>>
<1> DEFINE other == Otherwise(hints)
<1>1. \A kind, body : /\ Shown(kind, body).kind = kind
                      /\ Shown(kind, body).body = body
      BY DEF Shown
<1>2. /\ other.kind = "unknown" \/ other.kind = KindOf(hints, Blank)
      /\ other.kind # "text" /\ other.body = <<>>
  <2>1. CASE KindOf(hints, Blank) = "text"
        BY <1>1, <2>1 DEF Otherwise
  <2>2. CASE KindOf(hints, Blank) # "text"
        BY <1>1, <2>2 DEF Otherwise
  <2> QED
      BY <2>1, <2>2
<1>3. CASE raw.is # "json"
  <2>1. \/ ev = Shown("system", <<>>)
        \/ text # Blank /\ ev = Shown(KindOf(hints, text), <<text>>)
        \/ ev = Shown("sticker", <<>>)
        \/ ev = other
        BY <1>3 DEF ToEvent
  <2> HIDE DEF other
  <2> QED
      BY <1>1, <1>2, <2>1
<1>4. CASE raw.is = "json"
  <2>1. \/ raw.obj.share /\ ev = Shown("share", ShareTitle(raw.obj))
        \/ /\ FindUrl(raw.obj) # "none"
           /\ ev = Shown(MediaOf(raw.obj).kind, <<MediaOf(raw.obj).url>>)
        \/ text # Blank /\ ev = Shown(KindOf(hints, text), <<text>>)
        \/ ev = Shown("sticker", <<>>)
        \/ ev = other
        BY <1>4 DEF ToEvent
  <2>2. MediaOf(raw.obj).url = FindUrl(raw.obj)
        BY DEF MediaOf
  <2> HIDE DEF other
  <2> QED
      BY <1>1, <1>2, <1>4, <2>1, <2>2
<1> QED
    BY <1>3, <1>4

\* No message is shown as a blank text.
LEMMA NeverBlankForAny ==
    ASSUME NEW raw, NEW hints
    PROVE  NeverBlank(raw, hints)
<1> DEFINE ev == ToEvent(raw, hints)
           text == ExtractText(raw)
<1>1. ev.kind = "text" => ev.body = <<text>>
  <2> HIDE DEF ev, text
  <2> QED
      BY EventIs, KindsAre DEF ev, text
<1> QED
    BY <1>1 DEF NeverBlank

\* What was typed is shown as typed.
LEMMA TypedTextShownForAny ==
    ASSUME NEW raw, NEW hints
    PROVE  TypedTextShown(raw, hints)
<1> SUFFICES ASSUME raw.is = "json", raw.obj.text # Blank, ~raw.obj.share,
                    raw.obj.url = "none", hints.type \in {0, 1}
             PROVE  ToEvent(raw, hints) = Shown("text", <<raw.obj.text>>)
    BY DEF TypedTextShown
<1>1. ExtractText(raw) = raw.obj.text /\ raw.obj.text # Blank
      BY DEF ExtractText
<1>2. FindUrl(raw.obj) = "none"
      BY DEF FindUrl
<1>3. KindOf(hints, raw.obj.text) = "text"
      BY <1>1, KindsAre
<1> QED
    BY <1>1, <1>2, <1>3 DEF ToEvent

\* Text is never shown as media.
LEMMA TextIsNoMediaForAny ==
    ASSUME NEW raw, NEW hints
    PROVE  TextIsNoMedia(raw, hints)
<1> DEFINE ev == ToEvent(raw, hints)
<1> SUFFICES ASSUME ev.kind \in {"gif", "sticker", "image", "video"},
                    ev.kind = "image" => hints.type # 2,
                    ev.kind = "video" => hints.type # 5
             PROVE  ev.body = <<>> \/ (raw.obj.url # "none" /\ ev.body = <<raw.obj.url>>)
    BY DEF TextIsNoMedia
<1>1. FindUrl(raw.obj) # "none" => FindUrl(raw.obj) = raw.obj.url
      BY DEF FindUrl
<1>2. \/ FindUrl(raw.obj) # "none" /\ ev.body = <<FindUrl(raw.obj)>>
      \/ ev.body = <<>>
  <2> DEFINE text == ExtractText(raw)
  <2>1. ev = ToEvent(raw, hints) /\ text = ExtractText(raw)
        OBVIOUS
  <2> HIDE DEF ev, text
  <2>2. \/ ev.kind \in {"share", "system"}
        \/ FindUrl(raw.obj) # "none" /\ ev.body = <<FindUrl(raw.obj)>>
        \/ ev.kind = KindOf(hints, text) /\ ev.body = <<text>>
        \/ ev.body = <<>>
        BY <2>1, EventIs
  <2>3. ~(ev.kind = KindOf(hints, text))
    <3> SUFFICES ASSUME ev.kind = KindOf(hints, text) PROVE FALSE
        OBVIOUS
    <3>1. ev.kind = "text" \/ ev.kind = "image" \/ ev.kind = "video" \/ ev.kind = "share"
          BY KindsAre
    <3> QED
        BY <3>1, KindsAre
  <2> QED
      BY <2>2, <2>3
<1> QED
    BY <1>1, <1>2

-----------------------------------------------------------------------------
(* The properties of the run.                                              *)

\* A buffer to be decoded is chosen once, and stays.
DecodesABuffer == part = "decode" => arg \in Buffers

\* It is a buffer from the start, and no step of the parts changes it.
LEMMA BufferStays == PartsSpec => []DecodesABuffer
<1>1. PartsInit => DecodesABuffer
  <2> SUFFICES ASSUME PartsInit, part = "decode" PROVE arg \in Buffers
      BY DEF DecodesABuffer
  <2>1. arg \in ShortBuffers
        BY DEF PartsInit
  <2>2. PICK m \in 0..4 : arg \in [1..m -> {1, 8, 10, 13, 97, 115, 128}]
        BY <2>1 DEF ShortBuffers, BoundedSeq, SeqOf
  <2>3. arg \in [1..m -> 0..255] /\ m \in Nat
        BY <2>2
  <2> QED
      BY <2>3, SeqDef DEF Buffers
<1>2. DecodesABuffer /\ [PartsNext]_parts => DecodesABuffer'
      BY DEF DecodesABuffer, PartsNext, parts, idle
<1> QED
    BY <1>1, <1>2, PTL DEF PartsSpec

\* A request is a buffer, and what a message carries another one: chosen once.
Requested == part = "request" => arg \in Buffers
Carried == part = "content" => arg \in Buffers \X BOOLEAN

\* The strings of the run are bytes.
LEMMA StringsAreBuffers == Strings \subseteq Buffers
BY DEF Strings, Buffers, CommandType

\* What one, two or three fields are written to is a buffer.
LEMMA EncodedFew ==
    ASSUME NEW u \in Sent, NEW v \in Sent, NEW w \in Sent
    PROVE  /\ EncodeFields(<<u>>) \in Buffers /\ EncodeFields(<<u, v>>) \in Buffers
           /\ EncodeFields(<<u, v, w>>) \in Buffers
<1>1. <<u>> \in Seq(Sent) /\ <<u, v>> \in Seq(Sent) /\ <<u, v, w>> \in Seq(Sent)
      OBVIOUS
<1> QED
    BY <1>1, EncodesBuffer

\* A frame with a message in it is a buffer.
LEMMA FramesAreBuffers ==
    ASSUME NEW id \in Nat, NEW ts \in Nat, NEW content \in Buffers, NEW notice \in BOOLEAN
    PROVE  InFrame(Message(id, ts, content, notice)) \in Buffers
<1> DEFINE m == Message(id, ts, content, notice)
           fields == Inner(id, ts, content, notice)
<1>1. fields \in Seq(Sent) /\ m = EncodeFields(fields)
      BY InnerIs
<1> HIDE DEF m, fields
<1>2. m \in Buffers
      BY <1>1, EncodesBuffer
<1>3. Wrapped(5, m) \in Buffers
      BY <1>2, WrappedIs
<1>4. Wrapped(500, Wrapped(5, m)) \in Buffers
      BY <1>3, WrappedIs
<1>5. Wrapped(6, Wrapped(500, Wrapped(5, m))) \in Buffers
      BY <1>4, WrappedIs
<1> QED
    BY <1>5 DEF InFrame, m

\* The requests of the run are buffers.
LEMMA RequestsAreBuffers == SentRequests \subseteq Buffers
<1>1. SentFields \subseteq Sent
  <2>1. ASSUME NEW num \in {1, 16}, NEW v \in {0, 127, 300} PROVE IntField(num, v) \in Sent
        BY FieldsAreSent
  <2>2. ASSUME NEW num \in {1, 16}, NEW b \in Strings PROVE BytesField(num, b) \in Sent
        BY FieldsAreSent, StringsAreBuffers
  <2> QED
      BY <2>1, <2>2 DEF SentFields
<1>2. \A v, w \in {IntField(1, 0), BytesField(16, <<97>>)} : v \in Sent /\ w \in Sent
  <2>1. <<97>> \in Buffers
        BY DEF Buffers
  <2>2. IntField(1, 0) \in Sent /\ BytesField(16, <<97>>) \in Sent
        BY <2>1, FieldsAreSent
  <2> QED
      BY <2>2
<1>3. ASSUME NEW s \in Strings, NEW notice \in BOOLEAN PROVE Framed(s, notice) \in Buffers
  <2>1. s \in Buffers /\ 7 \in Nat /\ 5000 \in Nat
        BY StringsAreBuffers
  <2> QED
      BY <2>1, FramesAreBuffers DEF Framed
<1>4. ASSUME NEW v \in Sent, NEW w \in Sent
      PROVE  /\ EncodeFields(<<v>>) \in Buffers /\ EncodeFields(<<v, w>>) \in Buffers
             /\ EncodeFields(<<v, w, v>>) \in Buffers
      BY EncodedFew
<1> SUFFICES ASSUME NEW x \in SentRequests PROVE x \in Buffers
    OBVIOUS
<1>5. \/ \E v \in SentFields : x = EncodeFields(<<v>>)
      \/ \E v, w \in SentFields : x = EncodeFields(<<v, w>>)
      \/ \E v, w \in {IntField(1, 0), BytesField(16, <<97>>)} : x = EncodeFields(<<v, w, v>>)
      \/ \E s \in Strings, notice \in BOOLEAN : x = Framed(s, notice)
      BY DEF SentRequests
<1>6. CASE \E v \in SentFields : x = EncodeFields(<<v>>)
      BY <1>1, <1>4, <1>6
<1>7. CASE \E v, w \in SentFields : x = EncodeFields(<<v, w>>)
  <2>1. PICK v \in SentFields, w \in SentFields : x = EncodeFields(<<v, w>>)
        BY <1>7
  <2> QED
      BY <1>1, <1>4, <2>1, Zenon
<1>8. CASE \E v, w \in {IntField(1, 0), BytesField(16, <<97>>)} : x = EncodeFields(<<v, w, v>>)
  <2>1. PICK v \in {IntField(1, 0), BytesField(16, <<97>>)},
             w \in {IntField(1, 0), BytesField(16, <<97>>)} : x = EncodeFields(<<v, w, v>>)
        BY <1>8, Zenon
  <2>2. v \in Sent /\ w \in Sent
        BY <1>2
  <2> QED
      BY <1>4, <2>1, <2>2, Zenon
<1>9. CASE \E s \in Strings, notice \in BOOLEAN : x = Framed(s, notice)
      BY <1>3, <1>9, Zenon
<1> QED
    BY <1>5, <1>6, <1>7, <1>8, <1>9

\* They are so from the start, and no step of the parts changes them.
LEMMA InputsStay == PartsSpec => [](Requested /\ Carried)
<1>1. PartsInit => Requested /\ Carried
  <2>1. PartsInit /\ part = "request" => arg \in Buffers
        BY RequestsAreBuffers DEF PartsInit
  <2>2. PartsInit /\ part = "content" => arg \in Buffers \X BOOLEAN
        BY StringsAreBuffers DEF PartsInit
  <2> QED
      BY <2>1, <2>2 DEF Requested, Carried
<1>2. Requested /\ Carried /\ [PartsNext]_parts => (Requested /\ Carried)'
      BY DEF Requested, Carried, PartsNext, parts, idle
<1> QED
    BY <1>1, <1>2, PTL DEF PartsSpec

\* decode_tree's guesses: no value that looks like a message makes the buffer
\* around it undecodable.
THEOREM GuessesAreHarmless == PartsSpec => []CodecNested
<1>1. DecodesABuffer => CodecNested
      BY NestedNeverFails DEF DecodesABuffer, CodecNested
<1> QED
    BY <1>1, BufferStays, PTL

\* web.py replays the page's own request: the requests of the run are among the
\* buffers of CanonicalIsSentAgain.
THEOREM RequestsAreSentAgain == PartsSpec => []CodecRoundTrip
<1>1. Requested => CodecRoundTrip
      BY CanonicalIsSentAgain DEF Requested, CodecRoundTrip
<1> QED
    BY <1>1, InputsStay, PTL

\* frontier.py: the messages of the run, of contents that are UTF-8 and of others,
\* are among those of MessagesAreDelivered.
THEOREM ContentsAreDelivered == PartsSpec => []CodecDelivers
<1>1. Carried => CodecDelivers
  <2> SUFFICES ASSUME part = "content", arg \in Buffers \X BOOLEAN
               PROVE  Delivered(7, 5000, 300, arg[1], arg[2])
      BY DEF Carried, CodecDelivers
  <2>1. arg[1] \in Buffers /\ arg[2] \in BOOLEAN /\ 7 \in Nat /\ 5000 \in Nat /\ 300 \in Nat
        OBVIOUS
  <2> QED
      BY <2>1, MessagesAreDelivered
<1> QED
    BY <1>1, InputsStay, PTL

\* The comment in to_event: whatever the content and the hints, and whatever its
\* texts, no message is shown as a blank text.
THEOREM NoEventIsBlank ==
    /\ \A raw, hints : NeverBlank(raw, hints)
    /\ PartsSpec => []EventNeverBlank
<1>1. EventNeverBlank
      BY NeverBlankForAny DEF EventNeverBlank
<1>2. PartsSpec => []EventNeverBlank
      BY <1>1, PTL
<1> QED
    BY <1>2, NeverBlankForAny

\* What somebody typed, any text but the empty one, is shown as it was typed, under
\* any title and author, unless message_type says that it is something else.
THEOREM TextIsShownAsTyped ==
    /\ \A raw, hints : TypedTextShown(raw, hints)
    /\ PartsSpec => []EventTextShown
<1>1. EventTextShown
      BY TypedTextShownForAny DEF EventTextShown
<1>2. PartsSpec => []EventTextShown
      BY <1>1, PTL
<1> QED
    BY <1>2, TypedTextShownForAny

\* The comment in _find_url: for any texts and hints, a text is shown as a picture,
\* sticker or video only if message_type itself is that of an image or a video; the
\* body of any other is the URL that came with it, or none.
THEOREM MediaIsNotText ==
    /\ \A raw, hints : TextIsNoMedia(raw, hints)
    /\ PartsSpec => []EventTextIsNoMedia
<1>1. EventTextIsNoMedia
      BY TextIsNoMediaForAny DEF EventTextIsNoMedia
<1>2. PartsSpec => []EventTextIsNoMedia
      BY <1>1, PTL
<1> QED
    BY <1>2, TextIsNoMediaForAny
=============================================================================
