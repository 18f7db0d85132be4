------------------------------ MODULE SyncLoop ------------------------------
(***************************************************************************)
(* The poll loop of the run command (BridgeApp of bridge/app.py) over the  *)
(* mobile client's requests and their retries (Client._do of client.py).   *)
(*                                                                         *)
(* A poll is one request: the conversation list the mobile client parses   *)
(* is always empty.  Waits are in half seconds; the random quarter of a    *)
(* second a back-off adds is left out.                                     *)
(***************************************************************************)
EXTENDS Naturals, FiniteSetsExt

CONSTANTS
    Interval,    \* poll_interval
    MaxBackoff,  \* max_backoff
    MaxRetries,  \* max_retries
    MaxWait,     \* bound on the server's Retry-After
    MaxLimited   \* bound on the polls in a row that end rate limited

ASSUME SyncLoopAssumption ==
    /\ Interval \in Nat \ {0} /\ MaxBackoff \in Nat \ {0} /\ MaxRetries \in Nat
    /\ MaxWait \in Nat

VARIABLES
    loop,     \* what the loop does next, or the answer it has to handle
    attempt,  \* of the request under way
    backoff,  \* BridgeApp._backoff
    burst,    \* requests sent since the loop last waited
    limited   \* polls that ended rate limited since the last success

syncLoop == <<loop, attempt, backoff, burst, limited>>

\* HTTP statuses and the status code in the envelope, by what is made of them.
Errors == {"AuthError", "Banned", "InvalidRequest", "IMNotInitialized"}
Replies == {"429", "5xx", "ok"} \cup Errors
Ends == {"stopped", "crashed"}

SyncLoopInit == loop = "poll" /\ attempt = 0 /\ backoff = 0 /\ burst = 0 /\ limited = 0

Wait(n) == burst' = IF n = 0 THEN burst ELSE 0

Request ==
    /\ loop = "poll"
    /\ loop' \in Replies
    /\ burst' = burst + 1
    /\ UNCHANGED <<attempt, backoff, limited>>

\* At most 60 seconds, of which backoff_base is a half; attempt is that of the
\* request that failed.
Delay == Min({120, 2 ^ attempt})

\* A 429 waits as long as Retry-After says, be it not at all.
Retry ==
    /\ loop \in {"429", "5xx"} /\ attempt < MaxRetries
    /\ \E n \in {Delay} \cup IF loop = "429" THEN 0..MaxWait ELSE {} : Wait(n)
    /\ attempt' = attempt + 1
    /\ loop' = "poll"
    /\ UNCHANGED <<backoff, limited>>

\* time.sleep refuses a negative Retry-After, and nothing catches it.
NegativeWait ==
    /\ loop = "429" /\ attempt < MaxRetries
    /\ loop' = "crashed"
    /\ UNCHANGED <<attempt, backoff, burst, limited>>

\* Mutant of RateLimited: the limit is applied before the doubling.
RateLimitedLate ==
    /\ loop = "429" /\ attempt = MaxRetries /\ limited < MaxLimited
    /\ backoff' = IF backoff = 0 THEN Interval ELSE 2 * Min({MaxBackoff, backoff})
    /\ Wait(backoff')
    /\ limited' = limited + 1
    /\ attempt' = 0 /\ loop' = "poll"

\* run() does not wait again: the back-off is not 0.
RateLimited ==
    /\ loop = "429" /\ attempt = MaxRetries /\ limited < MaxLimited
    /\ backoff' = Min({MaxBackoff, IF backoff = 0 THEN Interval ELSE 2 * backoff})
    /\ Wait(backoff')
    /\ limited' = limited + 1
    /\ attempt' = 0 /\ loop' = "poll"

\* Mutant of Transient: run() alone waits, which it does without a back-off only.
TransientWaitsOnce ==
    /\ loop = "5xx" /\ attempt = MaxRetries
    /\ Wait(IF backoff = 0 THEN Interval ELSE 0)
    /\ attempt' = 0 /\ loop' = "poll"
    /\ UNCHANGED <<backoff, limited>>

\* The back-off stays as it was; without one, run() waits a second time.
Transient ==
    /\ loop = "5xx" /\ attempt = MaxRetries
    /\ Wait(Interval)
    /\ attempt' = 0 /\ loop' = "poll"
    /\ UNCHANGED <<backoff, limited>>

Polled ==
    /\ loop = "ok"
    /\ backoff' = 0 /\ limited' = 0
    /\ Wait(Interval)
    /\ attempt' = 0 /\ loop' = "poll"

\* An AuthError ends run(); the other errors end the process.
PollEnds ==
    /\ loop \in Errors
    /\ loop' = IF loop = "AuthError" THEN "stopped" ELSE "crashed"
    /\ UNCHANGED <<attempt, backoff, burst, limited>>

SyncLoopNext ==
    \/ Request \/ Retry \/ NegativeWait
    \/ RateLimited \/ Transient \/ Polled \/ PollEnds

SyncLoopSpec == SyncLoopInit /\ [][SyncLoopNext]_syncLoop

-----------------------------------------------------------------------------
\* app.py, lines 9-11: failures back off, they do not spin.  Whatever TikTok
\* answers, and however short its Retry-After is, the loop waits after at most
\* one request and its retries.
NeverSpins == burst <= MaxRetries + 1

\* The back-off is a function of the rate limits since the last success, other
\* failures and retries in between change nothing: the interval, doubled for
\* each but the first, up to the maximum.
BackoffFollowsLimits ==
    backoff = IF limited = 0 THEN 0 ELSE Min({MaxBackoff, Interval * 2 ^ (limited - 1)})
=============================================================================
