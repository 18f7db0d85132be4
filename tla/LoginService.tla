---------------------------- MODULE LoginService ----------------------------
(***************************************************************************)
(* What bridge/live.py promises of its one login to those who use it (the  *)
(* wrapper's pages, the metrics): which states follow which, whose chats   *)
(* are stored, and what a logout leaves behind.  No threads, queue,        *)
(* browsers or rows: LiveBridge has those, and implements this.            *)
(***************************************************************************)
CONSTANTS
    Accounts,   \* TikTok accounts the user can log in to
    NoAccount,  \* nobody is logged in
    Overlap     \* may a client call again before the last call took effect?

VARIABLES
    phase,  \* state of the login in the dict, or absent
    asked,  \* a logout was asked for and is not yet carried out
    who,    \* the account of the session in the browser profile
    chats   \* the accounts whose chats are stored

service == <<phase, asked, who, chats>>

Phases == {"absent", "opening_browser", "waiting_login", "connecting",
           "connected", "needs_user", "error"}

ServiceInit == phase = "absent" /\ asked = FALSE /\ who = NoAccount /\ chats = {}

\* What is promised only to a client that waits for each call to take effect:
\* between calls that overlap two opens may reach one login, and a logout may
\* end a login that is being established.
Promised(P) == Overlap \/ P

Move(from, to) ==
    /\ phase # "absent" /\ Promised(phase \in from)
    /\ phase' = to

\* A new login takes the place of any other; a client that waits makes none
\* while a logout is under way.
Connect ==
    /\ Promised(~asked)
    /\ phase' = "opening_browser"
    /\ UNCHANGED <<asked, who, chats>>

\* No session in the profile: TikTok may drop an expired one at that moment.
AskUser ==
    /\ \/ Move({"opening_browser"}, "waiting_login")
       \/ Promised(phase # "connected") /\ UNCHANGED phase
    /\ who' \in {who, NoAccount}
    /\ UNCHANGED <<asked, chats>>

UserLogsIn ==
    /\ Promised(phase # "connected")
    /\ who' \in Accounts
    /\ UNCHANGED <<phase, asked, chats>>

SessionFound ==
    /\ Move({"opening_browser", "waiting_login", "needs_user"}, "connecting")
    /\ who # NoAccount
    /\ UNCHANGED <<asked, who, chats>>

GiveUp ==
    /\ Move({"waiting_login"}, "needs_user")
    /\ UNCHANGED <<asked, who, chats>>

\* The chats of whoever used the profile before go, those of the account come.
Wipe ==
    /\ Promised(phase # "connected")
    /\ chats' = {}
    /\ UNCHANGED <<phase, asked, who>>

MayReceive == chats' = chats \/ (who # NoAccount /\ chats' = chats \cup {who})

Receive == MayReceive /\ UNCHANGED <<phase, asked, who>>

\* From needs_user too: the first sync may have been refused meanwhile.
Established ==
    /\ Move({"connecting", "needs_user"}, "connected")
    /\ Promised(chats \subseteq {who})
    /\ UNCHANGED <<asked, who, chats>>

Expire ==
    /\ Move({"connecting", "connected"}, "needs_user")
    /\ MayReceive
    /\ UNCHANGED <<asked, who>>

Fail ==
    /\ Move(Phases \ {"absent", "error"}, "error")
    /\ MayReceive
    /\ UNCHANGED <<asked, who>>

AskLogout == asked' = TRUE /\ UNCHANGED <<phase, who, chats>>

\* A logout deletes the chats, then the session; then the login is gone.
ForgetChats == asked /\ chats' = {} /\ UNCHANGED <<phase, asked, who>>
ForgetSession ==
    /\ asked /\ Promised(chats = {})
    /\ who' = NoAccount
    /\ UNCHANGED <<phase, asked, chats>>
Leave ==
    /\ asked /\ Promised(chats = {} /\ who = NoAccount)
    /\ phase' = "absent" /\ asked' \in BOOLEAN
    /\ UNCHANGED <<who, chats>>

NobodyToLeave == phase = "absent" /\ asked' \in BOOLEAN /\ UNCHANGED <<phase, who, chats>>

\* A new process knows of no login and of no request; the disk stays.
ServiceRestart == phase' = "absent" /\ asked' = FALSE /\ UNCHANGED <<who, chats>>

ServiceNext ==
    \/ Connect \/ AskUser \/ UserLogsIn \/ SessionFound \/ GiveUp
    \/ Wipe \/ Receive \/ Established \/ Expire \/ Fail
    \/ AskLogout \/ ForgetChats \/ ForgetSession \/ Leave
    \/ NobodyToLeave \/ ServiceRestart

ServiceSpec == ServiceInit /\ [][ServiceNext]_service

\* A connected login shows chats of the account that is logged in only.
ShowsOneAccount == ~Overlap /\ phase = "connected" => chats \subseteq {who}
=============================================================================
