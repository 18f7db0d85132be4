---------------------- MODULE LiveBridgeServiceProofs -----------------------
(***************************************************************************)
(* TLAPS proof that LiveBridge implements LoginService, for every client.  *)
(*                                                                         *)
(* Whoever calls when, a new login is untouched until the dict holds it,   *)
(* and the worker handles logins the dict has held (HandledInv).  What is  *)
(* promised beyond that to a client that waits (~Overlap) follows from     *)
(* IInv, and from the state a login is in when it is marked as connected   *)
(* (MarkInv).                                                              *)
(***************************************************************************)
EXTENDS LiveBridgeService, LiveBridgeProofs

\* Marked as connected is a login that is connecting, or whose first sync was
\* refused.
MarkInv == Near("mark") => st[cur] \in {"connecting", "needs_user"}

RInv == IInv /\ MarkInv

\* A login that is not registered yet is as it was made, and nobody's; what the
\* worker handles was in the dict once.
HandledInv ==
    /\ Handling => cur \in Calls
    /\ pend.next \notin Logging
    /\ \A c \in Calls : cpc[c] \in {"idle", "register"} =>
         /\ st[c] = "opening_browser" /\ logins # c
         /\ Handling => cur # c

\* What the refinement needs: of any client, and of one that waits.
SInv == TypeInv /\ HandledInv /\ (Overlap \/ RInv)

\* A step that is one of the service, or none.
Serves == [Service!ServiceNext]_(Service!service)

-----------------------------------------------------------------------------
(* What is told of the login, and the logout requests, across a step.      *)

\* A step of the worker outside a logout leaves the requests alone.
LEMMA PendingSame ==
  ASSUME q' = q, wpc \in Logging <=> wpc' \in Logging
  PROVE  LogoutPending' = LogoutPending
BY DEF LogoutPending

\* A command put into the queue is a request if it is a logout.
LEMMA PendingAppend ==
  ASSUME TypeOK, NEW x \in Commands, q' = Append(q, x), wpc' = wpc
  PROVE  /\ x.cmd = "logout" => LogoutPending'
         /\ x.cmd # "logout" => LogoutPending' = LogoutPending
<1>1. q \in Seq(Commands) /\ Len(q') = Len(q) + 1
  BY DEF TypeOK
<1>2. q'[Len(q) + 1] = x /\ \A i \in 1..Len(q) : q'[i] = q[i]
  BY <1>1
<1>3. (\E i \in 1..Len(q') : q'[i].cmd = "logout")
      <=> (\E i \in 1..Len(q) : q[i].cmd = "logout") \/ x.cmd = "logout"
  BY <1>1, <1>2
<1> QED BY <1>3 DEF LogoutPending

\* Taking another command than a logout leaves the requests alone.
LEMMA PendingTail ==
  ASSUME TypeOK, q # <<>>, q' = Tail(q), Head(q).cmd # "logout",
         wpc \notin Logging, wpc' \notin Logging
  PROVE  LogoutPending' = LogoutPending
<1>1. q \in Seq(Commands) /\ Len(q) \in Nat \ {0} /\ Len(q') = Len(q) - 1
  BY DEF TypeOK
<1>2. /\ \A i \in 1..Len(q') : q'[i] = q[i + 1] /\ i + 1 \in 1..Len(q)
      /\ \A i \in 1..Len(q) : i # 1 => q[i] = q'[i - 1] /\ i - 1 \in 1..Len(q')
      /\ q[1] = Head(q)
  BY <1>1
<1>3. (\E i \in 1..Len(q') : q'[i].cmd = "logout")
      <=> (\E i \in 1..Len(q) : q[i].cmd = "logout")
  BY <1>2
<1> QED BY <1>3 DEF LogoutPending

\* _set_state and _fail show when they are of the login in the dict.
LEMMA PhaseSet ==
  ASSUME TypeOK, cur \in Calls, logins' = logins,
         NEW s, st' = [st EXCEPT ![cur] = s]
  PROVE  Phase' = IF cur = logins THEN s ELSE Phase
BY CallsAssumption DEF TypeOK, Phase

\* What is told changes with the dict and the states only.
LEMMA PhaseSame ==
  ASSUME logins' = logins, st' = st PROVE Phase' = Phase
BY DEF Phase

\* What the dict holds while another login is handled: for a client that waits,
\* nothing, or a login that is still to be opened.
LEMMA PhaseOther ==
  ASSUME SInv, Handling
  PROVE  /\ cur \in Calls
         /\ cur = logins => Phase = st[cur] /\ Phase \in States
         /\ cur # logins => Overlap \/ Phase \in {"absent", "opening_browser"}
<1>1. cur \in Calls /\ (cur = logins => Phase = st[cur] /\ Phase \in States)
  BY CallsAssumption DEF SInv, HandledInv, TypeInv, TypeOK, Phase
<1>2. cur # logins => Overlap \/ Phase \in {"absent", "opening_browser"}
  BY DEF SInv, RInv, IInv, CoreInv, WorkerInv, Phase
<1> QED BY <1>1, <1>2

-----------------------------------------------------------------------------
(* The steps of the service, with what they need. *)

\* Nothing that shows.
LEMMA ServeNothing ==
  ASSUME Phase' = Phase, LogoutPending' = LogoutPending, UNCHANGED <<jar, rows>>
  PROVE  Serves
BY DEF Serves, Service!service

\* Chats of the account that is logged in.
LEMMA ServeReceive ==
  ASSUME Phase' = Phase, LogoutPending' = LogoutPending, jar' = jar, MayStore
  PROVE  Serves
BY DEF Serves, MayStore, Service!ServiceNext, Service!Receive, Service!MayReceive

\* A login ends in error, chats received on the way included.
LEMMA ServeFail ==
  ASSUME Phase \in States, Overlap \/ Phase \notin {"error", "logged_out"},
         Phase' = "error",
         LogoutPending' = LogoutPending, jar' = jar, MayStore
  PROVE  Serves
<1>1. Phase # "absent" /\ (Overlap \/ Phase \in Service!Phases \ {"absent", "error"})
  BY DEF States, Service!Phases
<1>2. Service!Move(Service!Phases \ {"absent", "error"}, "error")
  BY <1>1 DEF Service!Move, Service!Promised
<1>3. Service!Fail
  BY <1>2 DEF MayStore, Service!Fail, Service!MayReceive
<1> QED BY <1>3 DEF Serves, Service!ServiceNext

\* TikTok refuses the session of a login that was established.
LEMMA ServeExpire ==
  ASSUME Phase \in States, Overlap \/ Phase \in {"connecting", "connected"},
         Phase' = "needs_user",
         LogoutPending' = LogoutPending, jar' = jar, MayStore
  PROVE  Serves
<1>1. Service!Expire
  BY DEF MayStore, Service!Expire, Service!Move, Service!MayReceive, Service!Promised, States
<1> QED BY <1>1 DEF Serves, Service!ServiceNext

\* The window is closed, timed out or throttled.
LEMMA ServeGiveUp ==
  ASSUME Phase \in States, Overlap \/ Phase = "waiting_login", Phase' = "needs_user",
         LogoutPending' = LogoutPending, UNCHANGED <<jar, rows>>
  PROVE  Serves
<1>1. Service!GiveUp
  BY DEF Service!GiveUp, Service!Move, Service!Promised, States
<1> QED BY <1>1 DEF Serves, Service!ServiceNext

\* A session in the profile.
LEMMA ServeSessionFound ==
  ASSUME Phase \in States,
         Overlap \/ Phase \in {"opening_browser", "waiting_login", "needs_user"},
         Phase' = "connecting", jar # NoAccount,
         LogoutPending' = LogoutPending, UNCHANGED <<jar, rows>>
  PROVE  Serves
<1>1. Service!SessionFound
  BY DEF Service!SessionFound, Service!Move, Service!Promised, States
<1> QED BY <1>1 DEF Serves, Service!ServiceNext

\* No session in it, or none that TikTok accepts.
LEMMA ServeAskUser ==
  ASSUME \/ /\ Phase \in States /\ (Overlap \/ Phase = "opening_browser")
            /\ Phase' = "waiting_login"
         \/ (Overlap \/ Phase # "connected") /\ Phase' = Phase,
         jar' \in {jar, NoAccount}, LogoutPending' = LogoutPending, rows' = rows
  PROVE  Serves
<1>1. Service!AskUser
  BY DEF Service!AskUser, Service!Move, Service!Promised, States
<1> QED BY <1>1 DEF Serves, Service!ServiceNext

\* The login is marked as connected.
LEMMA ServeEstablished ==
  ASSUME Phase \in States, Overlap \/ Phase \in {"connecting", "needs_user"},
         Phase' = "connected", Overlap \/ rows \subseteq {jar},
         LogoutPending' = LogoutPending, UNCHANGED <<jar, rows>>
  PROVE  Serves
<1>1. Service!Established
  BY DEF Service!Established, Service!Move, Service!Promised, States
<1> QED BY <1>1 DEF Serves, Service!ServiceNext

-----------------------------------------------------------------------------
(* One lemma per group of actions. *)

\* Opening the browser ends in a session, a window or an error.
LEMMA ServeDoOpen ==
  ASSUME SInv, DoOpen PROVE Serves
<1> USE DEF At
<1>1. TypeOK
  BY DEF SInv, TypeInv
<1>2. /\ Handling /\ wpc \notin Logging
      /\ wpc' \notin Logging
      /\ UNCHANGED <<logins, q, rows>>
  BY RetType, <1>1 DEF TypeOK, DoOpen, Launch, LaunchFails, ProbeSession, ProbeQr,
     ProbePassword, ProbeFails, OpenWindow, OpenWindowFails, Goto, SetState, Fail,
     Logging, Handling, Outside, disk
<1>3. LogoutPending' = LogoutPending
  BY <1>2, PendingSame
<1>4. MayStore
  BY <1>2 DEF MayStore
<1>5. /\ cur \in Calls /\ (cur = logins => Phase = st[cur] /\ Phase \in States)
      /\ cur # logins => Overlap \/ Phase \in {"absent", "opening_browser"}
      /\ Overlap \/ st[cur] = "opening_browser"
  BY <1>2, PhaseOther
     DEF SInv, RInv, IInv, CoreInv, WorkerInv, DoOpen, Launch, LaunchFails, ProbeSession,
         ProbeQr, ProbePassword, ProbeFails, OpenWindow, OpenWindowFails
<1>6. ASSUME NEW s, NEW n, SetState(s, n) PROVE Phase' = IF cur = logins THEN s ELSE Phase
  BY <1>1, <1>2, <1>5, <1>6, PhaseSet DEF SetState
<1>7. ASSUME st' = st PROVE Phase' = Phase
  BY <1>2, <1>7, PhaseSame
<1>8. CASE Launch
  BY <1>2, <1>3, <1>7, <1>8, ServeNothing DEF Launch, disk
<1>9. ASSUME NEW n, Fail("error", n), jar' = jar PROVE Serves
  <2>1. Phase' = IF cur = logins THEN "error" ELSE Phase
    BY <1>6, <1>9 DEF Fail
  <2>2. CASE cur = logins
    BY <1>3, <1>4, <1>5, <1>9, <2>1, <2>2, ServeFail
  <2>3. CASE cur # logins
    BY <1>2, <1>3, <1>9, <2>1, <2>3, ServeNothing
  <2> QED BY <2>2, <2>3
<1>10. CASE LaunchFails
  BY <1>9, <1>10 DEF LaunchFails, disk
<1>11. CASE ProbeSession
  <2>1. Phase' = IF cur = logins THEN "connecting" ELSE Phase
    BY <1>6, <1>11 DEF ProbeSession
  <2>2. jar # NoAccount /\ UNCHANGED <<jar, rows>>
    BY <1>11 DEF ProbeSession, disk
  <2> QED BY <1>3, <1>5, <2>1, <2>2, ServeNothing, ServeSessionFound
<1>12. CASE ProbeQr
  <2>1. Phase' = IF cur = logins THEN "waiting_login" ELSE Phase
    BY <1>6, <1>12 DEF ProbeQr
  <2>2. jar' \in {jar, NoAccount}
    BY <1>12 DEF ProbeQr, Redirected
  <2> QED BY <1>2, <1>3, <1>5, <2>1, <2>2, ServeAskUser
<1>13. CASE ProbePassword
  <2>1. Phase' = Phase
    BY <1>7, <1>13 DEF ProbePassword, mem
  <2>2. jar' \in {jar, NoAccount}
    BY <1>13 DEF ProbePassword, Redirected
  <2> QED BY <1>2, <1>3, <1>5, <2>1, <2>2, ServeAskUser
<1>14. CASE ProbeFails
  BY <1>9, <1>14 DEF ProbeFails, disk
<1>15. CASE OpenWindow
  <2>1. Phase' = IF cur = logins THEN "waiting_login" ELSE Phase
    BY <1>6, <1>15 DEF OpenWindow
  <2>2. jar' = jar
    BY <1>15 DEF OpenWindow, disk
  <2> QED BY <1>2, <1>3, <1>5, <2>1, <2>2, ServeAskUser
<1>16. CASE OpenWindowFails
  BY <1>9, <1>16 DEF OpenWindowFails, disk
<1> QED BY <1>8, <1>10, <1>11, <1>12, <1>13, <1>14, <1>15, <1>16 DEF DoOpen

\* Watching the window; the one check that may wait is of a login that waits.
LEMMA ServeCheckLogin ==
  ASSUME SInv, CheckLogin PROVE Serves
<1> USE DEF At
<1>1. TypeOK
  BY DEF SInv, TypeInv
<1>2. /\ Handling /\ wpc \notin Logging
      /\ wpc' \notin Logging
      /\ UNCHANGED <<logins, q, jar, rows>>
  BY RetType, <1>1 DEF TypeOK, CheckLogin, CheckClosed, CheckNotYet, CheckGivesUp,
     CheckLoggedIn, CheckFails, Takeover, TakeoverFails, Goto, SetState, Fail,
     Logging, Handling, Outside, disk
<1>3. LogoutPending' = LogoutPending
  BY <1>2, PendingSame
<1>4. MayStore
  BY <1>2 DEF MayStore
<1>5. /\ cur \in Calls /\ (cur = logins => Phase = st[cur] /\ Phase \in States)
      /\ Overlap \/ (wpc = "check" => st[cur] \in {"waiting_login", "needs_user"})
      /\ Overlap \/ (wpc = "takeover" => st[cur] = "connecting")
  BY <1>2, PhaseOther DEF SInv, RInv, IInv, CoreInv, WorkerInv, Near
<1>6. ASSUME NEW s, NEW n, SetState(s, n) PROVE Phase' = IF cur = logins THEN s ELSE Phase
  BY <1>1, <1>2, <1>5, <1>6, PhaseSet DEF SetState
<1>7. ASSUME st' = st PROVE Serves
  BY <1>2, <1>3, <1>7, PhaseSame, ServeNothing
<1>8. ASSUME NEW n, Fail("error", n), Overlap \/ st[cur] \notin {"error", "logged_out"}
      PROVE  Serves
  <2>1. Phase' = IF cur = logins THEN "error" ELSE Phase
    BY <1>6, <1>8 DEF Fail
  <2>2. CASE cur = logins
    BY <1>2, <1>3, <1>4, <1>5, <1>8, <2>1, <2>2, ServeFail
  <2>3. CASE cur # logins
    BY <1>2, <1>3, <2>1, <2>3, ServeNothing
  <2> QED BY <2>2, <2>3
<1>9. ASSUME NEW n, Fail("needs_user", n), st[cur] = "waiting_login" PROVE Serves
  <2>1. Phase' = IF cur = logins THEN "needs_user" ELSE Phase
    BY <1>6, <1>9 DEF Fail
  <2> QED BY <1>2, <1>3, <1>5, <1>9, <2>1, ServeGiveUp, ServeNothing
<1>10. CASE CheckClosed
  BY <1>7, <1>9, <1>10 DEF CheckClosed, mem
<1>11. CASE CheckNotYet
  BY <1>7, <1>11 DEF CheckNotYet, mem
<1>12. CASE CheckGivesUp
  BY <1>9, <1>12 DEF CheckGivesUp
<1>13. CASE CheckLoggedIn
  <2>1. Phase' = IF cur = logins THEN "connecting" ELSE Phase
    BY <1>6, <1>13 DEF CheckLoggedIn
  <2>2. jar # NoAccount /\ (Overlap \/ st[cur] \in {"waiting_login", "needs_user"})
    BY <1>5, <1>13 DEF CheckLoggedIn
  <2> QED BY <1>2, <1>3, <1>5, <2>1, <2>2, ServeNothing, ServeSessionFound
<1>14. CASE CheckFails
  BY <1>5, <1>8, <1>14 DEF CheckFails
<1>15. CASE Takeover
  BY <1>7, <1>15 DEF Takeover
<1>16. CASE TakeoverFails
  BY <1>5, <1>8, <1>16 DEF TakeoverFails
<1> QED BY <1>10, <1>11, <1>12, <1>13, <1>14, <1>15, <1>16 DEF CheckLogin

\* The chats of whoever was there before go before the login is connected.
LEMMA ServeDoEstablish ==
  ASSUME SInv, DoEstablish PROVE Serves
<1> USE DEF At
<1>1. TypeOK
  BY DEF SInv, TypeInv
<1>2. /\ Handling /\ wpc \notin Logging
      /\ wpc' \notin Logging
      /\ UNCHANGED <<logins, q, jar>>
  BY RetType, <1>1 DEF TypeOK, DoEstablish, EstablishWipe, EstablishUpsert, Establish,
     MarkConnected, Goto, SetState, Fail, Logging, Handling, Outside, disk
<1>3. LogoutPending' = LogoutPending
  BY <1>2, PendingSame
<1>4. /\ cur \in Calls /\ (cur = logins => Phase = st[cur] /\ Phase \in States)
      /\ cur # logins => Overlap \/ Phase \in {"absent", "opening_browser"}
      /\ Overlap \/ (wpc \in {"wipe", "establish"} => st[cur] = "connecting")
  BY <1>2, PhaseOther DEF SInv, RInv, IInv, CoreInv, WorkerInv, Near
<1>5. ASSUME NEW s, NEW n, SetState(s, n) PROVE Phase' = IF cur = logins THEN s ELSE Phase
  BY <1>1, <1>2, <1>4, <1>5, PhaseSet DEF SetState
<1>6. CASE EstablishWipe
  <2>1. Phase' = Phase /\ (Overlap \/ Phase # "connected") /\ rows' = {}
    BY <1>2, <1>4, <1>6, PhaseSame DEF EstablishWipe, mem
  <2>2. Service!Wipe
    BY <1>2, <1>3, <2>1 DEF Service!Wipe, Service!Promised
  <2> QED BY <2>2 DEF Serves, Service!ServiceNext
<1>7. CASE EstablishUpsert
  <2>1. UNCHANGED <<st, rows>>
    BY <1>7 DEF EstablishUpsert, mem
  <2> QED BY <1>2, <1>3, <2>1, PhaseSame, ServeNothing
<1>8. CASE Establish
  <2>1. MayStore
    BY <1>8 DEF Establish
  <2>2. CASE st' = st
    BY <1>2, <1>3, <2>1, <2>2, PhaseSame, ServeReceive
  <2>3. CASE Fail("error", ret)
    <3>1. Phase' = IF cur = logins THEN "error" ELSE Phase
      BY <1>5, <2>3 DEF Fail
    <3>2. cur = logins => Overlap \/ Phase \notin {"error", "logged_out"}
      BY <1>4, <1>8 DEF Establish
    <3> QED BY <1>2, <1>3, <1>4, <2>1, <3>1, <3>2, ServeFail, ServeReceive
  <2> QED BY <1>8, <2>2, <2>3 DEF Establish
<1>9. CASE MarkConnected
  <2>1. Phase' = IF cur = logins THEN "connected" ELSE Phase
    BY <1>5, <1>9 DEF MarkConnected
  <2>2. /\ rows' = rows
        /\ Overlap \/ (rows \subseteq {jar} /\ st[cur] \in {"connecting", "needs_user"})
    BY <1>9 DEF MarkConnected, disk, MarkInv, Near, SInv, RInv, IInv, CoreInv, AccountInv
  <2> QED BY <1>2, <1>3, <1>4, <2>1, <2>2, ServeEstablished, ServeNothing
<1> QED BY <1>6, <1>7, <1>8, <1>9 DEF DoEstablish

\* A sync stores, expires or fails.
LEMMA ServeSyncNow ==
  ASSUME SInv, SyncNow PROVE Serves
<1> USE DEF At
<1>1. TypeOK
  BY DEF SInv, TypeInv
<1>2. /\ Handling /\ wpc \notin Logging
      /\ wpc' \notin Logging
      /\ UNCHANGED <<logins, q, jar>> /\ MayStore
      /\ wpc \in {"first_sync", "sync"}
  BY RetType, <1>1 DEF TypeOK, SyncNow, SyncDone, SyncRefused, SyncFails, SyncNotDue, Syncing,
     AfterSync, Goto, SetState, Fail, Logging, Handling, Outside
<1>3. LogoutPending' = LogoutPending
  BY <1>2, PendingSame
<1>4. /\ cur \in Calls /\ (cur = logins => Phase = st[cur] /\ Phase \in States)
      /\ Overlap \/ st[cur] \in {"connecting", "connected"}
  BY <1>2, PhaseOther DEF SInv, RInv, IInv, CoreInv, WorkerInv
<1>5. ASSUME NEW s, NEW n, SetState(s, n) PROVE Phase' = IF cur = logins THEN s ELSE Phase
  BY <1>1, <1>2, <1>4, <1>5, PhaseSet DEF SetState
<1>6. CASE SyncDone \/ SyncNotDue
  <2>1. st' = st
    BY <1>6 DEF SyncDone, SyncNotDue, mem
  <2> QED BY <1>2, <1>3, <2>1, PhaseSame, ServeReceive
<1>7. CASE SyncRefused
  <2>1. Phase' = IF cur = logins THEN "needs_user" ELSE Phase
    BY <1>5, <1>7 DEF SyncRefused, Fail
  <2> QED BY <1>2, <1>3, <1>4, <2>1, ServeExpire, ServeReceive
<1>8. CASE SyncFails
  <2>1. Phase' = IF cur = logins THEN "error" ELSE Phase
    BY <1>5, <1>8 DEF SyncFails, Fail
  <2>2. Overlap \/ st[cur] \notin {"error", "logged_out"}
    BY <1>4
  <2> QED BY <1>2, <1>3, <1>4, <2>1, <2>2, ServeFail, ServeReceive
<1> QED BY <1>6, <1>7, <1>8 DEF SyncNow

\* A logout deletes the chats, then the session, then the login.
LEMMA ServeDoLogout ==
  ASSUME SInv, DoLogout PROVE Serves
<1> USE DEF At
<1>1. wpc \in Logging /\ LogoutPending
  BY DEF DoLogout, LogoutClose, LogoutDelete, LogoutWipe, LogoutRmtree, LogoutPop,
     Logging, LogoutPending
<1>2. CASE LogoutClose \/ LogoutDelete
  <2>1. UNCHANGED <<logins, st, q, jar, rows>> /\ wpc' \in Logging
    BY <1>2 DEF LogoutClose, LogoutDelete, Goto, Logging, Outside, disk, mem
  <2> QED BY <1>1, <2>1, PendingSame, PhaseSame, ServeNothing
<1>3. CASE LogoutWipe
  <2>1. /\ UNCHANGED <<logins, st, q, jar>> /\ wpc' \in Logging
        /\ rows' = {}
    BY <1>3 DEF LogoutWipe, Goto, Logging, Outside, mem
  <2>2. Service!ForgetChats
    BY <1>1, <2>1, PendingSame, PhaseSame DEF Service!ForgetChats
  <2> QED BY <2>2 DEF Serves, Service!ServiceNext
<1>4. CASE LogoutRmtree
  <2>1. /\ UNCHANGED <<logins, st, q, rows>> /\ wpc' \in Logging
        /\ jar' = NoAccount /\ (Overlap \/ rows = {})
    BY <1>4 DEF LogoutRmtree, Goto, Logging, mem, SInv, RInv, IInv, CoreInv, LogoutInv
  <2>2. Service!ForgetSession
    BY <1>1, <2>1, PendingSame, PhaseSame DEF Service!ForgetSession, Service!Promised
  <2> QED BY <2>2 DEF Serves, Service!ServiceNext
<1>5. CASE LogoutPop
  <2>1. /\ UNCHANGED <<jar, rows>> /\ (Overlap \/ (rows = {} /\ jar = NoAccount))
        /\ Phase' = "absent"
    BY <1>5 DEF LogoutPop, disk, SInv, RInv, IInv, CoreInv, LogoutInv, Phase
  <2>2. LogoutPending' \in BOOLEAN
    BY DEF LogoutPending
  <2>3. Service!Leave
    BY <1>1, <2>1, <2>2 DEF Service!Leave, Service!Promised
  <2> QED BY <2>3 DEF Serves, Service!ServiceNext
<1> QED BY <1>2, <1>3, <1>4, <1>5 DEF DoLogout

\* The loop shows nothing, but for a logout request that finds nobody.
LEMMA ServeLoop ==
  ASSUME SInv, Loop PROVE Serves
<1>1. TypeOK
  BY DEF SInv, TypeInv
<1>2. wpc \notin Logging /\ UNCHANGED <<logins, st, jar, rows>>
  BY DEF Loop, TakeOpen, TakeLogout, TakeClose, TakeNothing, ExitLoop, Tick, TickNotDue,
         WriteRow, Take, At, Logging, Outside, mem, disk
<1>3. Phase' = Phase
  BY <1>2, PhaseSame
<1>4. CASE TakeOpen \/ TakeClose
  <2>1. /\ q # <<>> /\ q' = Tail(q) /\ Head(q).cmd # "logout"
        /\ wpc' \notin Logging
    BY <1>4 DEF TakeOpen, TakeClose, Take, Logging
  <2> QED BY <1>1, <1>2, <1>3, <2>1, PendingTail, ServeNothing
<1>5. CASE TakeLogout
  <2>1. LogoutPending
    <3>1. 1 \in 1..Len(q) /\ q[1].cmd = "logout"
      BY <1>1, <1>5 DEF TakeLogout, Take, TypeOK
    <3> QED BY <3>1 DEF LogoutPending
  <2>2. CASE logins = NoLogin
    <3>1. Phase = "absent"
      BY <2>2 DEF Phase
    <3>2. LogoutPending' \in BOOLEAN
      BY DEF LogoutPending
    <3>3. Service!NobodyToLeave
      BY <1>2, <1>3, <3>1, <3>2 DEF Service!NobodyToLeave
    <3> QED BY <3>3 DEF Serves, Service!ServiceNext
  <2>3. CASE logins # NoLogin
    <3>1. wpc' \in Logging
      BY <1>5, <2>3 DEF TakeLogout, Logging
    <3>2. LogoutPending'
      BY <3>1 DEF LogoutPending
    <3> QED BY <1>2, <1>3, <2>1, <3>2, ServeNothing
  <2> QED BY <2>2, <2>3
<1>6. CASE TakeNothing \/ ExitLoop \/ Tick \/ TickNotDue
  <2>1. q' = q /\ wpc' \notin Logging
    BY <1>6 DEF TakeNothing, ExitLoop, Tick, TickNotDue, Goto, Outside, Logging
  <2> QED BY <1>2, <1>3, <2>1, PendingSame, ServeNothing
<1>7. CASE WriteRow
  <2>1. q' = q /\ wpc' \notin Logging
    BY <1>7 DEF WriteRow, At, Outside, SInv, HandledInv
  <2> QED BY <1>2, <1>3, <2>1, PendingSame, ServeNothing
<1> QED BY <1>4, <1>5, <1>6, <1>7 DEF Loop

\* Of the calls, a registered login and a logout request show.
LEMMA ServeClient ==
  ASSUME SInv, (\E c \in Calls : Connect(c)) \/ Logout \/ Shutdown
  PROVE  Serves
<1>1. TypeOK
  BY DEF SInv, TypeInv
<1>2. UNCHANGED <<st, jar, rows, wpc>>
  BY DEF Connect, ConnectCheck, ConnectRegister, ConnectUpsert, ConnectClose, ConnectOpen,
         Logout, Shutdown, mem, worker, disk
<1>3. ASSUME NEW c \in Calls, ConnectRegister(c) PROVE Serves
  <2>1. Phase' = "opening_browser" /\ q' = q
    BY <1>3, CallsAssumption DEF ConnectRegister, CallStep, Phase, mem, SInv, HandledInv
  <2>2. (Overlap \/ ~LogoutPending) /\ LogoutPending' = LogoutPending
    BY <1>2, <1>3, <2>1, PendingSame
       DEF ConnectRegister, CallStep, SInv, RInv, IInv, CoreInv, CallInv, InFlight
  <2>3. Service!Connect
    BY <1>2, <2>1, <2>2 DEF Service!Connect, Service!Promised
  <2> QED BY <2>3 DEF Serves, Service!ServiceNext
<1>4. ASSUME NEW x \in Commands, x.cmd # "logout", q' = Append(q, x), logins' = logins
      PROVE  Serves
  BY <1>1, <1>2, <1>4, PendingAppend, PhaseSame, ServeNothing
<1>5. ASSUME NEW c \in Calls, Connect(c) PROVE Serves
  <2>1. CASE ConnectCheck(c) \/ ConnectUpsert(c)
    <3>1. UNCHANGED <<logins, q>>
      BY <2>1 DEF ConnectCheck, ConnectUpsert
    <3> QED BY <1>2, <3>1, PendingSame, PhaseSame, ServeNothing
  <2>2. CASE ConnectClose(c)
    <3>1. /\ Command("close", old[c]) \in Commands
          /\ Command("close", old[c]).cmd # "logout"
      BY <1>1, <2>2 DEF ConnectClose, CallStep, Command, Commands, SInv, TypeInv
    <3> QED BY <1>4, <2>2, <3>1 DEF ConnectClose
  <2>3. CASE ConnectOpen(c)
    <3>1. /\ Command("open", NoLogin) \in Commands
          /\ Command("open", NoLogin).cmd # "logout"
      BY DEF Command, Commands
    <3> QED BY <1>4, <2>3, <3>1 DEF ConnectOpen
  <2> QED BY <1>3, <1>5, <2>1, <2>2, <2>3 DEF Connect
<1>6. CASE Logout
  <2>1. /\ Command("logout", NoLogin) \in Commands
        /\ Command("logout", NoLogin).cmd = "logout"
    BY DEF Command, Commands
  <2>2. LogoutPending' = TRUE
    BY <1>1, <1>2, <1>6, <2>1, PendingAppend DEF Logout
  <2>3. Phase' = Phase
    BY <1>2, <1>6, PhaseSame DEF Logout
  <2>4. Service!AskLogout
    BY <1>2, <2>2, <2>3 DEF Service!AskLogout
  <2> QED BY <2>4 DEF Serves, Service!ServiceNext
<1>7. CASE Shutdown
  <2>1. /\ Command("stop", NoLogin) \in Commands
        /\ Command("stop", NoLogin).cmd # "logout"
    BY DEF Command, Commands
  <2> QED BY <1>4, <1>7, <2>1 DEF Shutdown
<1> QED BY <1>5, <1>6, <1>7

\* Nobody can log in while the login is connected.
LEMMA ServeEnvironment ==
  ASSUME SInv, Environment PROVE Serves
<1>1. CASE UserLogsIn
  <2>1. UNCHANGED <<logins, st, q, wpc, rows>> /\ jar' \in Accounts
    BY <1>1 DEF UserLogsIn, mem, worker
  <2>2. Overlap \/ Phase # "connected"
    <3>1. SUFFICES ASSUME IInv, ~Overlap, logins # NoLogin, st[logins] = "connected"
                   PROVE  FALSE
      BY DEF Phase, SInv, RInv
    <3>2. PICK l \in Calls : ~prov[l] /\ ctx[l] # "none"
      <4>1. PICK l \in Calls : (ctx[l] = "window" /\ ~shut[l]) \/ QrShown(l)
        BY <1>1, <3>1 DEF UserLogsIn, IInv, CoreInv, BrowserInv, EveryBrowserOwned, TypeOK
      <4> QED BY <3>1, <4>1 DEF QrShown, IInv, CoreInv, BackedInv
    <3>3. wpc \notin (Logging \ {"lo_close"}) \cup {"exit"}
      BY <3>1, <3>2 DEF IInv, CoreInv, LogoutInv, BackedInv
    <3>4. prov[logins] /\ ctx[logins] = "headless" /\ logins \in Calls
      BY <3>1, <3>3 DEF IInv, TypeOK, CoreInv, BackedInv, Backed
    <3> QED BY <3>1, <3>2, <3>4 DEF IInv, CoreInv, BrowserInv
  <2>3. Service!UserLogsIn
    BY <2>1, <2>2, PendingSame, PhaseSame DEF Service!UserLogsIn, Service!Promised
  <2> QED BY <2>3 DEF Serves, Service!ServiceNext
<1>2. CASE UserClosesWindow \/ SessionExpires
  <2>1. UNCHANGED <<logins, st, q, wpc, jar, rows>>
    BY <1>2 DEF UserClosesWindow, SessionExpires, mem, worker, disk, Outside
  <2> QED BY <2>1, PendingSame, PhaseSame, ServeNothing
<1>3. CASE Restart
  <2>1. UNCHANGED <<jar, rows>> /\ Phase' = "absent"
    BY <1>3 DEF Restart, disk, Phase
  <2>2. LogoutPending' = FALSE
    BY <1>3 DEF Restart, LogoutPending, Logging
  <2>3. Service!ServiceRestart
    BY <2>1, <2>2 DEF Service!ServiceRestart
  <2> QED BY <2>3 DEF Serves, Service!ServiceNext
<1> QED BY <1>1, <1>2, <1>3 DEF Environment

-----------------------------------------------------------------------------
\* Only a first sync is followed by the mark, and it leaves the login connecting
\* or, when it was refused, in needs_user.
LEMMA MarkNext == RInv /\ [Next]_vars => MarkInv'
<1> SUFFICES ASSUME IInv, MarkInv, [Next]_vars PROVE MarkInv'
  BY DEF RInv
<1> USE DEF At, Near
<1>1. TypeOK /\ WorkerInv
  BY DEF IInv, CoreInv
<1>2. CASE (\E c \in Calls : Connect(c)) \/ Logout \/ Shutdown \/ UNCHANGED vars
  <2>1. UNCHANGED <<st, wpc, cur, pend>>
    BY <1>2 DEF Connect, ConnectCheck, ConnectRegister, ConnectUpsert, ConnectClose,
       ConnectOpen, Logout, Shutdown, vars, mem, worker
  <2> QED BY <2>1 DEF MarkInv
<1>3. CASE Environment
  BY <1>3 DEF Environment, UserLogsIn, UserClosesWindow, SessionExpires, Restart, mem,
     worker, MarkInv, NoPend
<1>4. CASE Loop
  <2>1. CASE WriteRow
    BY <2>1 DEF WriteRow, mem, MarkInv, NoPend
  <2>2. CASE ~WriteRow
    <3>1. st' = st /\ wpc' \notin {"mark", "row"}
      BY <1>4, <2>2 DEF Loop, TakeOpen, TakeLogout, TakeClose, TakeNothing, ExitLoop, Tick,
         TickNotDue, Goto, mem
    <3> QED BY <3>1 DEF MarkInv
  <2> QED BY <2>1, <2>2
<1>5. CASE DoOpen
  BY <1>1, <1>5 DEF TypeOK, DoOpen, Launch, LaunchFails, ProbeSession, ProbeQr, ProbePassword,
     ProbeFails, OpenWindow, OpenWindowFails, Goto, SetState, Fail, MarkInv
<1>6. CASE CheckLogin
  BY <1>1, <1>6 DEF TypeOK, CheckLogin, CheckClosed, CheckNotYet, CheckGivesUp, CheckLoggedIn,
     CheckFails, Takeover, TakeoverFails, Goto, SetState, Fail, MarkInv
<1>7. CASE DoEstablish
  BY <1>1, <1>7 DEF TypeOK, DoEstablish, EstablishWipe, EstablishUpsert, Establish,
     MarkConnected, Goto, SetState, Fail, MarkInv
<1>8. CASE SyncNow
  <2>1. cur \in Calls /\ (wpc = "first_sync" => st[cur] = "connecting")
    BY <1>1, <1>8 DEF SyncNow, SyncDone, SyncRefused, SyncFails, SyncNotDue, Syncing,
       WorkerInv, Handling
  <2> QED BY <1>1, <1>8, <2>1 DEF TypeOK, SyncNow, SyncDone, SyncRefused, SyncFails,
         SyncNotDue, Syncing, AfterSync, Goto, SetState, Fail, mem, MarkInv
<1>9. CASE DoLogout
  BY <1>1, <1>9 DEF TypeOK, DoLogout, LogoutClose, LogoutDelete, LogoutWipe, LogoutRmtree,
     LogoutPop, Goto, MarkInv
<1> QED BY <1>2, <1>3, <1>4, <1>5, <1>6, <1>7, <1>8, <1>9 DEF Next, Worker

\* Nobody touches a login before the dict holds it, and the worker takes its
\* logins from there.
LEMMA HandledNext == TypeInv /\ HandledInv /\ [Next]_vars => HandledInv'
<1> SUFFICES ASSUME TypeOK, HandledInv, [Next]_vars PROVE HandledInv'
  BY DEF TypeInv
<1> USE DEF At, Logging, Handling
<1>1. CASE UNCHANGED vars
  BY <1>1 DEF vars, mem, worker, client, HandledInv
<1>2. ASSUME NEW c \in Calls, Connect(c) PROVE HandledInv'
  <2>1. UNCHANGED <<st, wpc, cur, pend>>
    BY <1>2 DEF Connect, ConnectCheck, ConnectRegister, ConnectUpsert, ConnectClose,
       ConnectOpen, mem, worker
  <2>2. /\ \A d \in Calls : cpc'[d] \in {"idle", "register"} => cpc[d] \in {"idle", "register"}
        /\ logins' = logins \/ (logins' = c /\ cpc'[c] = "upsert")
    BY <1>2 DEF TypeOK, Connect, ConnectCheck, ConnectRegister, ConnectUpsert, ConnectClose,
       ConnectOpen, CallStep
  <2> QED BY <2>1, <2>2 DEF HandledInv
<1>3. CASE Logout \/ Shutdown \/ UserLogsIn \/ UserClosesWindow \/ SessionExpires
  BY <1>3 DEF Logout, Shutdown, UserLogsIn, UserClosesWindow, SessionExpires, mem, worker,
     client, Outside, HandledInv
<1>4. CASE Restart
  BY <1>4, CallsAssumption DEF TypeOK, Restart, NoPend, HandledInv
<1>5. CASE Loop
  <2>1. UNCHANGED <<logins, st, cpc>>
    BY <1>5 DEF Loop, TakeOpen, TakeLogout, TakeClose, TakeNothing, ExitLoop, Tick,
       TickNotDue, WriteRow, mem, client, Outside
  <2>2. CASE TakeOpen \/ TakeLogout \/ Tick
    BY <2>1, <2>2 DEF TypeOK, TakeOpen, TakeLogout, Tick, HandledInv
  <2>3. CASE TakeClose \/ TakeNothing \/ ExitLoop \/ TickNotDue
    BY <2>1, <2>3 DEF TakeClose, TakeNothing, ExitLoop, TickNotDue, Goto, HandledInv
  <2>4. CASE WriteRow
    BY <2>1, <2>4 DEF WriteRow, NoPend, HandledInv
  <2> QED BY <1>5, <2>2, <2>3, <2>4 DEF Loop
<1>6. CASE DoOpen \/ CheckLogin \/ DoEstablish \/ SyncNow \/ DoLogout
  <2>1. /\ Handling /\ cur' = cur /\ cpc' = cpc
        /\ logins' \in {logins, NoLogin}
        /\ pend' = pend \/ pend'.next \notin Logging
        /\ \A c \in Calls : c # cur => st'[c] = st[c]
    <3>1. CASE DoOpen
      BY <3>1 DEF TypeOK, DoOpen, Launch, LaunchFails, ProbeSession, ProbeQr, ProbePassword,
         ProbeFails, OpenWindow, OpenWindowFails, Goto, SetState, Fail, mem, client, Outside
    <3>2. CASE CheckLogin
      BY <3>2 DEF TypeOK, CheckLogin, CheckClosed, CheckNotYet, CheckGivesUp, CheckLoggedIn,
         CheckFails, Takeover, TakeoverFails, Goto, SetState, Fail, mem, client, Outside
    <3>3. CASE DoEstablish
      BY <3>3 DEF TypeOK, DoEstablish, EstablishWipe, EstablishUpsert, Establish,
         MarkConnected, Goto, SetState, Fail, mem, client, Outside
    <3>4. CASE SyncNow
      BY <3>4 DEF TypeOK, SyncNow, SyncDone, SyncRefused, SyncFails, SyncNotDue, Syncing,
         AfterSync, Goto, SetState, Fail, mem, client, Outside
    <3>5. CASE DoLogout
      BY <3>5 DEF TypeOK, DoLogout, LogoutClose, LogoutDelete, LogoutWipe, LogoutRmtree,
         LogoutPop, Goto, mem, client, Outside
    <3> QED BY <1>6, <3>1, <3>2, <3>3, <3>4, <3>5
  <2> QED BY <2>1, CallsAssumption DEF HandledInv
<1> QED BY <1>1, <1>2, <1>3, <1>4, <1>5, <1>6 DEF Next, Worker, Environment

\* What the refinement needs holds in every state.
THEOREM RefinementInvariant == Spec => []SInv
<1>1. Init => SInv
  <2> SUFFICES ASSUME Init PROVE SInv
    OBVIOUS
  <2>1. TypeInv /\ IInv
    BY TypeInit, InvInit
  <2>2. MarkInv /\ HandledInv
    BY CallsAssumption DEF Init, MarkInv, Near, HandledInv, Handling, NoPend, Logging
  <2> QED BY <2>1, <2>2 DEF SInv, RInv
<1>2. SInv /\ [Next]_vars => SInv'
  <2>1. CASE Overlap
    BY <2>1, TypeNext, HandledNext DEF SInv
  <2>2. CASE ~Overlap
    BY <2>2, TypeNext, HandledNext, InvNext, MarkNext DEF SInv, RInv
  <2> QED BY <2>1, <2>2
<1> QED BY <1>1, <1>2, PTL DEF Spec

\* What bridge/live.py promises its clients: whatever they, the threads, the
\* user, TikTok and crashes do, the login behaves as LoginService says, and to
\* one that waits for its calls as LoginService says it does then.
THEOREM BridgeImplementsService == Spec => ImplementsService
<1>1. Init => Service!ServiceInit
  BY DEF Init, Service!ServiceInit, Phase, LogoutPending, Logging
<1>2. SInv /\ [Next]_vars => [Service!ServiceNext]_(Service!service)
  <2> SUFFICES ASSUME SInv, [Next]_vars PROVE Serves
    BY DEF Serves
  <2>1. CASE UNCHANGED vars
    <3>1. UNCHANGED <<logins, st, q, wpc, jar, rows>>
      BY <2>1 DEF vars, mem, worker, disk
    <3> QED BY <3>1, PendingSame, PhaseSame, ServeNothing
  <2> QED BY <2>1, ServeLoop, ServeDoOpen, ServeCheckLogin, ServeDoEstablish,
             ServeSyncNow, ServeDoLogout, ServeClient, ServeEnvironment DEF Next, Worker
<1> QED BY <1>1, <1>2, RefinementInvariant, PTL
        DEF Spec, ImplementsService, Service!ServiceSpec

\* Those who know LoginService only may rely on it: of a client that waits, a
\* connected login shows chats of the account that is logged in.
THEOREM ServiceShowsOneAccount == Service!ServiceSpec => []Service!ShowsOneAccount
<1> USE DEF Service!ShowsOneAccount
<1>1. Service!ServiceInit => Service!ShowsOneAccount
  BY DEF Service!ServiceInit
<1>2. Service!ShowsOneAccount /\ [Service!ServiceNext]_(Service!service)
        => Service!ShowsOneAccount'
  BY DEF Service!ServiceNext, Service!service, Service!Connect, Service!AskUser,
     Service!UserLogsIn, Service!SessionFound, Service!GiveUp, Service!Wipe,
     Service!Receive, Service!Established, Service!Expire, Service!Fail,
     Service!AskLogout, Service!ForgetChats, Service!ForgetSession, Service!Leave,
     Service!NobodyToLeave, Service!ServiceRestart, Service!Move, Service!Promised,
     Service!MayReceive
<1> QED BY <1>1, <1>2, PTL DEF Service!ServiceSpec

\* So does the bridge, as an implementation of the service.
THEOREM BridgeShowsOneAccount == Spec => []Service!ShowsOneAccount
  BY BridgeImplementsService, ServiceShowsOneAccount DEF ImplementsService
=============================================================================
