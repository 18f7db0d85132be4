-------------------------- MODULE LiveBridgeProofs --------------------------
(***************************************************************************)
(* TLAPS proofs about LiveBridge.  For every client and environment: its   *)
(* types.  For a client that waits for its calls to take effect            *)
(* (~Overlap): IInv of LiveBridgeInv is an invariant, and the safety       *)
(* properties of LiveBridge follow from it.  One lemma per group of        *)
(* actions, one step per action, one step below it per conjunct.           *)
(***************************************************************************)
EXTENDS LiveBridgeInv, FiniteSetTheorems, TLAPS

-----------------------------------------------------------------------------
(* Types.  First the state helpers, then one step per action.              *)

\* Goto leaves the worker's local variables alone.
LEMMA GotoType ==
  ASSUME TypeOK, NEW p \in WorkerLabels, Goto(p)
  PROVE  wpc' \in WorkerLabels /\ cur' = cur /\ ret' = ret /\ pend' = pend
  BY DEF Goto

\* _set_state keeps the types of the states and of the pending row update.
LEMMA SetStateType ==
  ASSUME TypeOK, NEW s \in States, NEW p \in WorkerLabels, SetState(s, p)
  PROVE  /\ wpc' \in WorkerLabels /\ cur' = cur /\ ret' = ret
         /\ st' \in [Calls -> States]
         /\ pend' \in [row : States \cup {NoRow}, next : WorkerLabels]
  BY DEF TypeOK, SetState, WorkerLabels

\* So does _fail, which clears authenticated first.
LEMMA FailType ==
  ASSUME TypeOK, NEW s \in States, NEW p \in WorkerLabels, Fail(s, p)
  PROVE  SetState(s, p) /\ auth' \in [Calls -> BOOLEAN]
  BY DEF TypeOK, Fail

\* TypeOK in four parts.
WorkerType == /\ wpc \in WorkerLabels /\ cur \in Calls \cup {NoLogin}
              /\ ret \in {"get", "tick"}
              /\ pend \in [row : States \cup {NoRow}, next : WorkerLabels]
MemType == /\ st \in [Calls -> States]
           /\ auth \in [Calls -> BOOLEAN] /\ prov \in [Calls -> BOOLEAN]
           /\ ctx \in [Calls -> Modes] /\ shut \in [Calls -> BOOLEAN]
           /\ orphans \in Nat
DiskType == /\ row \in States \cup {NoRow} /\ rows \subseteq Accounts
            /\ sealed \in BOOLEAN /\ jar \in Accounts \cup {NoAccount}
ClientType == /\ logins \in Calls \cup {NoLogin} /\ q \in Seq(Commands)
              /\ stop \in BOOLEAN /\ valid \in BOOLEAN
              /\ nlogout \in Nat /\ nrestart \in Nat
              /\ cpc \in [Calls -> CallLabels]
              /\ old \in [Calls -> Calls \cup {NoLogin}]

\* The types of what a browser operation changes.
BrowserType == ctx' \in [Calls -> Modes] /\ shut' \in [Calls -> BOOLEAN] /\ orphans' \in Nat

\* Launching and swapping browsers keeps the types.
LEMMA OpenType ==
  ASSUME TypeOK, NEW m \in Modes, OpenContext(m) \/ Relaunch(m) \/ RelaunchFails(m)
  PROVE  BrowserType
<1> USE DEF TypeOK, BrowserType
<1>1. CASE OpenContext(m)
  <2>1. ctx' \in [Calls -> Modes] /\ shut' \in [Calls -> BOOLEAN]
    BY <1>1 DEF OpenContext
  <2>2. orphans' \in Nat
    BY <1>1 DEF OpenContext
  <2> QED BY <2>1, <2>2
<1>2. CASE Relaunch(m)
  BY ZenonT(30), <1>2 DEF Relaunch
<1>3. CASE RelaunchFails(m)
  BY <1>3 DEF RelaunchFails, CloseContext, Modes
<1> QED BY <1>1, <1>2, <1>3

\* Closing one does, too.
LEMMA CloseType ==
  ASSUME TypeOK, NEW l, CloseContext(l)
  PROVE  BrowserType
  BY DEF TypeOK, BrowserType, CloseContext, Modes

\* Where a handler returns to is a label.
LEMMA RetType == TypeOK => ret \in WorkerLabels /\ AfterSync \in WorkerLabels
  BY DEF TypeOK, WorkerLabels, AfterSync

\* The worker's loop keeps every type.
LEMMA TypeLoop ==
  ASSUME TypeOK, Loop
  PROVE  TypeOK'
<1> USE RetType DEF TypeOK, Outside, mem, client, disk, worker
<1>1. CASE TakeOpen
  BY <1>1 DEF TakeOpen, At, Take, WorkerLabels
<1>2. CASE TakeLogout
  BY <1>2 DEF TakeLogout, At, Take, WorkerLabels
<1>3. CASE TakeClose
  <2>1. WorkerType'
    BY <1>3 DEF TakeClose, WorkerType, WorkerLabels
  <2>2. MemType'
    BY <1>3, CloseType DEF TakeClose, MemType, BrowserType
  <2>3. DiskType'
    BY <1>3 DEF TakeClose, DiskType
  <2>4. ClientType'
    BY <1>3 DEF TakeClose, Take, ClientType
  <2> QED BY <2>1, <2>2, <2>3, <2>4 DEF WorkerType, MemType, DiskType, ClientType
<1>4. CASE TakeNothing
  BY <1>4, GotoType DEF TakeNothing, At, WorkerLabels
<1>5. CASE ExitLoop
  <2>1. WorkerType'
    BY <1>5, GotoType DEF ExitLoop, WorkerType, WorkerLabels
  <2>2. MemType'
    BY <1>5 DEF ExitLoop, MemType, Modes
  <2>3. DiskType'
    BY <1>5 DEF ExitLoop, DiskType
  <2>4. ClientType'
    BY <1>5 DEF ExitLoop, ClientType
  <2> QED BY <2>1, <2>2, <2>3, <2>4 DEF WorkerType, MemType, DiskType, ClientType
<1>6. CASE Tick
  BY <1>6 DEF Tick, At, WorkerLabels
<1>7. CASE TickNotDue
  BY <1>7, GotoType DEF TickNotDue, At, WorkerLabels
<1>8. CASE WriteRow
  <2>1. WorkerType'
    BY <1>8 DEF WriteRow, WorkerType, NoPend, WorkerLabels
  <2>2. MemType'
    BY <1>8 DEF WriteRow, MemType
  <2>3. DiskType'
    BY <1>8 DEF WriteRow, DiskType
  <2>4. ClientType'
    BY <1>8 DEF WriteRow, ClientType
  <2> QED BY <2>1, <2>2, <2>3, <2>4 DEF WorkerType, MemType, DiskType, ClientType
<1> QED BY <1>1, <1>2, <1>3, <1>4, <1>5, <1>6, <1>7, <1>8 DEF Loop

\* _do_open keeps every type.
LEMMA TypeDoOpen ==
  ASSUME TypeOK, DoOpen
  PROVE  TypeOK'
<1> USE RetType DEF TypeOK, Outside, mem, client, disk, worker
<1>1. CASE Launch
  BY <1>1, GotoType, OpenType DEF Launch, At, BrowserType, Modes, WorkerLabels
<1>2. CASE LaunchFails
  BY SMTT(30), <1>2, FailType, SetStateType DEF LaunchFails, At, States, WorkerLabels
<1>3. CASE ProbeSession
  BY SMTT(30), <1>3, SetStateType DEF ProbeSession, At, States, WorkerLabels
<1>4. CASE ProbeQr
  BY SMTT(30), <1>4, SetStateType DEF ProbeQr, At, States, Redirected, WorkerLabels
<1>5. CASE ProbePassword
  BY <1>5, GotoType DEF ProbePassword, At, Redirected, WorkerLabels
<1>6. CASE ProbeFails
  BY SMTT(30), <1>6, FailType, SetStateType DEF ProbeFails, At, States, WorkerLabels
<1>7. CASE OpenWindow
  BY SMTT(30), <1>7, SetStateType, OpenType DEF OpenWindow, At, States, BrowserType, Modes, LoginMode, WorkerLabels
<1>8. CASE OpenWindowFails
  BY SMTT(30), <1>8, FailType, SetStateType, OpenType DEF OpenWindowFails, At, States, BrowserType, Modes, LoginMode, WorkerLabels
<1> QED BY <1>1, <1>2, <1>3, <1>4, <1>5, <1>6, <1>7, <1>8 DEF DoOpen

\* _check_login keeps every type.
LEMMA TypeCheckLogin ==
  ASSUME TypeOK, CheckLogin
  PROVE  TypeOK'
<1> USE RetType DEF TypeOK, Outside, mem, client, disk, worker
<1>1. CASE CheckClosed
  <2>1. WorkerType'
    BY <1>1, GotoType, FailType, SetStateType DEF CheckClosed, WorkerType, States
  <2>2. MemType'
    BY <1>1, FailType, SetStateType, CloseType DEF CheckClosed, MemType, BrowserType, States
  <2>3. DiskType'
    BY <1>1 DEF CheckClosed, DiskType
  <2>4. ClientType'
    BY <1>1 DEF CheckClosed, ClientType
  <2> QED BY <2>1, <2>2, <2>3, <2>4 DEF WorkerType, MemType, DiskType, ClientType
<1>2. CASE CheckNotYet
  BY <1>2, GotoType DEF CheckNotYet, At, WorkerLabels
<1>3. CASE CheckGivesUp
  BY SMTT(30), <1>3, FailType, SetStateType DEF CheckGivesUp, At, States, WorkerLabels
<1>4. CASE CheckLoggedIn
  BY SMTT(30), <1>4, SetStateType DEF CheckLoggedIn, At, States, WorkerLabels
<1>5. CASE CheckFails
  BY SMTT(30), <1>5, FailType, SetStateType DEF CheckFails, At, States, WorkerLabels
<1>6. CASE Takeover
  BY <1>6, GotoType, OpenType DEF Takeover, At, BrowserType, Modes, WorkerLabels
<1>7. CASE TakeoverFails
  BY SMTT(30), <1>7, FailType, SetStateType, OpenType DEF TakeoverFails, At, States, BrowserType, Modes, WorkerLabels
<1> QED BY <1>1, <1>2, <1>3, <1>4, <1>5, <1>6, <1>7 DEF CheckLogin

\* _establish keeps every type.
LEMMA TypeDoEstablish ==
  ASSUME TypeOK, DoEstablish
  PROVE  TypeOK'
<1> USE RetType DEF TypeOK, Outside, mem, client, disk, worker
<1>1. CASE EstablishWipe
  BY <1>1, GotoType DEF EstablishWipe, At, WorkerLabels
<1>2. CASE EstablishUpsert
  <2>1. WorkerType'
    BY <1>2, GotoType DEF EstablishUpsert, WorkerType, WorkerLabels
  <2>2. MemType'
    BY <1>2 DEF EstablishUpsert, MemType
  <2>3. DiskType'
    BY <1>2 DEF EstablishUpsert, DiskType, States
  <2>4. ClientType'
    BY <1>2 DEF EstablishUpsert, ClientType
  <2> QED BY <2>1, <2>2, <2>3, <2>4 DEF WorkerType, MemType, DiskType, ClientType
<1>3. CASE Establish
  <2>1. WorkerType'
    BY SMTT(30), <1>3, GotoType, FailType, SetStateType DEF Establish, WorkerType, States, WorkerLabels
  <2>2. MemType'
    BY <1>3, FailType, SetStateType DEF Establish, MemType, States
  <2>3. DiskType'
    BY <1>3 DEF Establish, DiskType, MayStore
  <2>4. ClientType'
    BY <1>3 DEF Establish, ClientType
  <2> QED BY <2>1, <2>2, <2>3, <2>4 DEF WorkerType, MemType, DiskType, ClientType
<1>4. CASE MarkConnected
  <2>1. WorkerType'
    BY <1>4, SetStateType DEF MarkConnected, WorkerType, States
  <2>2. MemType'
    BY <1>4, SetStateType DEF MarkConnected, MemType, States
  <2>3. DiskType'
    BY <1>4 DEF MarkConnected, DiskType
  <2>4. ClientType'
    BY <1>4 DEF MarkConnected, ClientType
  <2> QED BY <2>1, <2>2, <2>3, <2>4 DEF WorkerType, MemType, DiskType, ClientType
<1> QED BY <1>1, <1>2, <1>3, <1>4 DEF DoEstablish

\* _sync_now keeps every type.
LEMMA TypeSyncNow ==
  ASSUME TypeOK, SyncNow
  PROVE  TypeOK'
<1> USE RetType DEF TypeOK, Outside, mem, client, disk, worker
<1>1. CASE SyncDone
  <2>1. WorkerType'
    BY <1>1, GotoType DEF SyncDone, WorkerType
  <2>2. MemType'
    BY <1>1 DEF SyncDone, MemType
  <2>3. DiskType'
    BY <1>1 DEF SyncDone, DiskType, MayStore, States
  <2>4. ClientType'
    BY <1>1 DEF SyncDone, ClientType
  <2> QED BY <2>1, <2>2, <2>3, <2>4 DEF WorkerType, MemType, DiskType, ClientType
<1>2. CASE SyncRefused
  BY SMTT(30), <1>2, FailType, SetStateType DEF SyncRefused, At, States, MayStore, Syncing, WorkerLabels
<1>3. CASE SyncFails
  BY SMTT(30), <1>3, FailType, SetStateType DEF SyncFails, At, States, MayStore, Syncing, WorkerLabels
<1>4. CASE SyncNotDue
  BY <1>4, GotoType DEF SyncNotDue, At, MayStore, WorkerLabels
<1> QED BY <1>1, <1>2, <1>3, <1>4 DEF SyncNow

\* _do_logout keeps every type.
LEMMA TypeDoLogout ==
  ASSUME TypeOK, DoLogout
  PROVE  TypeOK'
<1> USE RetType DEF TypeOK, Outside, mem, client, disk, worker
<1>1. CASE LogoutClose
  BY <1>1, GotoType, CloseType DEF LogoutClose, At, BrowserType, WorkerLabels
<1>2. CASE LogoutDelete
  BY <1>2, GotoType DEF LogoutDelete, At, WorkerLabels
<1>3. CASE LogoutWipe
  BY <1>3, GotoType DEF LogoutWipe, At, WorkerLabels
<1>4. CASE LogoutRmtree
  BY <1>4, GotoType DEF LogoutRmtree, At, WorkerLabels
<1>5. CASE LogoutPop
  <2>1. WorkerType'
    BY <1>5, GotoType DEF LogoutPop, WorkerType
  <2>2. MemType'
    BY <1>5 DEF LogoutPop, MemType, States
  <2>3. DiskType'
    BY <1>5 DEF LogoutPop, DiskType
  <2>4. ClientType'
    BY <1>5 DEF LogoutPop, ClientType
  <2> QED BY <2>1, <2>2, <2>3, <2>4 DEF WorkerType, MemType, DiskType, ClientType
<1> QED BY <1>1, <1>2, <1>3, <1>4, <1>5 DEF DoLogout


\* Every step of the worker keeps every type.
LEMMA TypeWorker ==
  ASSUME TypeOK, Worker
  PROVE  TypeOK'
  BY TypeLoop, TypeDoOpen, TypeCheckLogin, TypeDoEstablish, TypeSyncNow,
     TypeDoLogout DEF Worker

\* connect() keeps every type.
LEMMA TypeConnect ==
  ASSUME TypeInv, NEW c \in Calls, Connect(c)
  PROVE  TypeOK'
<1> USE DEF TypeInv, TypeOK, mem, worker, disk, CallStep, CallLabels
<1>1. CASE ConnectCheck(c)
  BY <1>1 DEF ConnectCheck
<1>2. CASE ConnectRegister(c)
  BY <1>2 DEF ConnectRegister
<1>3. CASE ConnectUpsert(c)
  <2>1. row' \in States \cup {NoRow}
    BY <1>3 DEF ConnectUpsert, States
  <2> QED BY <2>1, <1>3 DEF ConnectUpsert
<1>4. CASE ConnectClose(c)
  <2>1. Command("close", old[c]) \in Commands
    BY <1>4 DEF ConnectClose, Command, Commands
  <2>2. q' \in Seq(Commands)
    BY <1>4, <2>1 DEF ConnectClose
  <2> QED BY <2>2, <1>4 DEF ConnectClose
<1>5. CASE ConnectOpen(c)
  <2>1. Command("open", NoLogin) \in Commands
    BY DEF Command, Commands
  <2>2. q' \in Seq(Commands)
    BY <1>5, <2>1 DEF ConnectOpen
  <2> QED BY <2>2, <1>5 DEF ConnectOpen
<1> QED BY <1>1, <1>2, <1>3, <1>4, <1>5 DEF Connect

\* Queueing a logout or the stop command keeps every type.
LEMMA TypeClient ==
  ASSUME TypeOK, Logout \/ Shutdown
  PROVE  TypeOK'
<1> USE DEF TypeOK, mem, worker, disk, client
<1>1. /\ Command("logout", NoLogin) \in Commands
      /\ Command("stop", NoLogin) \in Commands
  BY DEF Command, Commands
<1>2. CASE Logout
  <2>1. q' \in Seq(Commands) /\ nlogout' \in Nat
    BY <1>1, <1>2 DEF Logout
  <2> QED BY <2>1, <1>2 DEF Logout
<1>3. CASE Shutdown
  <2>1. q' \in Seq(Commands)
    BY <1>1, <1>3 DEF Shutdown
  <2> QED BY <2>1, <1>3 DEF Shutdown
<1> QED BY <1>2, <1>3

\* The user, TikTok or a restart keeps every type.
LEMMA TypeEnvironment ==
  ASSUME TypeOK, Environment
  PROVE  TypeOK'
<1> USE DEF TypeOK, mem, worker, disk, client, Outside
<1>1. CASE UserLogsIn
  BY <1>1 DEF UserLogsIn
<1>2. CASE UserClosesWindow
  BY <1>2 DEF UserClosesWindow
<1>3. CASE SessionExpires
  BY <1>3 DEF SessionExpires
<1>4. CASE Restart
  <2>1. WorkerType'
    BY <1>4 DEF Restart, WorkerType, NoPend, WorkerLabels
  <2>2. MemType'
    BY <1>4 DEF Restart, MemType, States, Modes
  <2>3. DiskType'
    BY <1>4 DEF Restart, DiskType
  <2>4. cpc' \in [Calls -> CallLabels]
    BY <1>4 DEF Restart, CallLabels
  <2>5. stop' \in BOOLEAN /\ valid' \in BOOLEAN
    BY <1>4 DEF Restart
  <2>6. old' \in [Calls -> Calls \cup {NoLogin}] /\ q' \in Seq(Commands)
    BY <1>4 DEF Restart
  <2>7. ClientType'
    BY <1>4, <2>4, <2>5, <2>6 DEF Restart, ClientType
  <2> QED BY <2>1, <2>2, <2>3, <2>7 DEF WorkerType, MemType, DiskType, ClientType
<1> QED BY <1>1, <1>2, <1>3, <1>4 DEF Environment

\* The initial state has the types.
LEMMA TypeInit == Init => TypeInv
<1> SUFFICES ASSUME Init PROVE TypeInv
  OBVIOUS
<1>1. WorkerType
  BY DEF Init, WorkerType, NoPend, WorkerLabels
<1>2. MemType
  BY DEF Init, MemType, States, Modes
<1>3. DiskType
  BY DEF Init, DiskType
<1>4. ClientType
  <2>1. stop \in BOOLEAN /\ valid \in BOOLEAN
    BY DEF Init
  <2>2. /\ old \in [Calls -> Calls \cup {NoLogin}] /\ q \in Seq(Commands)
        /\ cpc \in [Calls -> CallLabels]
    BY DEF Init, CallLabels
  <2> QED BY <2>1, <2>2 DEF Init, ClientType
<1>5. \A c \in Calls : cpc[c] # "close"
  BY DEF Init
<1> QED BY <1>1, <1>2, <1>3, <1>4, <1>5
        DEF TypeInv, TypeOK, WorkerType, MemType, DiskType, ClientType

\* TypeInv is inductive: only connect() needs more than TypeOK.
LEMMA TypeNext == TypeInv /\ [Next]_vars => TypeInv'
<1> SUFFICES ASSUME TypeInv, [Next]_vars PROVE TypeInv'
  OBVIOUS
<1>1. ASSUME NEW c \in Calls, Connect(c) PROVE TypeInv'
  <2>1. TypeOK'
    BY <1>1, TypeConnect
  <2>2. \A d \in Calls : cpc'[d] = "close" => old'[d] \in Calls
    BY <1>1 DEF TypeInv, TypeOK, Connect, CallStep, ConnectCheck, ConnectRegister,
                ConnectUpsert, ConnectClose, ConnectOpen
  <2> QED BY <2>1, <2>2 DEF TypeInv
<1>2. CASE Logout \/ Shutdown
  BY <1>2, TypeClient DEF TypeInv, Logout, Shutdown, client
<1>3. CASE Worker
  <2>1. UNCHANGED client
    BY <1>3 DEF Worker, Loop, DoOpen, CheckLogin, DoEstablish, SyncNow, DoLogout,
         TakeOpen, TakeLogout, TakeClose, TakeNothing, ExitLoop, Tick, TickNotDue,
         WriteRow, Launch, LaunchFails, ProbeSession, ProbeQr, ProbePassword,
         ProbeFails, OpenWindow, OpenWindowFails, CheckClosed, CheckNotYet,
         CheckGivesUp, CheckLoggedIn, CheckFails, Takeover, TakeoverFails,
         EstablishWipe, EstablishUpsert, Establish, MarkConnected, SyncDone,
         SyncRefused, SyncFails, SyncNotDue, LogoutClose, LogoutDelete,
         LogoutWipe, LogoutRmtree, LogoutPop, Outside
  <2> QED BY <1>3, <2>1, TypeWorker DEF TypeInv, client
<1>4. CASE Environment
  <2>1. TypeOK'
    BY <1>4, TypeEnvironment DEF TypeInv
  <2>2. UNCHANGED client \/ \A c \in Calls : cpc'[c] # "close"
    BY <1>4 DEF Environment, UserLogsIn, UserClosesWindow, SessionExpires, Restart,
                Outside
  <2> QED BY <2>1, <2>2 DEF TypeInv, client
<1>5. CASE UNCHANGED vars
  BY <1>5 DEF TypeInv, TypeOK, vars, mem, worker, disk, client
<1> QED BY <1>1, <1>2, <1>3, <1>4, <1>5 DEF Next

\* Every variable keeps its type, for every client and every environment.
THEOREM TypeCorrect == Spec => []TypeOK
<1>1. TypeInv => TypeOK
  BY DEF TypeInv
<1> QED BY <1>1, TypeInit, TypeNext, PTL DEF Spec

-----------------------------------------------------------------------------
(* The inductive invariant.                                                *)

\* A step of the worker inside a command or a tick: it touches the login it
\* handles and nothing of the clients', and ends with that login opened.
Local ==
    /\ UNCHANGED <<logins, q, client, cur>>
    /\ cur \in Calls
    /\ Handling
    /\ wpc' \in Logging => wpc \in Logging
    /\ wpc' \in {"get", "tick"} => st'[cur] # "opening_browser"
    /\ wpc' # "exit"
    /\ \A l \in Calls : l # cur => /\ st'[l] = st[l] /\ auth'[l] = auth[l]
                                   /\ prov'[l] = prov[l] /\ ctx'[l] = ctx[l]

\* Such a step keeps what is said of the calls and of the queue.
LEMMA LocalFrame ==
  ASSUME TypeOK, CallInv, QueueInv, OpenInv, Local
  PROVE  CallInv' /\ QueueInv' /\ OpenInv'
<1> USE DEF Local, client, Fresh, InFlight, Handling
<1>1. \A l \in Calls : Fresh(l) => Fresh(l)'
  OBVIOUS
<1>2. LogoutPending' => LogoutPending
  BY DEF LogoutPending
<1>3. CallInv'
  BY <1>1, <1>2 DEF CallInv, TypeOK
<1>4. QueueInv'
  BY <1>1 DEF QueueInv, TypeOK, Commands
<1>5. OpenInv'
  BY DEF OpenInv, TypeOK
<1> QED BY <1>3, <1>4, <1>5

\* One that starts no browser keeps what is said of the browsers, too.
LEMMA BrowserFrame ==
  ASSUME TypeOK, BrowserInv, Local, UNCHANGED orphans,
         \A l \in Calls : ctx'[l] # "none" => ctx[l] # "none"
  PROVE  BrowserInv'
  BY DEF TypeOK, BrowserInv, EveryBrowserOwned, ClosePending, client, Local

\* _do_open keeps the invariant: the only launch happens when no browser is alive.
LEMMA InvDoOpen ==
  ASSUME IInv, DoOpen
  PROVE  CoreInv'
<1> USE DEF IInv, CoreInv, TypeOK, At, Goto, Outside, mem, client, disk, worker, Handling, Near, Logging
<1>1. CASE Launch
  <2>1. Local
    BY <1>1 DEF Launch, OpenContext, WorkerInv, Local
  <2>2. BrowserInv'
    BY <1>1 DEF Launch, OpenContext, BrowserInv, EveryBrowserOwned,
       ClosePending, WorkerInv
  <2>3. WorkerInv'
    BY <1>1 DEF Launch, OpenContext, WorkerInv, CallInv, InFlight
  <2>4. LogoutInv'
    BY <1>1 DEF Launch, OpenContext, LogoutInv, WorkerInv
  <2>5. BackedInv'
    BY <1>1 DEF Launch, OpenContext, BackedInv, Backed, WorkerInv
  <2>6. AccountInv'
    BY <1>1 DEF Launch, OpenContext, AccountInv, AccountMatches, WorkerInv, BackedInv
  <2> QED BY <2>1, <2>2, <2>3, <2>4, <2>5, <2>6, LocalFrame
<1>2. CASE LaunchFails
  <2>1. Local
    BY <1>2 DEF LaunchFails, Fail, SetState, WorkerInv, Local
  <2>2. UNCHANGED orphans /\ \A l \in Calls : ctx'[l] # "none" => ctx[l] # "none"
    BY <1>2 DEF LaunchFails
  <2>3. WorkerInv'
    BY <1>2 DEF LaunchFails, Fail, SetState, WorkerInv, CallInv, InFlight
  <2>4. LogoutInv'
    BY <1>2 DEF LaunchFails, Fail, SetState, LogoutInv, WorkerInv
  <2>5. BackedInv'
    BY <1>2 DEF LaunchFails, Fail, SetState, BackedInv, Backed, WorkerInv
  <2>6. AccountInv'
    BY <1>2 DEF LaunchFails, Fail, SetState, AccountInv, AccountMatches,
       WorkerInv, BackedInv
  <2> QED BY <2>1, <2>2, <2>3, <2>4, <2>5, <2>6, LocalFrame, BrowserFrame
<1>3. CASE ProbeSession
  <2>1. Local
    BY <1>3 DEF ProbeSession, SetState, WorkerInv, Local
  <2>2. UNCHANGED orphans /\ \A l \in Calls : ctx'[l] # "none" => ctx[l] # "none"
    BY <1>3 DEF ProbeSession
  <2>3. WorkerInv'
    BY <1>3 DEF ProbeSession, SetState, WorkerInv, CallInv, InFlight
  <2>4. LogoutInv'
    BY <1>3 DEF ProbeSession, SetState, LogoutInv, WorkerInv
  <2>5. BackedInv'
    BY <1>3 DEF ProbeSession, SetState, BackedInv, Backed, WorkerInv
  <2>6. AccountInv'
    BY <1>3 DEF ProbeSession, SetState, AccountInv, AccountMatches, WorkerInv, BackedInv
  <2> QED BY <2>1, <2>2, <2>3, <2>4, <2>5, <2>6, LocalFrame, BrowserFrame
<1>4. CASE ProbeQr
  <2>1. Local
    BY <1>4 DEF ProbeQr, SetState, Redirected, WorkerInv, Local
  <2>2. UNCHANGED orphans /\ \A l \in Calls : ctx'[l] # "none" => ctx[l] # "none"
    BY <1>4 DEF ProbeQr, Redirected
  <2>3. WorkerInv'
    BY <1>4 DEF ProbeQr, SetState, Redirected, WorkerInv, CallInv, InFlight
  <2>4. LogoutInv'
    BY <1>4 DEF ProbeQr, SetState, Redirected, LogoutInv, WorkerInv
  <2>5. BackedInv'
    BY <1>4 DEF ProbeQr, SetState, Redirected, BackedInv, Backed, WorkerInv
  <2>6. AccountInv'
    BY <1>4 DEF ProbeQr, SetState, Redirected, AccountInv, AccountMatches,
       WorkerInv, BackedInv
  <2> QED BY <2>1, <2>2, <2>3, <2>4, <2>5, <2>6, LocalFrame, BrowserFrame
<1>5. CASE ProbePassword
  <2>1. Local
    BY <1>5 DEF ProbePassword, Redirected, WorkerInv, Local
  <2>2. UNCHANGED orphans /\ \A l \in Calls : ctx'[l] # "none" => ctx[l] # "none"
    BY <1>5 DEF ProbePassword, Redirected
  <2>3. WorkerInv'
    BY <1>5 DEF ProbePassword, Redirected, WorkerInv, CallInv, InFlight
  <2>4. LogoutInv'
    BY <1>5 DEF ProbePassword, Redirected, LogoutInv, WorkerInv
  <2>5. BackedInv'
    BY <1>5 DEF ProbePassword, Redirected, BackedInv, Backed, WorkerInv
  <2>6. AccountInv'
    BY <1>5 DEF ProbePassword, Redirected, AccountInv, AccountMatches,
       WorkerInv, BackedInv
  <2> QED BY <2>1, <2>2, <2>3, <2>4, <2>5, <2>6, LocalFrame, BrowserFrame
<1>6. CASE ProbeFails
  <2>1. Local
    BY <1>6 DEF ProbeFails, Fail, SetState, WorkerInv, Local
  <2>2. UNCHANGED orphans /\ \A l \in Calls : ctx'[l] # "none" => ctx[l] # "none"
    BY <1>6 DEF ProbeFails
  <2>3. WorkerInv'
    BY <1>6 DEF ProbeFails, Fail, SetState, WorkerInv, CallInv, InFlight
  <2>4. LogoutInv'
    BY <1>6 DEF ProbeFails, Fail, SetState, LogoutInv, WorkerInv
  <2>5. BackedInv'
    BY <1>6 DEF ProbeFails, Fail, SetState, BackedInv, Backed, WorkerInv
  <2>6. AccountInv'
    BY <1>6 DEF ProbeFails, Fail, SetState, AccountInv, AccountMatches,
       WorkerInv, BackedInv
  <2> QED BY <2>1, <2>2, <2>3, <2>4, <2>5, <2>6, LocalFrame, BrowserFrame
<1>7. CASE OpenWindow
  <2>1. Local
    BY <1>7 DEF OpenWindow, SetState, Relaunch, LoginMode, WorkerInv, Local
  <2>2. UNCHANGED orphans /\ \A l \in Calls : ctx'[l] # "none" => ctx[l] # "none"
    BY <1>7 DEF OpenWindow, Relaunch, LoginMode, BackedInv, Modes
  <2>3. WorkerInv'
    BY <1>7 DEF OpenWindow, SetState, Relaunch, LoginMode, WorkerInv, CallInv, InFlight
  <2>4. LogoutInv'
    BY <1>7 DEF OpenWindow, SetState, Relaunch, LoginMode, LogoutInv, WorkerInv
  <2>5. BackedInv'
    BY <1>7 DEF OpenWindow, SetState, Relaunch, LoginMode, BackedInv, Backed, WorkerInv
  <2>6. AccountInv'
    BY <1>7 DEF OpenWindow, SetState, Relaunch, LoginMode, AccountInv,
       AccountMatches, WorkerInv, BackedInv
  <2> QED BY <2>1, <2>2, <2>3, <2>4, <2>5, <2>6, LocalFrame, BrowserFrame
<1>8. CASE OpenWindowFails
  <2>1. Local
    BY <1>8 DEF OpenWindowFails, Fail, Relaunch, RelaunchFails, LoginMode,
       CloseContext, SetState, WorkerInv, Local
  <2>2. UNCHANGED orphans /\ \A l \in Calls : ctx'[l] # "none" => ctx[l] # "none"
    BY <1>8 DEF OpenWindowFails, Relaunch, RelaunchFails, LoginMode,
       CloseContext, BackedInv, Modes
  <2>3. WorkerInv'
    BY <1>8 DEF OpenWindowFails, Fail, Relaunch, RelaunchFails, LoginMode,
       CloseContext, SetState, WorkerInv, CallInv, InFlight
  <2>4. LogoutInv'
    BY <1>8 DEF OpenWindowFails, Fail, Relaunch, RelaunchFails, LoginMode,
       CloseContext, SetState, LogoutInv, WorkerInv
  <2>5. BackedInv'
    BY <1>8 DEF OpenWindowFails, Fail, Relaunch, RelaunchFails, LoginMode,
       CloseContext, SetState, BackedInv, Backed, WorkerInv
  <2>6. AccountInv'
    BY <1>8 DEF OpenWindowFails, Fail, Relaunch, RelaunchFails, LoginMode,
       CloseContext, SetState, AccountInv, AccountMatches, WorkerInv, BackedInv
  <2> QED BY <2>1, <2>2, <2>3, <2>4, <2>5, <2>6, LocalFrame, BrowserFrame
<1> QED BY <1>1, <1>2, <1>3, <1>4, <1>5, <1>6, <1>7, <1>8 DEF DoOpen

\* _check_login keeps the invariant: the window is swapped, never doubled.
LEMMA InvCheckLogin ==
  ASSUME IInv, CheckLogin
  PROVE  CoreInv'
<1> USE DEF IInv, CoreInv, TypeOK, At, Goto, Outside, mem, client, disk, worker, Handling, Near, Logging
<1>1. CASE CheckClosed
  <2>1. Local
    BY <1>1 DEF CheckClosed, Fail, CloseContext, SetState, WorkerInv, Local
  <2>2. UNCHANGED orphans /\ \A l \in Calls : ctx'[l] # "none" => ctx[l] # "none"
    BY <1>1 DEF CheckClosed, CloseContext
  <2>3. WorkerInv'
    BY <1>1 DEF CheckClosed, Fail, CloseContext, SetState, WorkerInv, CallInv, InFlight
  <2>4. LogoutInv'
    BY <1>1 DEF CheckClosed, Fail, CloseContext, SetState, LogoutInv, WorkerInv
  <2>5. BackedInv'
    BY SMTT(30), <1>1 DEF CheckClosed, Fail, CloseContext, SetState, BackedInv, Backed, WorkerInv
  <2>6. AccountInv'
    BY <1>1 DEF CheckClosed, Fail, CloseContext, SetState, AccountInv,
       AccountMatches, WorkerInv, BackedInv
  <2> QED BY <2>1, <2>2, <2>3, <2>4, <2>5, <2>6, LocalFrame, BrowserFrame
<1>2. CASE CheckNotYet
  <2>1. Local
    BY <1>2 DEF CheckNotYet, WorkerInv, Local
  <2>2. UNCHANGED orphans /\ \A l \in Calls : ctx'[l] # "none" => ctx[l] # "none"
    BY <1>2 DEF CheckNotYet
  <2>3. WorkerInv'
    BY <1>2 DEF CheckNotYet, WorkerInv, CallInv, InFlight
  <2>4. LogoutInv'
    BY <1>2 DEF CheckNotYet, LogoutInv, WorkerInv
  <2>5. BackedInv'
    BY <1>2 DEF CheckNotYet, BackedInv, Backed, WorkerInv
  <2>6. AccountInv'
    BY <1>2 DEF CheckNotYet, AccountInv, AccountMatches, WorkerInv, BackedInv
  <2> QED BY <2>1, <2>2, <2>3, <2>4, <2>5, <2>6, LocalFrame, BrowserFrame
<1>3. CASE CheckGivesUp
  <2>1. Local
    BY <1>3 DEF CheckGivesUp, Fail, PageOpen, SetState, WorkerInv, Local
  <2>2. UNCHANGED orphans /\ \A l \in Calls : ctx'[l] # "none" => ctx[l] # "none"
    BY <1>3 DEF CheckGivesUp, PageOpen
  <2>3. WorkerInv'
    BY <1>3 DEF CheckGivesUp, Fail, PageOpen, SetState, WorkerInv, CallInv, InFlight
  <2>4. LogoutInv'
    BY <1>3 DEF CheckGivesUp, Fail, PageOpen, SetState, LogoutInv, WorkerInv
  <2>5. BackedInv'
    BY <1>3 DEF CheckGivesUp, Fail, PageOpen, SetState, BackedInv, Backed, WorkerInv
  <2>6. AccountInv'
    BY <1>3 DEF CheckGivesUp, Fail, PageOpen, SetState, AccountInv,
       AccountMatches, WorkerInv, BackedInv
  <2> QED BY <2>1, <2>2, <2>3, <2>4, <2>5, <2>6, LocalFrame, BrowserFrame
<1>4. CASE CheckLoggedIn
  <2>1. Local
    BY <1>4 DEF CheckLoggedIn, SetState, PageOpen, WorkerInv, Local
  <2>2. UNCHANGED orphans /\ \A l \in Calls : ctx'[l] # "none" => ctx[l] # "none"
    BY <1>4 DEF CheckLoggedIn, PageOpen
  <2>3. WorkerInv'
    BY <1>4 DEF CheckLoggedIn, SetState, PageOpen, WorkerInv, CallInv, InFlight
  <2>4. LogoutInv'
    BY <1>4 DEF CheckLoggedIn, SetState, PageOpen, LogoutInv, WorkerInv
  <2>5. BackedInv'
    BY <1>4 DEF CheckLoggedIn, SetState, PageOpen, BackedInv, Backed, WorkerInv
  <2>6. AccountInv'
    BY <1>4 DEF CheckLoggedIn, SetState, PageOpen, AccountInv, AccountMatches,
       WorkerInv, BackedInv
  <2> QED BY <2>1, <2>2, <2>3, <2>4, <2>5, <2>6, LocalFrame, BrowserFrame
<1>5. CASE CheckFails
  <2>1. Local
    BY <1>5 DEF CheckFails, Fail, PageOpen, SetState, WorkerInv, Local
  <2>2. UNCHANGED orphans /\ \A l \in Calls : ctx'[l] # "none" => ctx[l] # "none"
    BY <1>5 DEF CheckFails, PageOpen
  <2>3. WorkerInv'
    BY <1>5 DEF CheckFails, Fail, PageOpen, SetState, WorkerInv, CallInv, InFlight
  <2>4. LogoutInv'
    BY <1>5 DEF CheckFails, Fail, PageOpen, SetState, LogoutInv, WorkerInv
  <2>5. BackedInv'
    BY <1>5 DEF CheckFails, Fail, PageOpen, SetState, BackedInv, Backed, WorkerInv
  <2>6. AccountInv'
    BY <1>5 DEF CheckFails, Fail, PageOpen, SetState, AccountInv,
       AccountMatches, WorkerInv, BackedInv
  <2> QED BY <2>1, <2>2, <2>3, <2>4, <2>5, <2>6, LocalFrame, BrowserFrame
<1>6. CASE Takeover
  <2>1. Local
    BY <1>6 DEF Takeover, Relaunch, WorkerInv, Local
  <2>2. UNCHANGED orphans /\ \A l \in Calls : ctx'[l] # "none" => ctx[l] # "none"
    BY <1>6 DEF Takeover, Relaunch, BackedInv, Modes
  <2>3. WorkerInv'
    BY <1>6 DEF Takeover, Relaunch, WorkerInv, CallInv, InFlight
  <2>4. LogoutInv'
    BY <1>6 DEF Takeover, Relaunch, LogoutInv, WorkerInv
  <2>5. BackedInv'
    BY <1>6 DEF Takeover, Relaunch, BackedInv, Backed, WorkerInv
  <2>6. AccountInv'
    BY <1>6 DEF Takeover, Relaunch, AccountInv, AccountMatches, WorkerInv, BackedInv
  <2> QED BY <2>1, <2>2, <2>3, <2>4, <2>5, <2>6, LocalFrame, BrowserFrame
<1>7. CASE TakeoverFails
  <2>1. Local
    BY <1>7 DEF TakeoverFails, Fail, RelaunchFails, CloseContext, SetState,
       WorkerInv, Local
  <2>2. UNCHANGED orphans /\ \A l \in Calls : ctx'[l] # "none" => ctx[l] # "none"
    BY <1>7 DEF TakeoverFails, RelaunchFails, CloseContext
  <2>3. WorkerInv'
    BY <1>7 DEF TakeoverFails, Fail, RelaunchFails, CloseContext, SetState,
       WorkerInv, CallInv, InFlight
  <2>4. LogoutInv'
    BY <1>7 DEF TakeoverFails, Fail, RelaunchFails, CloseContext, SetState,
       LogoutInv, WorkerInv
  <2>5. BackedInv'
    BY <1>7 DEF TakeoverFails, Fail, RelaunchFails, CloseContext, SetState,
       BackedInv, Backed, WorkerInv
  <2>6. AccountInv'
    BY <1>7 DEF TakeoverFails, Fail, RelaunchFails, CloseContext, SetState,
       AccountInv, AccountMatches, WorkerInv, BackedInv
  <2> QED BY <2>1, <2>2, <2>3, <2>4, <2>5, <2>6, LocalFrame, BrowserFrame
<1> QED BY <1>1, <1>2, <1>3, <1>4, <1>5, <1>6, <1>7 DEF CheckLogin

\* _establish keeps the invariant: the wipe precedes everything it stores.
LEMMA InvDoEstablish ==
  ASSUME IInv, DoEstablish
  PROVE  CoreInv'
<1> USE DEF IInv, CoreInv, TypeOK, At, Goto, Outside, mem, client, disk, worker, Handling, Near, Logging
<1>1. CASE EstablishWipe
  <2>1. Local
    BY <1>1 DEF EstablishWipe, NoRow, WorkerInv, Local
  <2>2. UNCHANGED orphans /\ \A l \in Calls : ctx'[l] # "none" => ctx[l] # "none"
    BY <1>1 DEF EstablishWipe, NoRow
  <2>3. WorkerInv'
    BY <1>1 DEF EstablishWipe, NoRow, WorkerInv, CallInv, InFlight
  <2>4. LogoutInv'
    BY <1>1 DEF EstablishWipe, NoRow, LogoutInv, WorkerInv
  <2>5. BackedInv'
    BY <1>1 DEF EstablishWipe, NoRow, BackedInv, Backed, WorkerInv
  <2>6. AccountInv'
    BY <1>1 DEF EstablishWipe, NoRow, AccountInv, AccountMatches, WorkerInv, BackedInv
  <2> QED BY <2>1, <2>2, <2>3, <2>4, <2>5, <2>6, LocalFrame, BrowserFrame
<1>2. CASE EstablishUpsert
  <2>1. Local
    BY <1>2 DEF EstablishUpsert, WorkerInv, Local
  <2>2. UNCHANGED orphans /\ \A l \in Calls : ctx'[l] # "none" => ctx[l] # "none"
    BY <1>2 DEF EstablishUpsert
  <2>3. WorkerInv'
    BY <1>2 DEF EstablishUpsert, WorkerInv, CallInv, InFlight
  <2>4. LogoutInv'
    BY <1>2 DEF EstablishUpsert, LogoutInv, WorkerInv
  <2>5. BackedInv'
    BY <1>2 DEF EstablishUpsert, BackedInv, Backed, WorkerInv
  <2>6. AccountInv'
    BY <1>2 DEF EstablishUpsert, AccountInv, AccountMatches, WorkerInv, BackedInv
  <2> QED BY <2>1, <2>2, <2>3, <2>4, <2>5, <2>6, LocalFrame, BrowserFrame
<1>3. CASE Establish
  <2>1. Local
    BY <1>3 DEF Establish, Fail, MayStore, SetState, WorkerInv, Local
  <2>2. UNCHANGED orphans /\ \A l \in Calls : ctx'[l] # "none" => ctx[l] # "none"
    BY <1>3 DEF Establish, MayStore
  <2>3. WorkerInv'
    BY <1>3 DEF Establish, Fail, MayStore, SetState, WorkerInv, CallInv, InFlight
  <2>4. LogoutInv'
    BY <1>3 DEF Establish, Fail, MayStore, SetState, LogoutInv, WorkerInv
  <2>5. BackedInv'
    BY <1>3 DEF Establish, Fail, MayStore, SetState, BackedInv, Backed, WorkerInv
  <2>6. AccountInv'
    BY <1>3 DEF Establish, Fail, MayStore, SetState, AccountInv,
       AccountMatches, WorkerInv, BackedInv
  <2> QED BY <2>1, <2>2, <2>3, <2>4, <2>5, <2>6, LocalFrame, BrowserFrame
<1>4. CASE MarkConnected
  <2>1. Local
    BY <1>4 DEF MarkConnected, SetState, WorkerInv, Local
  <2>2. UNCHANGED orphans /\ \A l \in Calls : ctx'[l] # "none" => ctx[l] # "none"
    BY <1>4 DEF MarkConnected
  <2>3. WorkerInv'
    BY <1>4 DEF MarkConnected, SetState, WorkerInv, CallInv, InFlight
  <2>4. LogoutInv'
    BY <1>4 DEF MarkConnected, SetState, LogoutInv, WorkerInv
  <2>5. BackedInv'
    BY <1>4 DEF MarkConnected, SetState, BackedInv, Backed, WorkerInv
  <2>6. AccountInv'
    BY <1>4 DEF MarkConnected, SetState, AccountInv, AccountMatches, WorkerInv,
       BackedInv
  <2> QED BY <2>1, <2>2, <2>3, <2>4, <2>5, <2>6, LocalFrame, BrowserFrame
<1> QED BY <1>1, <1>2, <1>3, <1>4 DEF DoEstablish

\* _sync_now keeps the invariant: it stores under the account of the session.
LEMMA InvSyncNow ==
  ASSUME IInv, SyncNow
  PROVE  CoreInv'
<1> USE DEF IInv, CoreInv, TypeOK, At, Goto, Outside, mem, client, disk, worker, Handling, Near, Logging
<1>1. CASE SyncDone
  <2>1. Local
    BY <1>1 DEF SyncDone, MayStore, Syncing, AfterSync, NoRow, WorkerInv, Local
  <2>2. UNCHANGED orphans /\ \A l \in Calls : ctx'[l] # "none" => ctx[l] # "none"
    BY <1>1 DEF SyncDone, MayStore, Syncing, AfterSync, NoRow
  <2>3. WorkerInv'
    BY <1>1 DEF SyncDone, MayStore, Syncing, AfterSync, NoRow, WorkerInv,
       CallInv, InFlight
  <2>4. LogoutInv'
    BY <1>1 DEF SyncDone, MayStore, Syncing, AfterSync, NoRow, LogoutInv, WorkerInv
  <2>5. BackedInv'
    BY <1>1 DEF SyncDone, MayStore, Syncing, AfterSync, NoRow, BackedInv,
       Backed, WorkerInv
  <2>6. AccountInv'
    BY <1>1 DEF SyncDone, MayStore, Syncing, AfterSync, NoRow, AccountInv,
       AccountMatches, WorkerInv, BackedInv
  <2> QED BY <2>1, <2>2, <2>3, <2>4, <2>5, <2>6, LocalFrame, BrowserFrame
<1>2. CASE SyncRefused
  <2>1. Local
    BY <1>2 DEF SyncRefused, Fail, MayStore, Syncing, AfterSync, SetState,
       WorkerInv, Local
  <2>2. UNCHANGED orphans /\ \A l \in Calls : ctx'[l] # "none" => ctx[l] # "none"
    BY <1>2 DEF SyncRefused, MayStore, Syncing, AfterSync
  <2>3. WorkerInv'
    BY <1>2 DEF SyncRefused, Fail, MayStore, Syncing, AfterSync, SetState,
       WorkerInv, CallInv, InFlight
  <2>4. LogoutInv'
    BY <1>2 DEF SyncRefused, Fail, MayStore, Syncing, AfterSync, SetState,
       LogoutInv, WorkerInv
  <2>5. BackedInv'
    BY <1>2 DEF SyncRefused, Fail, MayStore, Syncing, AfterSync, SetState,
       BackedInv, Backed, WorkerInv
  <2>6. AccountInv'
    BY <1>2 DEF SyncRefused, Fail, MayStore, Syncing, AfterSync, SetState,
       AccountInv, AccountMatches, WorkerInv, BackedInv
  <2> QED BY <2>1, <2>2, <2>3, <2>4, <2>5, <2>6, LocalFrame, BrowserFrame
<1>3. CASE SyncFails
  <2>1. Local
    BY <1>3 DEF SyncFails, Fail, MayStore, Syncing, SetState, WorkerInv, Local
  <2>2. UNCHANGED orphans /\ \A l \in Calls : ctx'[l] # "none" => ctx[l] # "none"
    BY <1>3 DEF SyncFails, MayStore, Syncing
  <2>3. WorkerInv'
    BY <1>3 DEF SyncFails, Fail, MayStore, Syncing, SetState, WorkerInv,
       CallInv, InFlight
  <2>4. LogoutInv'
    BY <1>3 DEF SyncFails, Fail, MayStore, Syncing, SetState, LogoutInv, WorkerInv
  <2>5. BackedInv'
    BY <1>3 DEF SyncFails, Fail, MayStore, Syncing, SetState, BackedInv,
       Backed, WorkerInv
  <2>6. AccountInv'
    BY <1>3 DEF SyncFails, Fail, MayStore, Syncing, SetState, AccountInv,
       AccountMatches, WorkerInv, BackedInv
  <2> QED BY <2>1, <2>2, <2>3, <2>4, <2>5, <2>6, LocalFrame, BrowserFrame
<1>4. CASE SyncNotDue
  <2>1. Local
    BY <1>4 DEF SyncNotDue, MayStore, WorkerInv, Local
  <2>2. UNCHANGED orphans /\ \A l \in Calls : ctx'[l] # "none" => ctx[l] # "none"
    BY <1>4 DEF SyncNotDue, MayStore
  <2>3. WorkerInv'
    BY <1>4 DEF SyncNotDue, MayStore, WorkerInv, CallInv, InFlight
  <2>4. LogoutInv'
    BY <1>4 DEF SyncNotDue, MayStore, LogoutInv, WorkerInv
  <2>5. BackedInv'
    BY <1>4 DEF SyncNotDue, MayStore, BackedInv, Backed, WorkerInv
  <2>6. AccountInv'
    BY <1>4 DEF SyncNotDue, MayStore, AccountInv, AccountMatches, WorkerInv, BackedInv
  <2> QED BY <2>1, <2>2, <2>3, <2>4, <2>5, <2>6, LocalFrame, BrowserFrame
<1> QED BY <1>1, <1>2, <1>3, <1>4 DEF SyncNow

\* _do_logout keeps the invariant: nobody writes between its wipes and its end.
LEMMA InvDoLogout ==
  ASSUME IInv, DoLogout
  PROVE  CoreInv'
<1> USE DEF IInv, CoreInv, TypeOK, At, Goto, Outside, mem, client, disk, worker, Handling, Near, Logging
<1>1. CASE LogoutClose
  <2>1. Local
    BY <1>1 DEF LogoutClose, CloseContext, WorkerInv, Local
  <2>2. UNCHANGED orphans /\ \A l \in Calls : ctx'[l] # "none" => ctx[l] # "none"
    BY <1>1 DEF LogoutClose, CloseContext
  <2>3. WorkerInv'
    BY <1>1 DEF LogoutClose, CloseContext, WorkerInv, CallInv, InFlight
  <2>4. LogoutInv'
    BY <1>1 DEF LogoutClose, CloseContext, LogoutInv, WorkerInv
  <2>5. BackedInv'
    BY <1>1 DEF LogoutClose, CloseContext, BackedInv, Backed, WorkerInv
  <2>6. AccountInv'
    BY <1>1 DEF LogoutClose, CloseContext, AccountInv, AccountMatches,
       WorkerInv, BackedInv
  <2> QED BY <2>1, <2>2, <2>3, <2>4, <2>5, <2>6, LocalFrame, BrowserFrame
<1>2. CASE LogoutDelete
  <2>1. Local
    BY <1>2 DEF LogoutDelete, WorkerInv, Local
  <2>2. UNCHANGED orphans /\ \A l \in Calls : ctx'[l] # "none" => ctx[l] # "none"
    BY <1>2 DEF LogoutDelete
  <2>3. WorkerInv'
    BY <1>2 DEF LogoutDelete, WorkerInv, CallInv, InFlight
  <2>4. LogoutInv'
    BY <1>2 DEF LogoutDelete, LogoutInv, WorkerInv
  <2>5. BackedInv'
    BY <1>2 DEF LogoutDelete, BackedInv, Backed, WorkerInv
  <2>6. AccountInv'
    BY <1>2 DEF LogoutDelete, AccountInv, AccountMatches, WorkerInv, BackedInv
  <2> QED BY <2>1, <2>2, <2>3, <2>4, <2>5, <2>6, LocalFrame, BrowserFrame
<1>3. CASE LogoutWipe
  <2>1. Local
    BY <1>3 DEF LogoutWipe, NoRow, WorkerInv, Local
  <2>2. UNCHANGED orphans /\ \A l \in Calls : ctx'[l] # "none" => ctx[l] # "none"
    BY <1>3 DEF LogoutWipe, NoRow
  <2>3. WorkerInv'
    BY <1>3 DEF LogoutWipe, NoRow, WorkerInv, CallInv, InFlight
  <2>4. LogoutInv'
    BY <1>3 DEF LogoutWipe, NoRow, LogoutInv, WorkerInv
  <2>5. BackedInv'
    BY <1>3 DEF LogoutWipe, NoRow, BackedInv, Backed, WorkerInv
  <2>6. AccountInv'
    BY <1>3 DEF LogoutWipe, NoRow, AccountInv, AccountMatches, WorkerInv, BackedInv
  <2> QED BY <2>1, <2>2, <2>3, <2>4, <2>5, <2>6, LocalFrame, BrowserFrame
<1>4. CASE LogoutRmtree
  <2>1. Local
    BY <1>4 DEF LogoutRmtree, WorkerInv, Local
  <2>2. UNCHANGED orphans /\ \A l \in Calls : ctx'[l] # "none" => ctx[l] # "none"
    BY <1>4 DEF LogoutRmtree
  <2>3. WorkerInv'
    BY <1>4 DEF LogoutRmtree, WorkerInv, CallInv, InFlight
  <2>4. LogoutInv'
    BY <1>4 DEF LogoutRmtree, LogoutInv, WorkerInv
  <2>5. BackedInv'
    BY <1>4 DEF LogoutRmtree, BackedInv, Backed, WorkerInv
  <2>6. AccountInv'
    BY <1>4 DEF LogoutRmtree, AccountInv, AccountMatches, WorkerInv, BackedInv,
       LogoutInv
  <2> QED BY <2>1, <2>2, <2>3, <2>4, <2>5, <2>6, LocalFrame, BrowserFrame
<1>5. CASE LogoutPop
  <2>1. \A c \in Calls : ~InFlight(c)
    BY <1>5 DEF LogoutPop, CallInv, LogoutPending
  <2>2. /\ wpc = "lo_pop" /\ cur = logins /\ cur \in Calls /\ cpc[cur] = "done"
        /\ logins' = NoLogin /\ wpc' \in {"get", "tick"}
        /\ st' = [st EXCEPT ![cur] = "logged_out"]
        /\ prov' = [prov EXCEPT ![cur] = FALSE]
    BY <1>5 DEF LogoutPop, LogoutInv, WorkerInv
  <2>3. \A m \in Calls : ctx[m] = "none"
    BY <2>2 DEF LogoutInv
  <2>4. CallInv'
    BY <1>5, <2>1, <2>2, CallsAssumption DEF LogoutPop, CallInv, Fresh, InFlight
  <2>5. QueueInv' /\ OpenInv'
    BY <1>5, <2>2, CallsAssumption DEF LogoutPop, LogoutInv, QueueInv, OpenInv
  <2>6. BrowserInv'
    BY <1>5, <2>3 DEF LogoutPop, BrowserInv, EveryBrowserOwned
  <2>7. WorkerInv' /\ LogoutInv'
    BY <1>5, <2>2 DEF LogoutPop, WorkerInv, LogoutInv
  <2>8. BackedInv' /\ AccountInv'
    BY <1>5, <2>2, <2>3 DEF LogoutPop, BackedInv, AccountInv, AccountMatches
  <2> QED BY <2>4, <2>5, <2>6, <2>7, <2>8
<1> QED BY <1>1, <1>2, <1>3, <1>4, <1>5 DEF DoLogout

\* The worker's loop keeps the invariant: open comes after every close.
LEMMA InvLoop ==
  ASSUME IInv, Loop
  PROVE  CoreInv'
<1> USE DEF IInv, CoreInv, TypeOK, At, Goto, Outside, mem, client, disk, worker, Handling, Near, Logging
<1>1. CASE TakeOpen
  <2>1. wpc = "get" /\ q # <<>> /\ q[1].cmd = "open" /\ q' = Tail(q) /\ Len(q) > 0
    BY <1>1 DEF TakeOpen, Take
  <2>2. \A c \in Calls : ~InFlight(c)
    <3>1. QueueInv /\ 1 \in 1..Len(q)
      BY <2>1
    <3> QED BY <2>1, <3>1 DEF QueueInv
  <2>3. \A i \in 1..Len(q) : q[i].cmd # "close"
    BY <2>1 DEF QueueInv
  <2>4. /\ logins \in Calls /\ cpc[logins] = "done" /\ cur' = logins
        /\ Fresh(logins) /\ wpc' = "launch"
    BY <1>1, <2>1, <2>2 DEF TakeOpen, QueueInv, CallInv, InFlight
  <2>5. \A l \in Calls : ctx[l] = "none"
    <3>1. \A l \in Calls : ~ClosePending(l)
      BY <2>2, <2>3 DEF ClosePending, InFlight, Command
    <3> QED BY <2>4, <3>1 DEF BrowserInv, EveryBrowserOwned, Fresh
  <2>6. CallInv' /\ QueueInv'
    BY <1>1, <2>1, <2>2, <2>4 DEF TakeOpen, CallInv, QueueInv, Fresh, InFlight,
       LogoutPending
  <2>7. OpenInv'
    BY <1>1, <2>4 DEF TakeOpen, OpenInv
  <2>8. BrowserInv'
    BY <1>1, <2>5 DEF TakeOpen, BrowserInv, EveryBrowserOwned
  <2>9. WorkerInv'
    BY <1>1, <2>2, <2>4, <2>5 DEF TakeOpen, WorkerInv, InFlight, Fresh
  <2>10. LogoutInv' /\ BackedInv' /\ AccountInv'
    BY <1>1, <2>1, <2>4, <2>5 DEF TakeOpen, LogoutInv, BackedInv, Backed,
       AccountInv, AccountMatches, Fresh
  <2> QED BY <2>6, <2>7, <2>8, <2>9, <2>10
<1>2. CASE TakeLogout
  <2>1. wpc = "get" /\ q # <<>> /\ q[1].cmd = "logout" /\ q' = Tail(q) /\ Len(q) > 0
    BY <1>2 DEF TakeLogout, Take
  <2>2. \A c \in Calls : ~InFlight(c)
    BY <2>1 DEF CallInv, LogoutPending
  <2>3. \A i \in 1..Len(q) : q[i].cmd \notin {"open", "close"}
    BY <2>1 DEF QueueInv
  <2>4. \A l \in Calls : ctx[l] # "none" => l = logins
    <3>1. \A l \in Calls : ~ClosePending(l)
      BY <2>2, <2>3 DEF ClosePending, InFlight, Command
    <3> QED BY <3>1 DEF BrowserInv, EveryBrowserOwned
  <2>5. \A i \in 1..Len(q') : q'[i].cmd \notin {"open", "close"}
    <3>1. \A i \in 1..Len(q') : i + 1 \in 1..Len(q) /\ q'[i] = q[i + 1]
      BY <2>1
    <3> QED BY <2>3, <3>1
  <2>6. CallInv'
    BY <1>2, <2>2 DEF TakeLogout, CallInv, Fresh, InFlight
  <2>7. QueueInv'
    BY <2>5 DEF QueueInv
  <2>8. OpenInv'
    BY <1>2, <2>1, <2>3 DEF TakeLogout, OpenInv, InFlight
  <2>9. BrowserInv'
    BY <1>2, <2>4 DEF TakeLogout, BrowserInv, EveryBrowserOwned
  <2>10. WorkerInv'
    BY <1>2, <2>2 DEF TakeLogout, WorkerInv, CallInv, InFlight
  <2>11. LogoutInv'
    BY <1>2, <2>4, <2>5 DEF TakeLogout, LogoutInv
  <2>12. BackedInv' /\ AccountInv'
    BY <1>2, <2>1 DEF TakeLogout, BackedInv, Backed, AccountInv, AccountMatches
  <2> QED BY <2>6, <2>7, <2>8, <2>9, <2>10, <2>11, <2>12
<1>3. CASE TakeClose
  <2> DEFINE l == Head(q).login
  <2>1. q # <<>> /\ q[1].cmd = "close" /\ l = q[1].login /\ q' = Tail(q) /\ Len(q) > 0 /\ wpc = "get"
    BY <1>3 DEF TakeClose, Take
  <2>2. l \in Calls /\ l # logins /\ cpc[l] = "done"
    <3>1. q[1] \in Commands
      BY <2>1
    <3> QED BY <2>1, <3>1 DEF QueueInv, Commands
  <2>3. /\ ctx' = [ctx EXCEPT ![l] = "none"] /\ prov' = [prov EXCEPT ![l] = FALSE]
        /\ orphans' = orphans /\ wpc' = "tick"
    BY <1>3 DEF TakeClose, CloseContext
  <2> HIDE DEF l
  <2>4. \A i \in 1..Len(q) : q[i].cmd = "open" => \E j \in 1..Len(q') : q'[j].cmd = "open"
    <3>1. ASSUME NEW i \in 1..Len(q), q[i].cmd = "open"
          PROVE  i - 1 \in 1..Len(q') /\ q'[i - 1] = q[i]
      BY <2>1, <3>1
    <3> QED BY <3>1
  <2>5. CallInv' /\ QueueInv'
    BY <1>3, <2>1, <2>2, <2>3 DEF TakeClose, CallInv, QueueInv, Fresh,
       InFlight, LogoutPending
  <2>6. OpenInv'
    BY <1>3, <2>1, <2>4 DEF TakeClose, OpenInv, InFlight
  <2>7. BrowserInv'
    <3>1. ASSUME NEW m \in Calls, m # l, ClosePending(m) PROVE ClosePending(m)'
      <4>1. CASE \E i \in 1..Len(q) : q[i] = Command("close", m)
        <5>1. PICK i \in 1..Len(q) : q[i] = Command("close", m)
          BY <4>1
        <5>2. i # 1
          BY <2>1, <3>1, <5>1 DEF Command
        <5>3. i - 1 \in 1..Len(q') /\ q'[i - 1] = q[i]
          BY <2>1, <5>2
        <5> QED BY <5>1, <5>3 DEF ClosePending, Command
      <4> QED BY <1>3, <3>1, <4>1 DEF TakeClose, ClosePending
    <3>2. \A m \in Calls : ctx'[m] # "none" => m # l /\ ctx[m] # "none"
      BY <2>2, <2>3
    <3> QED BY <1>3, <2>3, <3>1, <3>2 DEF TakeClose, BrowserInv, EveryBrowserOwned
  <2>8. WorkerInv' /\ LogoutInv' /\ AccountInv'
    BY <1>3, <2>3 DEF TakeClose, WorkerInv, LogoutInv, AccountInv, AccountMatches
  <2>9. BackedInv'
    BY <1>3, <2>1, <2>2, <2>3 DEF TakeClose, BackedInv, Backed
  <2> QED BY <2>5, <2>6, <2>7, <2>8, <2>9
<1>4. CASE TakeNothing
  <2>1. CallInv'
    BY <1>4 DEF TakeNothing, CallInv, QueueInv, Fresh, InFlight, LogoutPending,
       WorkerInv, OpenInv
  <2>2. QueueInv'
    BY <1>4 DEF TakeNothing, CallInv, QueueInv, Fresh, InFlight, LogoutPending,
       WorkerInv, OpenInv
  <2>3. OpenInv'
    BY <1>4 DEF TakeNothing, CallInv, QueueInv, Fresh, InFlight, LogoutPending,
       WorkerInv, OpenInv
  <2>4. BrowserInv'
    BY <1>4 DEF TakeNothing, BrowserInv, EveryBrowserOwned, ClosePending,
       WorkerInv, QueueInv, CallInv, Fresh, InFlight
  <2>5. WorkerInv'
    BY <1>4 DEF TakeNothing, WorkerInv, CallInv, InFlight, QueueInv, Fresh
  <2>6. LogoutInv'
    BY <1>4 DEF TakeNothing, LogoutInv, WorkerInv, QueueInv, CallInv, Fresh, InFlight
  <2>7. BackedInv'
    BY <1>4 DEF TakeNothing, BackedInv, Backed, WorkerInv
  <2>8. AccountInv'
    BY <1>4 DEF TakeNothing, AccountInv, AccountMatches, WorkerInv, BackedInv
  <2> QED BY <2>1, <2>2, <2>3, <2>4, <2>5, <2>6, <2>7, <2>8
<1>5. CASE ExitLoop
  <2>1. CallInv'
    BY <1>5 DEF ExitLoop, CallInv, QueueInv, Fresh, InFlight, LogoutPending,
       WorkerInv, OpenInv
  <2>2. QueueInv'
    BY <1>5 DEF ExitLoop, CallInv, QueueInv, Fresh, InFlight, LogoutPending,
       WorkerInv, OpenInv
  <2>3. OpenInv'
    BY <1>5 DEF ExitLoop, CallInv, QueueInv, Fresh, InFlight, LogoutPending,
       WorkerInv, OpenInv
  <2>4. BrowserInv'
    BY <1>5 DEF ExitLoop, BrowserInv, EveryBrowserOwned, ClosePending,
       WorkerInv, QueueInv, CallInv, Fresh, InFlight
  <2>5. WorkerInv'
    BY <1>5 DEF ExitLoop, WorkerInv, CallInv, InFlight, QueueInv, Fresh
  <2>6. LogoutInv'
    BY <1>5 DEF ExitLoop, LogoutInv, WorkerInv, QueueInv, CallInv, Fresh, InFlight
  <2>7. BackedInv'
    BY <1>5 DEF ExitLoop, BackedInv, Backed, WorkerInv
  <2>8. AccountInv'
    BY <1>5 DEF ExitLoop, AccountInv, AccountMatches, WorkerInv, BackedInv
  <2> QED BY <2>1, <2>2, <2>3, <2>4, <2>5, <2>6, <2>7, <2>8
<1>6. CASE Tick
  <2>1. CallInv'
    BY <1>6 DEF Tick, Watched, CallInv, QueueInv, Fresh, InFlight,
       LogoutPending, WorkerInv, OpenInv
  <2>2. QueueInv'
    BY <1>6 DEF Tick, Watched, CallInv, QueueInv, Fresh, InFlight,
       LogoutPending, WorkerInv, OpenInv
  <2>3. OpenInv'
    BY <1>6 DEF Tick, Watched, CallInv, QueueInv, Fresh, InFlight,
       LogoutPending, WorkerInv, OpenInv
  <2>4. BrowserInv'
    BY <1>6 DEF Tick, Watched, BrowserInv, EveryBrowserOwned, ClosePending,
       WorkerInv, QueueInv, CallInv, Fresh, InFlight
  <2>5. WorkerInv'
    BY <1>6 DEF Tick, Watched, WorkerInv, CallInv, InFlight, QueueInv, Fresh
  <2>6. LogoutInv'
    BY <1>6 DEF Tick, Watched, LogoutInv, WorkerInv, QueueInv, CallInv, Fresh, InFlight
  <2>7. BackedInv'
    BY <1>6 DEF Tick, Watched, BackedInv, Backed, WorkerInv
  <2>8. AccountInv'
    BY <1>6 DEF Tick, Watched, AccountInv, AccountMatches, WorkerInv, BackedInv
  <2> QED BY <2>1, <2>2, <2>3, <2>4, <2>5, <2>6, <2>7, <2>8
<1>7. CASE TickNotDue
  <2>1. CallInv'
    BY <1>7 DEF TickNotDue, CallInv, QueueInv, Fresh, InFlight, LogoutPending,
       WorkerInv, OpenInv
  <2>2. QueueInv'
    BY <1>7 DEF TickNotDue, CallInv, QueueInv, Fresh, InFlight, LogoutPending,
       WorkerInv, OpenInv
  <2>3. OpenInv'
    BY <1>7 DEF TickNotDue, CallInv, QueueInv, Fresh, InFlight, LogoutPending,
       WorkerInv, OpenInv
  <2>4. BrowserInv'
    BY <1>7 DEF TickNotDue, BrowserInv, EveryBrowserOwned, ClosePending,
       WorkerInv, QueueInv, CallInv, Fresh, InFlight
  <2>5. WorkerInv'
    BY <1>7 DEF TickNotDue, WorkerInv, CallInv, InFlight, QueueInv, Fresh
  <2>6. LogoutInv'
    BY <1>7 DEF TickNotDue, LogoutInv, WorkerInv, QueueInv, CallInv, Fresh, InFlight
  <2>7. BackedInv'
    BY <1>7 DEF TickNotDue, BackedInv, Backed, WorkerInv
  <2>8. AccountInv'
    BY <1>7 DEF TickNotDue, AccountInv, AccountMatches, WorkerInv, BackedInv
  <2> QED BY <2>1, <2>2, <2>3, <2>4, <2>5, <2>6, <2>7, <2>8
<1>8. CASE WriteRow
  <2>1. Local
    BY <1>8 DEF WriteRow, NoPend, NoRow, WorkerInv, Local
  <2>2. UNCHANGED orphans /\ \A l \in Calls : ctx'[l] # "none" => ctx[l] # "none"
    BY <1>8 DEF WriteRow, NoPend, NoRow
  <2>3. WorkerInv'
    BY <1>8 DEF WriteRow, NoPend, NoRow, WorkerInv, CallInv, InFlight
  <2>4. LogoutInv'
    BY <1>8 DEF WriteRow, NoPend, NoRow, LogoutInv, WorkerInv
  <2>5. BackedInv'
    BY <1>8 DEF WriteRow, NoPend, NoRow, BackedInv, Backed, WorkerInv
  <2>6. AccountInv'
    BY <1>8 DEF WriteRow, NoPend, NoRow, AccountInv, AccountMatches, WorkerInv,
       BackedInv
  <2> QED BY <2>1, <2>2, <2>3, <2>4, <2>5, <2>6, LocalFrame, BrowserFrame
<1> QED BY <1>1, <1>2, <1>3, <1>4, <1>5, <1>6, <1>7, <1>8 DEF Loop

\* connect() keeps the invariant, when no other call is under way.
LEMMA InvConnect ==
  ASSUME IInv, ~Overlap, NEW c \in Calls, Connect(c)
  PROVE  CoreInv'
<1> USE CallsAssumption DEF IInv, CoreInv, TypeOK, CallStep, InFlight, mem, client, disk, worker, Handling, Near, Logging
<1>1. CASE ConnectCheck(c)
  <2>1. CallInv'
    BY <1>1 DEF ConnectCheck, CallInv, QueueInv, Fresh, LogoutPending, MayCall
  <2>2. QueueInv'
    <3>1. /\ UNCHANGED <<q, logins>> /\ cpc[c] = "idle"
          /\ \A l \in Calls : Fresh(l) => Fresh(l)'
          /\ \A l \in Calls : cpc[l] = "done" /\ l # c => cpc'[l] = "done"
      BY <1>1 DEF ConnectCheck, Fresh
    <3>2. ASSUME NEW i \in 1..Len(q), q[i].cmd = "open" PROVE \A d \in Calls : ~InFlight(d)'
      <4>1. logins \in Calls /\ Fresh(logins) /\ \A d \in Calls : ~InFlight(d)
        BY <3>2 DEF QueueInv
      <4>2. cpc' = [cpc EXCEPT ![c] = "done"]
        BY <1>1, <4>1 DEF ConnectCheck, Fresh, Busy
      <4> QED BY <4>1, <4>2
    <3>3. ASSUME NEW i \in 1..Len(q), q[i].cmd = "close" PROVE cpc'[q[i].login] = "done"
      <4>1. q[i].login \in Calls /\ cpc[q[i].login] = "done"
        <5>1. q[i] \in Commands
          OBVIOUS
        <5> QED BY <3>3, <5>1 DEF QueueInv, Commands
      <4> QED BY <3>1, <4>1
    <3>4. \A i \in 1..Len(q) : q[i].cmd = "open" => logins # NoLogin /\ Fresh(logins)
      BY DEF QueueInv
    <3> QED BY <3>1, <3>2, <3>3, <3>4 DEF QueueInv
  <2>3. OpenInv'
    BY <1>1 DEF ConnectCheck, OpenInv, CallInv, Fresh
  <2>4. BrowserInv'
    BY SMTT(30), <1>1 DEF ConnectCheck, BrowserInv, EveryBrowserOwned, ClosePending,
       Command, CallInv, Fresh
  <2>5. WorkerInv'
    BY <1>1 DEF ConnectCheck, WorkerInv, CallInv, Fresh, Busy
  <2>6. LogoutInv'
    BY <1>1 DEF ConnectCheck, LogoutInv, CallInv, LogoutPending, MayCall
  <2>7. BackedInv'
    BY <1>1 DEF ConnectCheck, BackedInv, Backed, CallInv, Fresh
  <2>8. AccountInv'
    BY <1>1 DEF ConnectCheck, AccountInv, AccountMatches, CallInv, Fresh
  <2> QED BY <2>1, <2>2, <2>3, <2>4, <2>5, <2>6, <2>7, <2>8
<1>2. CASE ConnectRegister(c)
  <2>1. CallInv'
    BY <1>2 DEF ConnectRegister, CallInv, QueueInv, Fresh, LogoutPending, MayCall
  <2>2. QueueInv'
    BY <1>2 DEF ConnectRegister, QueueInv, CallInv, Fresh, LogoutPending, MayCall
  <2>3. OpenInv'
    BY <1>2 DEF ConnectRegister, OpenInv, CallInv, Fresh
  <2>4. BrowserInv'
    BY <1>2 DEF ConnectRegister, BrowserInv, EveryBrowserOwned, ClosePending,
       Command, CallInv, Fresh
  <2>5. WorkerInv'
    BY <1>2 DEF ConnectRegister, WorkerInv, CallInv, Fresh
  <2>6. LogoutInv'
    BY <1>2 DEF ConnectRegister, LogoutInv, CallInv, LogoutPending, MayCall
  <2>7. BackedInv'
    BY <1>2 DEF ConnectRegister, BackedInv, Backed, CallInv, Fresh
  <2>8. AccountInv'
    BY <1>2 DEF ConnectRegister, AccountInv, AccountMatches, CallInv, Fresh
  <2> QED BY <2>1, <2>2, <2>3, <2>4, <2>5, <2>6, <2>7, <2>8
<1>3. CASE ConnectUpsert(c)
  <2>1. CallInv'
    BY <1>3 DEF ConnectUpsert, CallInv, QueueInv, Fresh, LogoutPending, MayCall
  <2>2. QueueInv'
    BY <1>3 DEF ConnectUpsert, QueueInv, CallInv, Fresh, LogoutPending, MayCall
  <2>3. OpenInv'
    BY <1>3 DEF ConnectUpsert, OpenInv, CallInv, Fresh
  <2>4. BrowserInv'
    BY <1>3 DEF ConnectUpsert, BrowserInv, EveryBrowserOwned, ClosePending,
       Command, CallInv, Fresh
  <2>5. WorkerInv'
    BY <1>3 DEF ConnectUpsert, WorkerInv, CallInv, Fresh
  <2>6. LogoutInv'
    BY <1>3 DEF ConnectUpsert, LogoutInv, CallInv, LogoutPending, MayCall
  <2>7. BackedInv'
    BY <1>3 DEF ConnectUpsert, BackedInv, Backed, CallInv, Fresh
  <2>8. AccountInv'
    BY <1>3 DEF ConnectUpsert, AccountInv, AccountMatches, CallInv, Fresh
  <2> QED BY <2>1, <2>2, <2>3, <2>4, <2>5, <2>6, <2>7, <2>8
<1>4. CASE ConnectClose(c)
  <2>1. CallInv'
    BY <1>4 DEF ConnectClose, CallInv, QueueInv, Fresh, LogoutPending, MayCall, Command
  <2>2. QueueInv'
    BY <1>4 DEF ConnectClose, QueueInv, CallInv, Fresh, LogoutPending, MayCall, Command
  <2>3. OpenInv'
    BY <1>4 DEF ConnectClose, OpenInv, CallInv, Fresh, Command
  <2>4. BrowserInv'
    BY SMTT(30), <1>4 DEF ConnectClose, BrowserInv, EveryBrowserOwned, ClosePending,
       Command, CallInv, Fresh
  <2>5. WorkerInv'
    BY <1>4 DEF ConnectClose, WorkerInv, CallInv, Fresh, Command
  <2>6. LogoutInv'
    BY <1>4 DEF ConnectClose, LogoutInv, CallInv, LogoutPending, MayCall, Command
  <2>7. BackedInv'
    BY <1>4 DEF ConnectClose, BackedInv, Backed, CallInv, Fresh, Command
  <2>8. AccountInv'
    BY <1>4 DEF ConnectClose, AccountInv, AccountMatches, CallInv, Fresh, Command
  <2> QED BY <2>1, <2>2, <2>3, <2>4, <2>5, <2>6, <2>7, <2>8
<1>5. CASE ConnectOpen(c)
  <2>1. CallInv'
    BY <1>5 DEF ConnectOpen, CallInv, QueueInv, Fresh, LogoutPending, MayCall, Command
  <2>2. QueueInv'
    BY <1>5 DEF ConnectOpen, QueueInv, CallInv, Fresh, LogoutPending, MayCall, Command
  <2>3. OpenInv'
    BY <1>5 DEF ConnectOpen, OpenInv, CallInv, Fresh, Command
  <2>4. BrowserInv'
    BY <1>5 DEF ConnectOpen, BrowserInv, EveryBrowserOwned, ClosePending,
       Command, CallInv, Fresh
  <2>5. WorkerInv'
    BY <1>5 DEF ConnectOpen, WorkerInv, CallInv, Fresh, Command
  <2>6. LogoutInv'
    BY <1>5 DEF ConnectOpen, LogoutInv, CallInv, LogoutPending, MayCall, Command
  <2>7. BackedInv'
    BY <1>5 DEF ConnectOpen, BackedInv, Backed, CallInv, Fresh, Command
  <2>8. AccountInv'
    BY <1>5 DEF ConnectOpen, AccountInv, AccountMatches, CallInv, Fresh, Command
  <2> QED BY <2>1, <2>2, <2>3, <2>4, <2>5, <2>6, <2>7, <2>8
<1> QED BY <1>1, <1>2, <1>3, <1>4, <1>5 DEF Connect

\* So do the queueing of a logout and of the stop command.
LEMMA InvClient ==
  ASSUME IInv, ~Overlap, Logout \/ Shutdown
  PROVE  CoreInv'
<1> USE DEF IInv, CoreInv, TypeOK, InFlight, mem, client, disk, worker, Handling, Near, Logging, Command
<1>1. CASE Logout
  <2>1. CallInv'
    BY <1>1 DEF Logout, CallInv, QueueInv, Fresh, LogoutPending, MayCall
  <2>2. QueueInv'
    BY <1>1 DEF Logout, QueueInv, CallInv, Fresh, LogoutPending, MayCall
  <2>3. OpenInv'
    BY <1>1 DEF Logout, OpenInv, CallInv, Fresh
  <2>4. BrowserInv'
    BY <1>1 DEF Logout, BrowserInv, EveryBrowserOwned, ClosePending, Command,
       CallInv, Fresh
  <2>5. WorkerInv'
    BY <1>1 DEF Logout, WorkerInv, CallInv, Fresh
  <2>6. LogoutInv'
    BY <1>1 DEF Logout, LogoutInv, CallInv, LogoutPending, MayCall
  <2>7. BackedInv'
    BY <1>1 DEF Logout, BackedInv, Backed, CallInv, Fresh
  <2>8. AccountInv'
    BY <1>1 DEF Logout, AccountInv, AccountMatches, CallInv, Fresh
  <2> QED BY <2>1, <2>2, <2>3, <2>4, <2>5, <2>6, <2>7, <2>8
<1>2. CASE Shutdown
  <2>1. CallInv'
    BY <1>2 DEF Shutdown, CallInv, QueueInv, Fresh, LogoutPending, MayCall
  <2>2. QueueInv'
    BY <1>2 DEF Shutdown, QueueInv, CallInv, Fresh, LogoutPending, MayCall
  <2>3. OpenInv'
    BY SMTT(30), <1>2 DEF Shutdown, OpenInv, CallInv, Fresh
  <2>4. BrowserInv'
    BY <1>2 DEF Shutdown, BrowserInv, EveryBrowserOwned, ClosePending, Command,
       CallInv, Fresh
  <2>5. WorkerInv'
    BY <1>2 DEF Shutdown, WorkerInv, CallInv, Fresh
  <2>6. LogoutInv'
    BY <1>2 DEF Shutdown, LogoutInv, CallInv, LogoutPending, MayCall
  <2>7. BackedInv'
    BY <1>2 DEF Shutdown, BackedInv, Backed, CallInv, Fresh
  <2>8. AccountInv'
    BY <1>2 DEF Shutdown, AccountInv, AccountMatches, CallInv, Fresh
  <2> QED BY <2>1, <2>2, <2>3, <2>4, <2>5, <2>6, <2>7, <2>8
<1> QED BY <1>1, <1>2

\* So do the user, TikTok, and a restart.
LEMMA InvEnvironment ==
  ASSUME IInv, Environment, ~Overlap
  PROVE  CoreInv'
<1> USE CallsAssumption DEF IInv, CoreInv, TypeOK, InFlight, mem, client, disk, worker, Outside, Handling, Near, Logging, NoPend, Modes
<1>1. CASE UserLogsIn
  <2>1. CallInv'
    BY <1>1 DEF UserLogsIn, CallInv, QueueInv, Fresh, LogoutPending, MayCall
  <2>2. QueueInv'
    BY <1>1 DEF UserLogsIn, QueueInv, CallInv, Fresh, LogoutPending, MayCall
  <2>3. OpenInv'
    BY <1>1 DEF UserLogsIn, OpenInv, CallInv, Fresh
  <2>4. BrowserInv'
    BY <1>1 DEF UserLogsIn, BrowserInv, EveryBrowserOwned, ClosePending,
       Command, CallInv, Fresh
  <2>5. WorkerInv'
    BY <1>1 DEF UserLogsIn, WorkerInv, CallInv, Fresh
  <2>6. PICK l \in Calls : /\ ctx[l] # "none" /\ ~prov[l]
                           /\ \/ ctx[l] = "window"
                              \/ st[l] \in {"waiting_login", "needs_user"}
    <3>1. PICK l \in Calls : (ctx[l] = "window" /\ ~shut[l]) \/ QrShown(l)
      BY <1>1 DEF UserLogsIn, BrowserInv, EveryBrowserOwned
    <3>2. st[l] = "waiting_login" => ~prov[l]
      BY DEF BackedInv
    <3> QED BY <3>1, <3>2 DEF QrShown, BackedInv
  <2>7. LogoutInv'
    BY <1>1, <2>6 DEF UserLogsIn, LogoutInv, CallInv, LogoutPending, MayCall,
       BackedInv, Backed, BrowserInv, WorkerInv
  <2>8. BackedInv'
    BY <1>1 DEF UserLogsIn, BackedInv, Backed, CallInv, Fresh
  <2>9. AccountInv'
    <3>1. UNCHANGED <<logins, st, wpc, cur, pend, rows>>
      BY <1>1 DEF UserLogsIn
    <3>2. ~(wpc \in {"upsert", "establish", "first_sync", "sync"} \/ Near("mark"))
      BY <2>6 DEF BackedInv, Backed, BrowserInv, WorkerInv
    <3>3. ~(logins # NoLogin /\ st[logins] = "connected")
      BY <2>6 DEF BackedInv, Backed, BrowserInv, LogoutInv
    <3> QED BY <3>1, <3>2, <3>3 DEF AccountInv, AccountMatches
  <2> QED BY <2>1, <2>2, <2>3, <2>4, <2>5, <2>7, <2>8, <2>9
<1>2. CASE UserClosesWindow
  <2>1. CallInv'
    BY <1>2 DEF UserClosesWindow, CallInv, QueueInv, Fresh, LogoutPending, MayCall
  <2>2. QueueInv'
    BY <1>2 DEF UserClosesWindow, QueueInv, CallInv, Fresh, LogoutPending, MayCall
  <2>3. OpenInv'
    BY <1>2 DEF UserClosesWindow, OpenInv, CallInv, Fresh
  <2>4. BrowserInv'
    BY <1>2 DEF UserClosesWindow, BrowserInv, EveryBrowserOwned, ClosePending,
       Command, CallInv, Fresh
  <2>5. WorkerInv'
    BY <1>2 DEF UserClosesWindow, WorkerInv, CallInv, Fresh
  <2>6. LogoutInv'
    BY <1>2 DEF UserClosesWindow, LogoutInv, CallInv, LogoutPending, MayCall
  <2>7. BackedInv'
    BY <1>2 DEF UserClosesWindow, BackedInv, Backed, CallInv, Fresh
  <2>8. AccountInv'
    BY <1>2 DEF UserClosesWindow, AccountInv, AccountMatches, CallInv, Fresh
  <2> QED BY <2>1, <2>2, <2>3, <2>4, <2>5, <2>6, <2>7, <2>8
<1>3. CASE SessionExpires
  <2>1. CallInv'
    BY <1>3 DEF SessionExpires, CallInv, QueueInv, Fresh, LogoutPending, MayCall
  <2>2. QueueInv'
    BY <1>3 DEF SessionExpires, QueueInv, CallInv, Fresh, LogoutPending, MayCall
  <2>3. OpenInv'
    BY <1>3 DEF SessionExpires, OpenInv, CallInv, Fresh
  <2>4. BrowserInv'
    BY <1>3 DEF SessionExpires, BrowserInv, EveryBrowserOwned, ClosePending,
       Command, CallInv, Fresh
  <2>5. WorkerInv'
    BY <1>3 DEF SessionExpires, WorkerInv, CallInv, Fresh
  <2>6. LogoutInv'
    BY <1>3 DEF SessionExpires, LogoutInv, CallInv, LogoutPending, MayCall
  <2>7. BackedInv'
    BY <1>3 DEF SessionExpires, BackedInv, Backed, CallInv, Fresh
  <2>8. AccountInv'
    BY <1>3 DEF SessionExpires, AccountInv, AccountMatches, CallInv, Fresh
  <2> QED BY <2>1, <2>2, <2>3, <2>4, <2>5, <2>6, <2>7, <2>8
<1>4. CASE Restart
  <2>1. CallInv'
    BY <1>4 DEF Restart, CallInv, QueueInv, Fresh, LogoutPending, MayCall
  <2>2. QueueInv'
    BY <1>4 DEF Restart, QueueInv, CallInv, Fresh, LogoutPending, MayCall
  <2>3. OpenInv'
    BY <1>4 DEF Restart, OpenInv, CallInv, Fresh
  <2>4. BrowserInv'
    BY <1>4 DEF Restart, BrowserInv, EveryBrowserOwned, ClosePending, Command,
       CallInv, Fresh
  <2>5. WorkerInv'
    BY <1>4 DEF Restart, WorkerInv, CallInv, Fresh
  <2>6. LogoutInv'
    BY <1>4 DEF Restart, LogoutInv, CallInv, LogoutPending, MayCall
  <2>7. BackedInv'
    BY <1>4 DEF Restart, BackedInv, Backed, CallInv, Fresh
  <2>8. AccountInv'
    BY <1>4 DEF Restart, AccountInv, AccountMatches, CallInv, Fresh
  <2> QED BY <2>1, <2>2, <2>3, <2>4, <2>5, <2>6, <2>7, <2>8
<1> QED BY <1>1, <1>2, <1>3, <1>4 DEF Environment

-----------------------------------------------------------------------------
(* The invariant, and the properties that follow from it. *)

\* Every part of the invariant holds when the process starts.
LEMMA InvInit == Init => IInv
<1> SUFFICES ASSUME Init PROVE CoreInv
  BY TypeInit DEF TypeInv, IInv
<1> USE CallsAssumption DEF Init, InFlight, Handling, Near, Logging
<1>1. CallInv /\ QueueInv /\ OpenInv
  BY DEF CallInv, QueueInv, OpenInv, Fresh, LogoutPending
<1>2. BrowserInv /\ WorkerInv /\ LogoutInv
  BY DEF BrowserInv, EveryBrowserOwned, WorkerInv, LogoutInv, NoPend
<1>3. BackedInv /\ AccountInv
  BY DEF BackedInv, AccountInv, AccountMatches, NoPend
<1> QED BY <1>1, <1>2, <1>3 DEF CoreInv

\* Every step keeps it.
LEMMA InvNext ==
  ASSUME ~Overlap
  PROVE  IInv /\ [Next]_vars => IInv'
<1> SUFFICES ASSUME IInv, [Next]_vars PROVE IInv'
  OBVIOUS
<1>1. TypeInv
  BY DEF TypeInv, IInv, CoreInv, CallInv, TypeOK
<1>2. TypeOK'
  BY <1>1, TypeNext DEF TypeInv
<1>3. CASE \E c \in Calls : Connect(c)
  BY <1>2, <1>3, InvConnect DEF IInv
<1>4. CASE Logout \/ Shutdown
  BY <1>2, <1>4, InvClient DEF IInv
<1>5. CASE Worker
  BY <1>2, <1>5, InvLoop, InvDoOpen, InvCheckLogin, InvDoEstablish, InvSyncNow,
     InvDoLogout DEF IInv, Worker
<1>6. CASE Environment
  BY <1>2, <1>6, InvEnvironment DEF IInv
<1>7. CASE UNCHANGED vars
  <2> USE <1>7 DEF vars, mem, worker, client, disk
  <2>1. CallInv' /\ QueueInv' /\ OpenInv'
    BY DEF IInv, CoreInv, CallInv, QueueInv, OpenInv, Fresh, Handling, InFlight,
           LogoutPending
  <2>2. BrowserInv' /\ WorkerInv' /\ LogoutInv'
    BY DEF IInv, CoreInv, BrowserInv, EveryBrowserOwned, ClosePending, WorkerInv,
           LogoutInv, Handling, Near, InFlight
  <2>3. BackedInv' /\ AccountInv'
    BY DEF IInv, CoreInv, BackedInv, Backed, AccountInv, AccountMatches, Near
  <2> QED BY <1>2, <2>1, <2>2, <2>3 DEF IInv, CoreInv
<1> QED BY <1>3, <1>4, <1>5, <1>6, <1>7 DEF Next

\* IInv holds in every reachable state.
THEOREM Invariance ==
  ASSUME ~Overlap
  PROVE  Spec => []IInv
BY InvInit, InvNext, PTL DEF Spec

\* No browser is ever left behind, for any number of calls, logouts and restarts.
THEOREM BrowsersAreOwned ==
  ASSUME ~Overlap
  PROVE  Spec => []EveryBrowserOwned
<1>1. IInv => EveryBrowserOwned
  BY DEF IInv, CoreInv, BrowserInv
<1> QED BY <1>1, Invariance, PTL

\* At most one Chromium is alive on the profile.
THEOREM AtMostOneBrowser ==
  ASSUME ~Overlap
  PROVE  Spec => []OneBrowser
<1>1. ASSUME IInv PROVE OneBrowser
  <2> DEFINE B == {l \in Calls : ctx[l] # "none"}
  <2>1. orphans = 0 /\ \A l, m \in B : l = m
    BY <1>1 DEF IInv, CoreInv, BrowserInv, EveryBrowserOwned
  <2>2. CASE B = {}
    BY <2>1, <2>2, FS_EmptySet DEF OneBrowser, Live
  <2>3. CASE B # {}
    <3>1. PICK l \in B : TRUE
      BY <2>3
    <3>2. B = {l}
      BY <2>1, <3>1
    <3> QED BY <2>1, <3>2, FS_Singleton DEF OneBrowser, Live
  <2> QED BY <2>2, <2>3
<1> QED BY <1>1, Invariance, PTL

\* A login shown as connected has a provider on a live headless browser.
THEOREM ConnectedHasABrowser ==
  ASSUME ~Overlap
  PROVE  Spec => []ConnectedIsBacked
<1>1. ASSUME IInv PROVE ConnectedIsBacked
  <2>1. SUFFICES ASSUME NEW l \in Calls, l = logins, st[l] = "connected" \/ auth[l],
                        wpc \notin Logging \cup {"exit"}
                 PROVE  prov[l] /\ ctx[l] = "headless"
    BY DEF ConnectedIsBacked
  <2>2. st[l] # "logged_out" /\ logins # NoLogin
    BY <1>1, <2>1, CallsAssumption DEF IInv, CoreInv, BackedInv
  <2>3. st[logins] = "connected"
    BY <1>1, <2>1, <2>2 DEF IInv, CoreInv, BackedInv
  <2> QED BY <1>1, <2>1, <2>2, <2>3 DEF IInv, CoreInv, BackedInv, Backed
<1> QED BY <1>1, Invariance, PTL

\* A window has no provider behind it, so the needs_user branch of _tick goes on
\* to watch it: what WindowIsWatched sets aside, a client that waits never meets.
THEOREM WindowsHaveNoProvider ==
  ASSUME ~Overlap
  PROVE  Spec => [](\A l \in Calls : ctx[l] = "window" => ~prov[l])
<1>1. IInv => \A l \in Calls : ctx[l] = "window" => ~prov[l]
  BY DEF IInv, CoreInv, BackedInv
<1> QED BY <1>1, Invariance, PTL

\* A connected login shows the chats of the account that is logged in only.
THEOREM ChatsAreOfTheAccount ==
  ASSUME ~Overlap
  PROVE  Spec => []AccountMatches
<1>1. IInv => AccountMatches
  BY DEF IInv, CoreInv, AccountInv
<1> QED BY <1>1, Invariance, PTL

\* When a logout is done, no row, chats, sealed session or profile is left.
THEOREM LogoutLeavesNothing ==
  ASSUME ~Overlap
  PROVE  Spec => LogoutWipes
<1>1. ASSUME IInv, [Next]_vars, wpc = "lo_pop", wpc' = "tick" PROVE Wiped'
  <2>1. Wiped
    BY <1>1 DEF IInv, CoreInv, LogoutInv, Wiped
  <2>2. LogoutPop
    <3>1. ~\E c \in Calls : Connect(c)
      BY <1>1 DEF Connect, ConnectCheck, ConnectRegister, ConnectUpsert, ConnectClose,
                  ConnectOpen, worker
    <3>2. ~(Logout \/ Shutdown \/ Environment \/ UNCHANGED vars)
      BY <1>1 DEF Logout, Shutdown, Environment, UserLogsIn, UserClosesWindow,
                  SessionExpires, Restart, vars, worker
    <3>3. ~(Loop \/ DoOpen \/ CheckLogin)
      BY <1>1 DEF Loop, DoOpen, CheckLogin, TakeOpen, TakeLogout, TakeClose,
           TakeNothing, ExitLoop, Tick, TickNotDue, WriteRow, Take, At, Launch,
           LaunchFails, ProbeSession, ProbeQr, ProbePassword, ProbeFails,
           OpenWindow, OpenWindowFails, CheckClosed, CheckNotYet, CheckGivesUp,
           CheckLoggedIn, CheckFails, Takeover, TakeoverFails
    <3>4. ~(DoEstablish \/ SyncNow)
      BY <1>1 DEF DoEstablish, SyncNow, EstablishWipe, EstablishUpsert, Establish,
           MarkConnected, SyncDone, SyncRefused, SyncFails, SyncNotDue, Syncing, At
    <3>5. DoLogout
      BY <1>1, <3>1, <3>2, <3>3, <3>4 DEF Next, Worker
    <3> QED BY <1>1, <3>5 DEF DoLogout, LogoutClose, LogoutDelete, LogoutWipe,
                              LogoutRmtree, At
  <2> QED BY <2>1, <2>2 DEF LogoutPop, Wiped, disk
<1>2. IInv /\ [Next]_vars => [wpc = "lo_pop" /\ wpc' = "tick" => Wiped']_vars
  BY <1>1
<1> QED BY <1>2, Invariance, PTL DEF Spec, LogoutWipes

\* Every open command finds the login it was queued for, still unopened.
THEOREM OpensAreNotLost ==
  ASSUME ~Overlap
  PROVE  Spec => OpenFindsItsLogin
<1>1. ASSUME IInv, OpenTaken
      PROVE  /\ logins # NoLogin /\ st[logins] = "opening_browser"
             /\ ctx[logins] = "none" /\ ~prov[logins]
  <2>1. 1 \in 1..Len(q) /\ q[1].cmd = "open"
    BY <1>1 DEF OpenTaken, IInv, TypeOK
  <2> QED BY <1>1, <2>1 DEF IInv, CoreInv, QueueInv, Fresh
<1>2. IInv => [OpenTaken => /\ logins # NoLogin
                            /\ st[logins] = "opening_browser"
                            /\ ctx[logins] = "none" /\ ~prov[logins]]_vars
  BY <1>1
<1> QED BY <1>2, Invariance, PTL DEF OpenFindsItsLogin
-----------------------------------------------------------------------------
(* The row, for any client. *)

\* An entry of the queue that stays keeps what is asked for.
LEMMA ReopensStays ==
  ASSUME TypeOK, Reopens, UNCHANGED cpc,
         \/ UNCHANGED q
         \/ \E x \in Commands : q' = Append(q, x)
         \/ q # <<>> /\ Head(q).cmd # "open" /\ q' = Tail(q)
  PROVE  Reopens'
<1>1. q \in Seq(Commands) /\ Len(q) \in Nat
  BY DEF TypeOK
<1>2. CASE \E c \in Calls : cpc[c] \in {"upsert", "close", "open"}
  BY <1>2 DEF Reopens
<1>3. ASSUME NEW i \in 1..Len(q), q[i].cmd = "open"
      PROVE  \E j \in 1..Len(q') : q'[j].cmd = "open"
  <2>1. CASE UNCHANGED q
    BY <1>3, <2>1
  <2>2. ASSUME NEW x \in Commands, q' = Append(q, x)
        PROVE  \E j \in 1..Len(q') : q'[j].cmd = "open"
    <3>1. i \in 1..Len(q') /\ q'[i] = q[i]
      BY <1>1, <2>2
    <3> QED BY <1>3, <3>1
  <2>3. CASE q # <<>> /\ Head(q).cmd # "open" /\ q' = Tail(q)
    <3>1. i # 1
      BY <1>1, <1>3, <2>3
    <3>2. i - 1 \in 1..Len(q') /\ q'[i - 1] = q[i]
      BY <1>1, <2>3, <3>1
    <3> QED BY <1>3, <3>2
  <2> QED BY <2>1, <2>2, <2>3
<1> QED BY <1>2, <1>3 DEF Reopens

\* connect() writes the row before it queues its open.
LEMMA RowConnect ==
  ASSUME TypeOK, RowInv, NEW c \in Calls, Connect(c)
  PROVE  RowInv'
<1> USE DEF TypeOK, RowInv, CallStep, mem, worker, disk, Handling
<1>1. CASE ConnectCheck(c)
  <2>1. UNCHANGED <<logins, q, mem, worker, disk>>
        /\ \A d \in Calls : cpc[d] \notin {"idle", "register"} => cpc'[d] = cpc[d]
    BY <1>1 DEF ConnectCheck
  <2>2. Reopens => Reopens'
    BY <2>1 DEF Reopens
  <2> QED BY <2>1, <2>2
<1>2. CASE ConnectRegister(c)
  <2>1. cpc'[c] = "upsert" /\ UNCHANGED <<mem, worker, disk>>
    BY <1>2 DEF ConnectRegister
  <2> QED BY <2>1 DEF Reopens
<1>3. CASE ConnectUpsert(c)
  <2>1. /\ cpc'[c] \in {"close", "open"} /\ row' = "opening_browser"
        /\ UNCHANGED <<logins, mem, worker>>
    BY <1>3 DEF ConnectUpsert
  <2> QED BY <2>1 DEF Reopens, NoRow
<1>4. CASE ConnectClose(c)
  <2>1. /\ cpc'[c] = "open" /\ UNCHANGED <<logins, mem, worker, disk>>
        /\ \A d \in Calls : cpc[d] = "upsert" => cpc'[d] = "upsert"
    BY <1>4 DEF ConnectClose
  <2> QED BY <2>1 DEF Reopens
<1>5. CASE ConnectOpen(c)
  <2>1. /\ q' = Append(q, Command("open", NoLogin))
        /\ UNCHANGED <<logins, mem, worker, disk>>
        /\ \A d \in Calls : cpc[d] = "upsert" => cpc'[d] = "upsert"
    BY <1>5 DEF ConnectOpen
  <2>2. Len(q') \in 1..Len(q') /\ q'[Len(q')].cmd = "open"
    BY <2>1 DEF Command
  <2>3. Reopens'
    BY <2>2 DEF Reopens
  <2> QED BY <2>1, <2>3
<1> QED BY <1>1, <1>2, <1>3, <1>4, <1>5 DEF Connect

\* The worker writes the row last, whichever way a handler ends.
LEMMA RowWorker ==
  ASSUME TypeOK, RowInv, Worker
  PROVE  RowInv'
<1> USE DEF TypeOK, At, Goto, Outside, mem, client, disk, worker
<1>1. CASE TakeOpen
  <2>1. /\ cur' = logins /\ UNCHANGED <<logins, mem, row, cpc>> /\ wpc = "get"
        /\ wpc' = IF logins = NoLogin THEN "tick" ELSE "launch"
    BY <1>1 DEF TakeOpen, Take
  <2> QED BY <2>1 DEF RowInv, Handling, Logging
<1>2. CASE TakeLogout
  <2>1. /\ cur' = logins /\ UNCHANGED <<logins, mem, row, cpc>> /\ wpc = "get"
        /\ wpc' = IF logins = NoLogin THEN "tick" ELSE "lo_close"
    BY <1>2 DEF TakeLogout, Take
  <2> QED BY <2>1 DEF RowInv, Handling, Logging
<1>3. CASE TakeClose
  <2>1. /\ wpc = "get" /\ wpc' = "tick" /\ UNCHANGED <<logins, st, row, cur, pend, cpc>>
        /\ q # <<>> /\ Head(q).cmd # "open" /\ q' = Tail(q)
    BY <1>3 DEF TakeClose, Take
  <2>2. Reopens => Reopens'
    BY <2>1, ReopensStays
  <2> QED BY <2>1, <2>2 DEF RowInv, Handling, Logging
<1>4. ASSUME UNCHANGED <<q, cpc, logins>>
      PROVE  /\ Reopens' = Reopens
             /\ (\E c \in Calls : cpc[c] = "upsert") <=> \E c \in Calls : cpc'[c] = "upsert"
  BY <1>4 DEF Reopens
<1>5. CASE TakeNothing
  BY <1>4, <1>5 DEF TakeNothing, RowInv, Handling, Logging
<1>6. CASE ExitLoop
  BY <1>6 DEF ExitLoop, RowInv, Handling
<1>7. CASE Tick
  BY <1>4, <1>7 DEF Tick, Watched, RowInv, Handling, Logging
<1>8. CASE TickNotDue
  BY <1>4, <1>8 DEF TickNotDue, RowInv, Handling, Logging
<1>9. CASE WriteRow
  <2>1. /\ wpc = "row" /\ wpc' = pend.next /\ UNCHANGED <<logins, st, cur, q, cpc>>
        /\ row' = IF row = NoRow THEN NoRow ELSE pend.row
    BY <1>9 DEF WriteRow
  <2>2. /\ cur \in Calls /\ pend.row = st[cur] /\ st[cur] # NoRow
        /\ wpc' \in {"get", "tick", "wipe", "takeover", "mark"}
    BY <2>1 DEF RowInv, Handling, States, NoRow
  <2>3. logins # NoLogin => (row = NoRow => Reopens) /\ (Reopens \/ cur = logins)
    BY <2>1 DEF RowInv, Reopens, Handling, Logging
  <2>4. logins # NoLogin /\ ~Reopens' => cur = logins /\ row' = st[logins]
    BY <1>4, <2>1, <2>2, <2>3
  <2>5. logins # NoLogin /\ row' = NoRow => \E c \in Calls : cpc'[c] = "upsert"
    BY <2>1, <2>2 DEF RowInv
  <2> QED BY <2>1, <2>2, <2>4, <2>5 DEF RowInv, Handling, Logging
<1>10. CASE DoOpen
  BY <1>4, <1>10 DEF DoOpen, Launch, LaunchFails, ProbeSession, ProbeQr, ProbePassword,
     ProbeFails, OpenWindow, OpenWindowFails, Fail, SetState, RowInv, Handling, Logging
<1>11. CASE CheckLogin
  BY <1>4, <1>11 DEF CheckLogin, CheckClosed, CheckNotYet, CheckGivesUp, CheckLoggedIn,
     CheckFails, Takeover, TakeoverFails, Fail, SetState, RowInv, Handling, Logging
<1>12. CASE DoEstablish
  BY <1>4, <1>12 DEF DoEstablish, EstablishWipe, EstablishUpsert, Establish, MarkConnected,
     Fail, SetState, RowInv, Handling, Logging, NoRow
<1>13. CASE SyncNow
  BY <1>4, <1>13 DEF SyncNow, SyncDone, SyncRefused, SyncFails, SyncNotDue, Syncing,
     AfterSync, Fail, SetState, RowInv, Handling, Logging, NoRow
<1>14. CASE LogoutClose \/ LogoutDelete \/ LogoutWipe \/ LogoutRmtree
  BY <1>4, <1>14 DEF LogoutClose, LogoutDelete, LogoutWipe, LogoutRmtree, CloseContext,
     RowInv, Handling, Logging
<1>15. CASE LogoutPop
  BY <1>15 DEF LogoutPop, RowInv, Handling, Logging
<1> QED
  BY <1>1, <1>2, <1>3, <1>5, <1>6, <1>7, <1>8, <1>9, <1>10, <1>11, <1>12, <1>13, <1>14,
     <1>15 DEF Worker, Loop, DoLogout

\* When nothing is under way, the row in SQLite says the state of the login,
\* however the clients' calls, the worker and a crash overlap.
THEOREM StoredStateAgrees == Spec => []RowAgrees
<1>1. Init => RowInv
  BY CallsAssumption DEF Init, RowInv, Handling, NoPend
<1>2. TypeInv /\ RowInv /\ [Next]_vars => RowInv'
  <2> SUFFICES ASSUME TypeOK, RowInv, [Next]_vars PROVE RowInv'
    BY DEF TypeInv
  <2>1. ASSUME NEW c \in Calls, Connect(c) PROVE RowInv'
    BY <2>1, RowConnect
  <2>2. CASE Worker
    BY <2>2, RowWorker
  <2>3. CASE Logout \/ Shutdown
    <3>1. /\ UNCHANGED <<logins, st, worker, cpc, row>>
          /\ \E x \in Commands : q' = Append(q, x)
      BY <2>3 DEF Logout, Shutdown, mem, client, disk, Command, Commands
    <3>2. Reopens => Reopens'
      BY <3>1, ReopensStays
    <3> QED BY <3>1, <3>2 DEF RowInv, Handling, worker
  <2>4. CASE UserLogsIn \/ UserClosesWindow \/ SessionExpires \/ UNCHANGED vars
    <3>1. UNCHANGED <<logins, st, q, worker, cpc, row>>
      BY <2>4 DEF UserLogsIn, UserClosesWindow, SessionExpires, vars, mem, client,
         disk, Outside
    <3> QED BY <3>1 DEF RowInv, Reopens, Handling, worker
  <2>5. CASE Restart
    BY <2>5 DEF Restart, RowInv, Handling, NoPend
  <2> QED BY <2>1, <2>2, <2>3, <2>4, <2>5 DEF Next, Environment
<1>3. ASSUME TypeOK, RowInv PROVE RowAgrees
  <2> SUFFICES ASSUME Quiet, logins # NoLogin PROVE row = st[logins]
    BY DEF RowAgrees
  <2>1. ~Reopens
    BY DEF Quiet, InFlight, Reopens
  <2> QED BY <1>3, <2>1 DEF RowInv, Quiet, Logging
<1>4. TypeInv /\ RowInv => RowAgrees
  BY <1>3 DEF TypeInv
<1> QED BY <1>1, <1>2, <1>4, TypeInit, TypeNext, PTL DEF Spec
=============================================================================
