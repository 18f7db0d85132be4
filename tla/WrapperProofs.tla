---------------------------- MODULE WrapperProofs ---------------------------
(***************************************************************************)
(* TLAPS proofs about the page (Page) and the pane of one thread in it     *)
(* (Pane).                                                                 *)
(*                                                                         *)
(* Page, for any number of accounts, connect requests and requests that    *)
(* fail: the user always has something to do or to wait for, and the page  *)
(* adds nothing to what the service may do.  CanAlwaysAct is not           *)
(* inductive.  A click on logout stops the timer and changes nothing else  *)
(* until its answer comes: it must be known that the view with that button *)
(* comes with its tab.  And connect requests have to be counted by numbers *)
(* for "none on the way" to mean something.                                *)
(*                                                                         *)
(* Pane, for any threads, messages, limit, and any number of requests on   *)
(* the way, served and answered in any order: it never takes an answer for *)
(* what it shows when it is not (SkippedIsShown).  The signature does not  *)
(* determine the messages: it does for answers to messages() only.  Each   *)
(* is the lower end of what was stored when it was served, and what is     *)
(* stored only grows; so of two answers for a thread the earlier one has,  *)
(* up to the last message of the later one, nothing that one has not       *)
(* (Before).  With the same last message the earlier one is part of the    *)
(* later, and with the same number it is the same.                         *)
(***************************************************************************)
EXTENDS Page, Pane, NumberFacts

-----------------------------------------------------------------------------
(* The page.                                                               *)

PageTypeOK ==
    /\ phase \in Phases /\ asked \in BOOLEAN
    /\ who \in Accounts \cup {NoAccount} /\ chats \subseteq Accounts \cup {NoAccount}
    /\ lid \in BOOLEAN /\ view \in Views /\ actions \in BOOLEAN /\ tab \in BOOLEAN
    /\ poll \in Timers \cup {"none"} /\ leaked \subseteq Timers
    /\ conn \in [sent : Nat, served : Nat]
    /\ lout \in {"none", "sent", "served"}
    /\ stat \in {"none", "sent"} \cup Phases
    /\ errs \in Nat

\* The chats are only shown while their tab is enabled: a logout is asked for
\* from there.
ChatsHaveTheirTab == view = "chats" => tab

\* What is inductive.
PageInv == PageTypeOK /\ ChatsHaveTheirTab /\ CanAlwaysAct

-----------------------------------------------------------------------------
\* The connect button is there at the start.
LEMMA PageInitially == ServiceInit /\ PageInit => PageInv
<1> SUFFICES ASSUME ServiceInit, PageInit PROVE PageInv
    OBVIOUS
<1>1. conn \in [sent : Nat, served : Nat]
      BY DEF PageInit
<1> QED
      BY <1>1 DEF ServiceInit, PageInit, PageInv, PageTypeOK, ChatsHaveTheirTab,
                  CanAlwaysAct, Phases, Views, Timers

\* What the bridge does keeps the types of what it promises.
LEMMA ServiceTypes ==
    ASSUME PageTypeOK, ServiceNext
    PROVE  /\ phase' \in Phases /\ asked' \in BOOLEAN
           /\ who' \in Accounts \cup {NoAccount}
           /\ chats' \subseteq Accounts \cup {NoAccount}
BY DEF PageTypeOK, ServiceNext, Connect, AskUser, UserLogsIn, SessionFound, GiveUp, Wipe,
       Receive, Established, Expire, Fail, AskLogout, ForgetChats, ForgetSession, Leave,
       NobodyToLeave, ServiceRestart, Move, MayReceive, Phases

\* Every step of the page and of the bridge behind it is one of the service, or
\* none of it.
LEMMA PageServes == ASSUME PageNext PROVE [ServiceNext]_service
BY DEF PageNext, ClickConnect, ServeConnect, AnswerConnect, ConnectFails, StatusTimer,
       ServeStatus, AnswerStatus, StatusFails, ClickLogout, ServeLogout, AnswerLogout,
       LogoutFails, ClickTab, BridgeSteps, ServiceNext

\* Every event of the page's script.
LEMMA PageSteps == PageInv /\ [PageNext]_<<service, page>> => PageInv'
<1> SUFFICES ASSUME PageInv, [PageNext]_<<service, page>> PROVE PageInv'
    OBVIOUS
<1> USE DEF PageInv, PageTypeOK, ChatsHaveTheirTab, CanAlwaysAct, widgets, timers, Views,
            Timers, Running, Show, LoggedOut
<1>0. ASSUME PageNext
      PROVE  /\ phase' \in Phases /\ asked' \in BOOLEAN
             /\ who' \in Accounts \cup {NoAccount}
             /\ chats' \subseteq Accounts \cup {NoAccount}
  <2>1. [ServiceNext]_service
        BY <1>0, PageServes
  <2> QED
        BY <2>1, ServiceTypes DEF service
<1>1. CASE ClickConnect
  <2>1. /\ conn' \in [sent : Nat, served : Nat]
        /\ conn'.sent = conn.sent + 1 /\ conn'.served = conn.served
        BY <1>1 DEF ClickConnect
  <2>2. conn'.sent + conn'.served # 0
        BY <2>1
  <2> QED
        BY <1>0, <1>1, <2>1, <2>2 DEF ClickConnect, PageNext
<1>2. CASE ServeConnect
      BY <1>0, <1>2 DEF ServeConnect, PageNext
<1>3. CASE AnswerConnect
      BY <1>0, <1>3 DEF AnswerConnect, PageNext
<1>4. CASE ConnectFails
      BY <1>0, <1>4 DEF ConnectFails, RequestFails, PageNext
<1>5. CASE StatusTimer
      BY <1>0, <1>5 DEF StatusTimer, PageNext
<1>6. CASE ServeStatus
      BY <1>0, <1>6 DEF ServeStatus, PageNext
<1>7. CASE AnswerStatus
      BY <1>0, <1>7 DEF AnswerStatus, PageNext
<1>8. CASE StatusFails
      BY <1>0, <1>8 DEF StatusFails, RequestFails, PageNext
<1>9. CASE ClickLogout
      BY <1>0, <1>9 DEF ClickLogout, PageNext
<1>10. CASE ServeLogout
      BY <1>0, <1>10 DEF ServeLogout, PageNext
<1>11. CASE AnswerLogout
      BY <1>0, <1>11 DEF AnswerLogout, PageNext
<1>12. CASE LogoutFails
      BY <1>0, <1>12 DEF LogoutFails, RequestFails, PageNext
<1>13. CASE ClickTab
      BY <1>0, <1>13 DEF ClickTab, PageNext
<1>14. CASE BridgeSteps
      BY <1>0, <1>14 DEF BridgeSteps, page, PageNext
<1>15. CASE UNCHANGED <<service, page>>
      BY <1>15 DEF service, page
<1> QED
      BY <1>1, <1>2, <1>3, <1>4, <1>5, <1>6, <1>7, <1>8, <1>9, <1>10, <1>11, <1>12,
         <1>13, <1>14, <1>15 DEF PageNext

-----------------------------------------------------------------------------
\* The page's types, that the chats have their tab, and CanAlwaysAct.
THEOREM PageInvariant == PageSpec => []PageInv
BY PageInitially, PageSteps, PTL DEF PageSpec

\* While no connect request is on the way the user is never left with a hidden
\* button and a timer that has stopped, whatever failed or came late.
THEOREM UserCanAlwaysAct == PageSpec => []CanAlwaysAct
<1>1. PageInv => CanAlwaysAct
      BY DEF PageInv
<1> QED
      BY <1>1, PageInvariant, PTL

\* The page uses the service as it is: what is promised to overlapping calls, and
\* what LiveBridge is proved to implement, is all that it needs.
THEOREM PageUsesTheService == PageSpec => ServiceSpec
<1>1. [PageNext]_<<service, page>> => [ServiceNext]_service
      BY PageServes DEF service
<1> QED
      BY <1>1, PTL DEF PageSpec, ServiceSpec

-----------------------------------------------------------------------------
(* The pane: what is inductive.                                            *)

Rows == SUBSET (1..Newest)
Tids == Threads \cup {NoThread}
GetsOf == [tid : Tids, by : {"open", "refresh", "older"}, more : BOOLEAN,
           rows : Rows, answered : BOOLEAN]
Jobs == [tid : Threads, waited : BOOLEAN]

PaneTypeOK ==
    /\ db \in [Threads -> Rows]
    /\ cur \in Tids
    /\ shown \in [tid : Tids, rows : Rows]
    /\ gets \subseteq GetsOf
    /\ jobs \in Seq(Jobs)
    /\ answers \subseteq [added : BOOLEAN, more : BOOLEAN]
    /\ login \in {"in", "leaving", "out"}

\* Once the login is out nothing is stored, until somebody logs in again.
NothingIsLeft == login = "out" => \A t \in Threads : db[t] = {}

\* Nothing is open and nothing on the way: only then can the next login begin.
AtRest == cur = NoThread /\ gets = {} /\ jobs = <<>> /\ answers = {}

\* What was answered, and what is shown of a thread, is stored; not so of what a
\* logout has wiped, nor, until a thread is opened, of what was shown before it.
AnswersAreStored ==
    login # "out" =>
        /\ \A g \in gets : g.answered /\ g.tid # NoThread => g.rows \subseteq db[g.tid]
        /\ sig # NoSig /\ shown.tid # NoThread /\ ~AtRest => shown.rows \subseteq db[shown.tid]

\* Of two answers, a may be the earlier one: up to the last message of b it has
\* none that b has not.
Before(a, b) == \A x \in a : (\E y \in b : x <= y) => x \in b
Ordered(a, b) == Before(a, b) \/ Before(b, a)

AnswersAreOrdered ==
    /\ \A g, h \in gets : g.answered /\ h.answered /\ g.tid = h.tid => Ordered(g.rows, h.rows)
    /\ sig # NoSig =>
         \A g \in gets : g.answered /\ g.tid = shown.tid => Ordered(g.rows, shown.rows)

\* LAST_RENDER is of what is shown, or of nothing, but for the placeholder that a
\* logout puts in the pane.
Cleared == cur = NoThread /\ shown = Placeholder
SigIsOfShown == sig \in {NoSig, Signature(shown.tid, shown.rows)} \/ Cleared

PaneInv ==
    /\ PaneTypeOK /\ NothingIsLeft
    /\ AnswersAreStored /\ AnswersAreOrdered /\ SigIsOfShown

-----------------------------------------------------------------------------
(* Sets of messages.                                                       *)

\* They are finite.
LEMMA RowsAreFinite ==
    ASSUME NEW a \in Rows
    PROVE  IsFiniteSet(a) /\ Cardinality(a) \in Nat
<1>1. IsFiniteSet(1..Newest)
      BY PaneAssumption, FS_Interval
<1> QED
      BY <1>1, FS_Subset, FS_CardinalityType DEF Rows

\* messages() answers the lower end of what is stored.
LEMMA AnswerIsLowerEnd ==
    ASSUME NEW d \in [Threads -> Rows], db = d, NEW t \in Threads
    PROVE  /\ MessagesOf(t) \subseteq db[t] /\ MessagesOf(t) \in Rows
           /\ \A x \in db[t] : (\E y \in MessagesOf(t) : x <= y) => x \in MessagesOf(t)
<1> t # NoThread
      BY PaneAssumption
<1>1. MessagesOf(t) \subseteq db[t] /\ db[t] \in Rows
      BY DEF MessagesOf
<1>2. ASSUME NEW x \in db[t], NEW y \in MessagesOf(t), x <= y
      PROVE  x \in MessagesOf(t)
  <2> DEFINE upTo(z) == {j \in db[t] : j <= z}
  <2>1. upTo(x) \in Rows /\ upTo(y) \in Rows
        BY <1>1 DEF Rows
  <2>2. upTo(x) \subseteq upTo(y)
    <3>1. x \in Nat /\ y \in Nat /\ db[t] \subseteq Nat
          BY <1>1, PaneAssumption DEF Rows
    <3> QED
          BY <1>2, <3>1
  <2>3. Cardinality(upTo(x)) <= Cardinality(upTo(y))
        BY <2>1, <2>2, RowsAreFinite, FS_Subset
  <2>4. Cardinality(upTo(y)) <= Limit
        BY DEF MessagesOf
  <2>5. Cardinality(upTo(x)) \in Nat /\ Cardinality(upTo(y)) \in Nat
        BY <2>1, RowsAreFinite
  <2> HIDE DEF upTo
  <2>6. Cardinality(upTo(x)) <= Limit
        BY <2>3, <2>4, <2>5, PaneAssumption
  <2> QED
        BY <2>6 DEF MessagesOf, upTo
<1> QED
      BY <1>1, <1>2 DEF Rows

\* So every answer that was stored before is the earlier one.
LEMMA AnswerIsLater ==
    ASSUME NEW d \in [Threads -> Rows], db = d, NEW t \in Threads,
           NEW a, a \subseteq db[t]
    PROVE  Ordered(a, MessagesOf(t))
BY AnswerIsLowerEnd DEF Ordered, Before

\* The last message.
LEMMA MaxIsLast ==
    ASSUME NEW a \in Rows, a # {}
    PROVE  Max(a) \in a /\ \A x \in a : x <= Max(a)
<1>1. a \subseteq 0..Newest
      BY PaneAssumption DEF Rows
<1>2. Max(a) \in a /\ \A x \in a : Max(a) >= x
      BY <1>1, PaneAssumption, MaxOf
<1> QED
      BY <1>1, <1>2, PaneAssumption

\* The argument: same thread, number and last message, and one may be earlier.
LEMMA SignatureDetermines ==
    ASSUME NEW a \in Rows, NEW b \in Rows, a # {}, Ordered(a, b),
           NEW s, NEW t, Signature(s, a) = Signature(t, b)
    PROVE  s = t /\ a = b
<1>1. s = t /\ Cardinality(a) = Cardinality(b)
      BY DEF Signature
<1>2. b # {}
      BY <1>1, RowsAreFinite, FS_EmptySet
<1>3. Max(a) = Max(b)
      BY <1>2 DEF Signature
<1>4. CASE Before(a, b)
  <2>1. a \subseteq b
        BY <1>2, <1>3, <1>4, MaxIsLast DEF Before
  <2> QED
        BY <1>1, <2>1, RowsAreFinite, FS_Subset
<1>5. CASE Before(b, a)
  <2>1. b \subseteq a
        BY <1>2, <1>3, <1>5, MaxIsLast DEF Before
  <2> QED
        BY <1>1, <2>1, RowsAreFinite, FS_Subset
<1> QED
      BY <1>4, <1>5 DEF Ordered

-----------------------------------------------------------------------------
(* The invariant.                                                          *)

\* What a first sync stores are messages.
LEMMA SyncedIsTyped == Synced \in [Threads -> Rows]
<1>1. \A t \in Threads : (IF t \in Whole THEN 1..Newest ELSE Stored) \in Rows
      BY PaneAssumption DEF Rows
<1> QED
      BY <1>1 DEF Synced

\* Nothing was asked yet.
LEMMA PaneInitially == PaneInit => PaneInv
<1> SUFFICES ASSUME PaneInit PROVE PaneInv
    OBVIOUS
<1>1. PaneTypeOK
      BY SyncedIsTyped, PaneAssumption DEF PaneInit, PaneTypeOK, Rows, Tids, Placeholder
<1> QED
      BY <1>1, PaneAssumption
      DEF PaneInit, PaneInv, NothingIsLeft, AnswersAreStored, AnswersAreOrdered, SigIsOfShown

\* While no answer comes, what is said of answers stays true, whatever requests
\* are sent or lost; a thread that is opened makes LAST_RENDER empty.
LEMMA RequestsKeep ==
    ASSUME PaneInv, UNCHANGED <<db, shown, login>>,
           UNCHANGED sig \/ sig' = NoSig,
           \A g \in gets' : g.answered => g \in gets,
           AtRest => AtRest' \/ sig' = NoSig
    PROVE  NothingIsLeft' /\ AnswersAreStored' /\ AnswersAreOrdered'
<1>1. NothingIsLeft'
      BY DEF PaneInv, NothingIsLeft
<1>2. AnswersAreStored'
      BY DEF PaneInv, AnswersAreStored
<1>3. AnswersAreOrdered'
      BY DEF PaneInv, AnswersAreOrdered
<1> QED
      BY <1>1, <1>2, <1>3

\* A request that is sent has no answer yet.
LEMMA SendKeeps ==
    ASSUME PaneTypeOK, NEW t \in Tids, NEW by \in {"open", "refresh", "older"},
           NEW more \in BOOLEAN, Send(Get(t, by, more))
    PROVE  gets' \subseteq GetsOf /\ \A g \in gets' : g.answered => g \in gets
<1>1. /\ Get(t, by, more) \in GetsOf /\ ~Get(t, by, more).answered
      /\ gets' = gets \cup {Get(t, by, more)}
      BY DEF Send, Get, GetsOf, Rows
<1> HIDE DEF Get
<1> QED
      BY <1>1 DEF PaneTypeOK

\* What is stored only grows, until the logout: what was stored still is.
LEMMA GrowthKeeps ==
    ASSUME PaneInv, UNCHANGED <<gets, shown, sig, login>>, AtRest => AtRest',
           db' \in [Threads -> Rows], \A t \in Threads : db[t] \subseteq db'[t]
    PROVE  AnswersAreStored' /\ AnswersAreOrdered'
<1>1. AnswersAreStored'
      BY DEF PaneInv, PaneTypeOK, GetsOf, Tids, AnswersAreStored
<1>2. AnswersAreOrdered'
      BY DEF PaneInv, AnswersAreOrdered
<1> QED
      BY <1>1, <1>2

\* A new answer is later than all there are of its thread, or has no messages.
LEMMA ServeKeeps ==
    ASSUME PaneInv, UNCHANGED <<db, cur, shown, sig, login>>,
           NEW g \in gets, ~g.answered,
           gets' = (gets \ {g}) \cup
                   {[g EXCEPT !.answered = TRUE, !.rows = MessagesOf(g.tid)]}
    PROVE  gets' \subseteq GetsOf /\ AnswersAreStored' /\ AnswersAreOrdered'
<1> USE DEF PaneInv
<1> DEFINE new == [g EXCEPT !.answered = TRUE, !.rows = MessagesOf(g.tid)]
<1>1. g \in GetsOf /\ g.tid \in Tids /\ db \in [Threads -> Rows] /\ ~AtRest
      BY DEF PaneTypeOK, GetsOf, AtRest
<1>2. CASE g.tid = NoThread \/ login = "out"
  <2>1. MessagesOf(g.tid) = {}
        BY <1>1, <1>2 DEF MessagesOf, NothingIsLeft, Tids
  <2>2. new \in GetsOf /\ new.tid = g.tid /\ new.rows = {}
        BY <1>1, <2>1 DEF GetsOf, Rows
  <2> HIDE DEF new
  <2>3. \A h \in gets' : h = new \/ h \in gets
        BY DEF new
  <2>4. gets' \subseteq GetsOf
        BY <2>2, <2>3 DEF PaneTypeOK
  <2>5. AnswersAreStored'
        BY <1>1, <2>2, <2>3 DEF AnswersAreStored
  <2>6. \A a : Ordered(a, new.rows) /\ Ordered(new.rows, a)
        BY <2>2 DEF Ordered, Before
  <2>7. AnswersAreOrdered'
        BY <2>3, <2>6 DEF AnswersAreOrdered
  <2> QED
        BY <2>4, <2>5, <2>7
<1>3. CASE g.tid # NoThread /\ login # "out"
  <2>1. g.tid \in Threads
        BY <1>1, <1>3 DEF Tids
  <2>2. MessagesOf(g.tid) \in Rows /\ MessagesOf(g.tid) \subseteq db[g.tid]
        BY <1>1, <2>1, AnswerIsLowerEnd
  <2>3. new \in GetsOf /\ new.tid = g.tid /\ new.rows = MessagesOf(g.tid)
        BY <1>1, <2>2 DEF GetsOf
  <2> HIDE DEF new
  <2>4. \A h \in gets' : h = new \/ h \in gets
        BY DEF new
  <2>5. gets' \subseteq GetsOf
        BY <2>3, <2>4 DEF PaneTypeOK
  <2>6. AnswersAreStored'
        BY <1>1, <2>2, <2>3, <2>4 DEF AnswersAreStored
  <2>7. \A a : a \subseteq db[g.tid] => Ordered(a, new.rows) /\ Ordered(new.rows, a)
        BY <1>1, <2>1, <2>3, AnswerIsLater DEF Ordered
  <2>8. AnswersAreOrdered'
    <3>1. ASSUME NEW h \in gets', NEW k \in gets', h.answered, k.answered, h.tid = k.tid
          PROVE  Ordered(h.rows, k.rows)
      <4>1. CASE h \in gets /\ k \in gets
            BY <3>1, <4>1 DEF AnswersAreOrdered
      <4>2. CASE h = new
            BY <1>3, <2>2, <2>3, <2>4, <2>7, <3>1, <4>2 DEF AnswersAreStored
      <4>3. CASE k = new
            BY <1>3, <2>2, <2>3, <2>4, <2>7, <3>1, <4>3 DEF AnswersAreStored
      <4> QED
            BY <2>4, <4>1, <4>2, <4>3
    <3>2. ASSUME NEW h \in gets', sig # NoSig, h.answered, h.tid = shown.tid
          PROVE  Ordered(h.rows, shown.rows)
          BY <1>1, <1>3, <2>3, <2>4, <2>7, <3>2 DEF AnswersAreOrdered, AnswersAreStored
    <3> QED
          BY <3>1, <3>2 DEF AnswersAreOrdered
  <2> QED
        BY <2>5, <2>6, <2>8
<1> QED
      BY <1>2, <1>3

\* What is rendered was one of the answers; the others are in order with it.
LEMMA AnswerKeeps ==
    ASSUME PaneInv, UNCHANGED <<db, cur, login>>, NEW g \in gets, g.answered,
           NEW force \in BOOLEAN, gets' = gets \ {g}, Render(g.tid, g.rows, force)
    PROVE  /\ gets' \subseteq GetsOf /\ shown' \in [tid : Tids, rows : Rows]
           /\ NothingIsLeft' /\ AnswersAreStored' /\ AnswersAreOrdered' /\ SigIsOfShown'
<1> USE DEF PaneInv
<1>1. g \in GetsOf /\ ~AtRest
      BY DEF PaneTypeOK, AtRest
<1>2. CASE UNCHANGED <<shown, sig>>
      BY <1>1, <1>2, RequestsKeep DEF PaneTypeOK, SigIsOfShown, Cleared
<1>3. CASE /\ shown' = [tid |-> g.tid, rows |-> g.rows]
           /\ sig' = Signature(g.tid, g.rows)
  <2>1. shown' \in [tid : Tids, rows : Rows]
        BY <1>1, <1>3 DEF GetsOf
  <2>2. shown'.tid = g.tid /\ shown'.rows = g.rows
        BY <1>3
  <2>3. NothingIsLeft' /\ AnswersAreStored' /\ AnswersAreOrdered'
        BY <2>2 DEF NothingIsLeft, AnswersAreStored, AnswersAreOrdered
  <2>4. SigIsOfShown'
        BY <1>3, <2>2 DEF SigIsOfShown
  <2> QED
        BY <2>1, <2>3, <2>4 DEF PaneTypeOK
<1> QED
      BY <1>2, <1>3 DEF Render

\* What load_older is answered with.
LEMMA AnswerTypes ==
    \A added, more \in BOOLEAN : OlderAnswer(added, more) \in [added : BOOLEAN, more : BOOLEAN]
BY DEF OlderAnswer

\* A step of the page or of the bridge while the login stays as it is.
LEMMA PaneRunning ==
    ASSUME PaneInv,
           \/ Ingest \/ OpenThread \/ Refresh \/ ServeGet \/ AnswerGet \/ GetFails
           \/ ClickOlder \/ OlderTimesOut \/ RunJob \/ AnswerOlder
    PROVE  PaneInv'
<1> USE DEF PaneInv, buttons, olders, Cleared, AtRest
<1>1. CASE Ingest
  <2>1. PICK t \in Threads, i \in 1..Newest : db' = [db EXCEPT ![t] = @ \cup {i}]
        BY <1>1 DEF Ingest
  <2>2. db' \in [Threads -> Rows] /\ \A s \in Threads : db[s] \subseteq db'[s]
        BY <2>1 DEF PaneTypeOK, Rows
  <2>3. AnswersAreStored' /\ AnswersAreOrdered'
        BY <1>1, <2>2, GrowthKeeps DEF Ingest
  <2> QED
        BY <1>1, <2>2, <2>3 DEF Ingest, PaneTypeOK, NothingIsLeft, SigIsOfShown
<1>2. CASE OpenThread
  <2>1. PICK t \in Threads : cur' = t /\ Send(Get(t, "open", FALSE))
        BY <1>2 DEF OpenThread
  <2>2. gets' \subseteq GetsOf /\ \A g \in gets' : g.answered => g \in gets
        BY <2>1, SendKeeps DEF Tids
  <2>3. NothingIsLeft' /\ AnswersAreStored' /\ AnswersAreOrdered'
        BY <1>2, <2>2, RequestsKeep DEF OpenThread
  <2> QED
        BY <1>2, <2>1, <2>2, <2>3 DEF OpenThread, PaneTypeOK, Tids, SigIsOfShown
<1>3. CASE Refresh
  <2>1. cur \in Tids /\ cur # NoThread /\ Send(Get(cur, "refresh", FALSE))
        BY <1>3 DEF Refresh, PaneTypeOK
  <2>2. gets' \subseteq GetsOf /\ \A g \in gets' : g.answered => g \in gets
        BY <2>1, SendKeeps
  <2>3. NothingIsLeft' /\ AnswersAreStored' /\ AnswersAreOrdered'
        BY <1>3, <2>1, <2>2, RequestsKeep DEF Refresh
  <2> QED
        BY <1>3, <2>2, <2>3 DEF Refresh, PaneTypeOK, SigIsOfShown
<1>4. CASE ServeGet
  <2>1. gets' \subseteq GetsOf /\ AnswersAreStored' /\ AnswersAreOrdered'
        BY <1>4, ServeKeeps DEF ServeGet
  <2> QED
        BY <1>4, <2>1 DEF ServeGet, PaneTypeOK, NothingIsLeft, SigIsOfShown
<1>5. CASE AnswerGet
  <2>1. PICK g \in gets : /\ g.answered /\ gets' = gets \ {g}
                          /\ Render(g.tid, g.rows, g.by # "refresh")
        BY <1>5 DEF AnswerGet
  <2>2. UNCHANGED <<db, cur, jobs, answers, login>>
        BY <1>5 DEF AnswerGet
  <2>3. /\ gets' \subseteq GetsOf /\ shown' \in [tid : Tids, rows : Rows]
        /\ NothingIsLeft' /\ AnswersAreStored' /\ AnswersAreOrdered' /\ SigIsOfShown'
        BY <2>1, <2>2, AnswerKeeps
  <2> QED
        BY <2>2, <2>3 DEF PaneTypeOK
<1>6. CASE GetFails
  <2>1. gets' \subseteq gets /\ gets # {}
        BY <1>6 DEF GetFails
  <2>2. NothingIsLeft' /\ AnswersAreStored' /\ AnswersAreOrdered'
        BY <1>6, <2>1, RequestsKeep DEF GetFails
  <2> QED
        BY <1>6, <2>1, <2>2 DEF GetFails, PaneTypeOK, SigIsOfShown
<1>7. CASE ClickOlder
  <2>1. cur \in Threads /\ cur # NoThread /\ [tid |-> cur, waited |-> TRUE] \in Jobs
        BY <1>7 DEF ClickOlder, PaneTypeOK, Tids, Jobs
  <2>2. jobs' \in Seq(Jobs)
        BY <1>7, <2>1 DEF ClickOlder, PaneTypeOK
  <2>3. NothingIsLeft' /\ AnswersAreStored' /\ AnswersAreOrdered'
        BY <1>7, <2>1, RequestsKeep DEF ClickOlder
  <2> QED
        BY <1>7, <2>2, <2>3 DEF ClickOlder, PaneTypeOK, SigIsOfShown
<1>8. CASE OlderTimesOut
  <2>1. PICK i \in DOMAIN jobs : jobs' = [jobs EXCEPT ![i].waited = FALSE]
        BY <1>8 DEF OlderTimesOut
  <2>2. jobs' \in Seq(Jobs) /\ jobs # <<>>
    <3>1. jobs \in Seq(Jobs) /\ jobs[i] \in Jobs
          BY <2>1 DEF PaneTypeOK
    <3>2. [jobs[i] EXCEPT !.waited = FALSE] \in Jobs
          BY <3>1 DEF Jobs
    <3> QED
          BY <2>1, <3>1, <3>2
  <2>3. answers' \subseteq [added : BOOLEAN, more : BOOLEAN]
        BY <1>8, AnswerTypes DEF OlderTimesOut, PaneTypeOK
  <2>4. NothingIsLeft' /\ AnswersAreStored' /\ AnswersAreOrdered'
        BY <1>8, <2>2, RequestsKeep DEF OlderTimesOut
  <2> QED
        BY <1>8, <2>2, <2>3, <2>4 DEF OlderTimesOut, PaneTypeOK, SigIsOfShown
<1>9. CASE RunJob
  <2>1. jobs # <<>> /\ Head(jobs).tid \in Threads /\ jobs' \in Seq(Jobs)
    <3>1. jobs \in Seq(Jobs) /\ jobs # <<>> /\ jobs' = Tail(jobs)
          BY <1>9 DEF RunJob, PaneTypeOK
    <3>2. Head(jobs) \in Jobs /\ jobs' \in Seq(Jobs)
          BY <3>1
    <3> QED
          BY <3>1, <3>2 DEF Jobs
  <2>2. PICK new \in {{}, Older(Head(jobs).tid)}, more \in BOOLEAN :
          /\ login = "out" => new = {} /\ ~more
          /\ db' = [db EXCEPT ![Head(jobs).tid] = @ \cup new]
          /\ answers' = IF Head(jobs).waited THEN answers \cup {OlderAnswer(new # {}, more)}
                                             ELSE answers
        BY <1>9 DEF RunJob
  <2>3. new \in Rows
        BY <2>2 DEF Older, Rows
  <2>4. db' \in [Threads -> Rows] /\ \A t \in Threads : db[t] \subseteq db'[t]
        BY <2>1, <2>2, <2>3 DEF PaneTypeOK, Rows
  <2>5. answers' \subseteq [added : BOOLEAN, more : BOOLEAN]
    <3>1. (new # {}) \in BOOLEAN
          OBVIOUS
    <3>2. OlderAnswer(new # {}, more) \in [added : BOOLEAN, more : BOOLEAN]
          BY <3>1, AnswerTypes
    <3> QED
          BY <2>2, <3>2 DEF PaneTypeOK
  <2>6. AnswersAreStored' /\ AnswersAreOrdered'
        BY <1>9, <2>1, <2>4, GrowthKeeps DEF RunJob
  <2>7. NothingIsLeft'
        BY <1>9, <2>1, <2>2 DEF RunJob, NothingIsLeft, PaneTypeOK
  <2> QED
        BY <1>9, <2>1, <2>4, <2>5, <2>6, <2>7 DEF RunJob, PaneTypeOK, SigIsOfShown
<1>10. CASE AnswerOlder
  <2>1. PICK a \in answers :
          /\ answers' = answers \ {a}
          /\ IF a.added THEN Send(Get(cur, "older", a.more)) ELSE UNCHANGED gets
        BY <1>10 DEF AnswerOlder
  <2>2. cur \in Tids /\ a.more \in BOOLEAN
        BY DEF PaneTypeOK
  <2>3. gets' \subseteq GetsOf /\ \A g \in gets' : g.answered => g \in gets
        BY <2>1, <2>2, SendKeeps DEF PaneTypeOK
  <2>4. NothingIsLeft' /\ AnswersAreStored' /\ AnswersAreOrdered'
        BY <1>10, <2>3, RequestsKeep DEF AnswerOlder
  <2> QED
        BY <1>10, <2>1, <2>3, <2>4 DEF AnswerOlder, PaneTypeOK, SigIsOfShown
<1> QED
      BY <1>1, <1>2, <1>3, <1>4, <1>5, <1>6, <1>7, <1>8, <1>9, <1>10

\* The timer, the logout, which clears the pane and wipes what is stored, and the
\* login after it, which finds nothing on the way.
LEMMA PaneLeaving ==
    ASSUME PaneInv,
           \/ TimerStops \/ TimerStarts \/ LogoutServed \/ LogoutAnswered
           \/ ChatsWiped \/ NextLogin \/ UNCHANGED pane
    PROVE  PaneInv'
<1> USE DEF PaneInv, buttons, olders, Cleared, AtRest
<1>1. CASE TimerStops \/ TimerStarts \/ UNCHANGED pane
  <2>1. UNCHANGED <<db, cur, shown, sig, gets, jobs, answers, login>>
        BY <1>1 DEF TimerStops, TimerStarts, pane
  <2>2. NothingIsLeft' /\ AnswersAreStored' /\ AnswersAreOrdered'
        BY <2>1, RequestsKeep
  <2> QED
        BY <2>1, <2>2 DEF PaneTypeOK, SigIsOfShown
<1>2. CASE LogoutServed
  <2>1. /\ UNCHANGED <<db, cur, shown, sig, gets, jobs, answers>>
        /\ login = "in" /\ login' = "leaving"
        BY <1>2 DEF LogoutServed
  <2> QED
        BY <2>1 DEF PaneTypeOK, NothingIsLeft, AnswersAreStored, AnswersAreOrdered,
            SigIsOfShown
<1>3. CASE LogoutAnswered
  <2>1. /\ UNCHANGED <<db, sig, gets, jobs, answers, login>>
        /\ cur' = NoThread /\ shown' = Placeholder
        BY <1>3 DEF LogoutAnswered
  <2>2. shown'.tid = NoThread /\ shown'.rows = {}
        BY <2>1 DEF Placeholder
  <2>3. PaneTypeOK' /\ NothingIsLeft'
        BY <2>1 DEF PaneTypeOK, NothingIsLeft, Placeholder, Tids, Rows
  <2>4. AnswersAreStored'
        BY <2>1, <2>2 DEF AnswersAreStored
  <2>5. AnswersAreOrdered'
    <3>1. \A a : Ordered(a, {})
          BY DEF Ordered, Before
    <3> QED
          BY <2>1, <2>2, <3>1 DEF AnswersAreOrdered
  <2> QED
        BY <2>1, <2>3, <2>4, <2>5 DEF SigIsOfShown
<1>4. CASE ChatsWiped
  <2>1. /\ UNCHANGED <<cur, shown, sig, gets, jobs, answers>>
        /\ login' = "out" /\ db' = [t \in Threads |-> {}]
        BY <1>4 DEF ChatsWiped
  <2>2. PaneTypeOK' /\ NothingIsLeft'
        BY <2>1 DEF PaneTypeOK, NothingIsLeft, Rows
  <2> QED
        BY <2>1, <2>2 DEF AnswersAreStored, AnswersAreOrdered, SigIsOfShown
<1>5. CASE NextLogin
  <2>1. /\ UNCHANGED <<cur, shown, sig, gets, jobs, answers>>
        /\ login' = "in" /\ db' = Synced /\ AtRest
        BY <1>5 DEF NextLogin
  <2>2. PaneTypeOK' /\ NothingIsLeft'
        BY <2>1, SyncedIsTyped DEF PaneTypeOK, NothingIsLeft, Rows
  <2> QED
        BY <2>1, <2>2 DEF AnswersAreStored, AnswersAreOrdered, SigIsOfShown
<1> QED
      BY <1>1, <1>2, <1>3, <1>4, <1>5

\* Every step.
LEMMA PaneSteps == PaneInv /\ [PaneNext]_pane => PaneInv'
BY PaneRunning, PaneLeaving DEF PaneNext

-----------------------------------------------------------------------------
\* The invariant in every reachable state.
THEOREM PaneInvariant == PaneSpec => []PaneInv
BY PaneInitially, PaneSteps, PTL DEF PaneSpec

\* The comment on LAST_RENDER holds: what is not rendered again has not changed,
\* in whatever order requests are served and answered, through a logout and the
\* login after it; hidden is only what comes when logout() has cleared the pane.
THEOREM NothingIsHidden == PaneSpec => []SkippedIsShown
<1>1. PaneInv => SkippedIsShown
  <2> SUFFICES ASSUME PaneInv, NEW g \in gets, g.answered, g.rows # {},
                      sig = Signature(g.tid, g.rows), ~Cleared
               PROVE  shown = [tid |-> g.tid, rows |-> g.rows]
      BY DEF SkippedIsShown, Cleared
  <2> USE DEF PaneInv
  <2>1. g.rows \in Rows
        BY DEF PaneTypeOK, GetsOf
  <2>2. shown \in [tid : Tids, rows : Rows]
        BY DEF PaneTypeOK
  <2>3. sig # NoSig
    <3>1. Cardinality(g.rows) # 0
          BY <2>1, RowsAreFinite, FS_EmptySet
    <3> QED
          BY <3>1 DEF Signature, NoSig
  <2>4. Signature(g.tid, g.rows) = Signature(shown.tid, shown.rows)
        BY <2>3 DEF SigIsOfShown
  <2>5. g.tid = shown.tid
        BY <2>4 DEF Signature
  <2>6. g.rows = shown.rows
        BY <2>1, <2>2, <2>3, <2>4, <2>5, SignatureDetermines DEF AnswersAreOrdered
  <2> QED
        BY <2>2, <2>5, <2>6
<1> QED
      BY <1>1, PaneInvariant, PTL
=============================================================================
