---------------------------- MODULE IngestProofs ----------------------------
(***************************************************************************)
(* For any conversations, page sizes, numbers of messages, logins and lost *)
(* sockets: the cursors and the dedup set never run ahead of SQLite.       *)
(* CursorCovers is not inductive: that a cursor may move to the end of an  *)
(* answer depends on the answer having no gap (FetchedInv), which a        *)
(* message sent meanwhile does not make since it is the newest (SentInv),  *)
(* and on what was seen before being stored, which holds while no error    *)
(* has ended the login (SyncInv: a sync runs for no other login).          *)
(***************************************************************************)
EXTENDS Ingest, NumberFacts

\* A message's time is the number of messages when it was sent; a cursor is one.
SentInv ==
    /\ IsFiniteSet(sent)
    /\ \A m \in sent : m.ts <= Cardinality(sent)
    /\ \A c \in Convs : cursors[c] <= Cardinality(sent)

Syncing == {"load", "provider", "ingest", "fetched"} \cup Calling
SyncInv == pc \in Syncing => state \in {"connecting", "connected"}

\* The answer is all there is between the cursor and its own last message.
FetchedInv ==
    pc = "fetched" =>
        \E c \in Convs :
            /\ resp \subseteq Of(sent, c)
            /\ \A m \in Of(sent, c) :
                 cursors[c] < m.ts /\ (\E o \in resp : m.ts <= o.ts) => m \in resp

CoverInv == SentInv /\ SyncInv /\ FetchedInv /\ CursorCovers /\ SeenIsStored

IngestInv == TypeOK /\ CoverInv

-----------------------------------------------------------------------------
(* What the least and the greatest are taken of.                           *)

\* Times are in range.
LEMMA NewestType ==
    ASSUME NEW S, S \subseteq Messages
    PROVE  /\ Newest(S) \in 0..MaxSent
           /\ S # {} => /\ \E m \in S : Newest(S) = m.ts
                        /\ \A m \in S : m.ts <= Newest(S)
<1> USE SizeAssumption
<1>1. Times(S) \subseteq 0..MaxSent
      BY DEF Times, Messages
<1>2. CASE S = {}
      BY <1>2 DEF Newest
<1>3. CASE S # {}
  <2>1. Times(S) # {}
        BY <1>3 DEF Times
  <2>2. Max(Times(S)) \in Times(S) /\ \A y \in Times(S) : Max(Times(S)) >= y
        BY <1>1, <2>1, MaxOf
  <2>3. Newest(S) = Max(Times(S))
        BY <1>3 DEF Newest
  <2>4. \A m \in S : m.ts \in Times(S)
        BY DEF Times
  <2>5. \E m \in S : Newest(S) = m.ts
        BY <2>2, <2>3 DEF Times
  <2>6. \A m \in S : m.ts <= Newest(S)
        BY <1>1, <2>2, <2>3, <2>4
  <2> QED
        BY <1>1, <2>2, <2>3, <2>5, <2>6
<1> QED
      BY <1>2, <1>3

\* The larger of two times is one of them.
LEMMA LaterType ==
    ASSUME NEW a \in 0..MaxSent, NEW b \in 0..MaxSent PROVE Max({a, b}) \in 0..MaxSent
<1>1. {a, b} \subseteq 0..MaxSent /\ {a, b} # {}
      OBVIOUS
<1> QED
      BY <1>1, MaxOf, SizeAssumption

\* The history cursor is a time of what it has passed.
LEMMA OldestType ==
    ASSUME NEW S, S \subseteq Messages, NEW a \in 0..MaxSent
    PROVE  /\ S # {} => Oldest(S) \in 0..MaxSent
           /\ Min({a} \cup Times(S)) \in 0..MaxSent
<1>1. Times(S) \subseteq 0..MaxSent /\ (S # {} => Times(S) # {})
      BY SizeAssumption DEF Times, Messages
<1>2. 0..MaxSent \subseteq Nat
      BY SizeAssumption
<1>3. S # {} => Min(Times(S)) \in Times(S)
      BY <1>1, <1>2, MinOf
<1>4. {a} \cup Times(S) \subseteq Nat /\ {a} \cup Times(S) # {}
      BY <1>1, <1>2
<1>5. Min({a} \cup Times(S)) \in {a} \cup Times(S)
      BY <1>4, MinOf
<1> QED
      BY <1>1, <1>3, <1>5 DEF Oldest

\* What _ingest_message writes is typed.
LEMMA UpsertType ==
    ASSUME TypeOK, NEW S, S \subseteq sent, Upsert(S)
    PROVE  /\ kind' \in [Convs -> Kinds] /\ last' \in [Convs -> 0..MaxSent]
           /\ events' \subseteq sent
<1>1. \A c \in Convs : Of(S, c) \subseteq Messages
      BY DEF TypeOK, Of
<1>2. \A c \in Convs : Max({last[c], Newest(Of(S, c))}) \in 0..MaxSent
      BY <1>1, NewestType, LaterType DEF TypeOK
<1>3. last' \in [Convs -> 0..MaxSent]
      BY <1>2 DEF Upsert
<1>4. kind' \in [Convs -> Kinds]
      BY DEF Upsert, TypeOK, Kinds
<1> QED
      BY <1>3, <1>4 DEF Upsert, TypeOK

\* ... and so is the history cursor.
LEMMA RememberType ==
    ASSUME TypeOK, NEW S, S \subseteq sent, Remember(S)
    PROVE  oldest' \in [Convs -> 0..MaxSent]
<1>1. \A c \in Convs : Of(S, c) \subseteq Messages /\ oldest[c] \in 0..MaxSent
      BY DEF TypeOK, Of
<1>2. \A c \in Convs : Lowered(S, c) \in 0..MaxSent
      BY <1>1, OldestType DEF Lowered
<1>3. \A c \in Convs : Of(S, c) # {} => Oldest(Of(S, c)) \in 0..MaxSent
      BY <1>1, OldestType
<1> QED
      BY <1>1, <1>2, <1>3 DEF Remember

\* The backlog is of what was sent.
LEMMA BacklogType == Backlog \subseteq sent
BY DEF Backlog, Last, Of

\* First takes what comes before all it takes.
LEMMA FirstIsClosed ==
    ASSUME NEW S, IsFiniteSet(S), S \subseteq Messages,
           NEW m \in First(Page, S), NEW o \in S, o.ts <= m.ts
    PROVE  o \in First(Page, S)
<1> DEFINE B(x) == {p \in S : p.ts < x.ts}
<1>1. m \in S /\ Cardinality(B(m)) < Page
      BY DEF First
<1>2. B(o) \subseteq B(m) /\ B(m) \subseteq S
      BY <1>1 DEF Messages
<1>3. IsFiniteSet(B(m)) /\ IsFiniteSet(B(o))
      BY <1>2, FS_Subset
<1>4. Cardinality(B(o)) <= Cardinality(B(m))
      BY <1>2, <1>3, FS_Subset
<1>5. Cardinality(B(o)) \in Nat /\ Cardinality(B(m)) \in Nat
      BY <1>3, FS_CardinalityType
<1>6. Cardinality(B(o)) < Page
      BY <1>1, <1>4, <1>5, SizeAssumption
<1> QED
      BY <1>6 DEF First

-----------------------------------------------------------------------------
\* No rows, and no cursor.
LEMMA NoRows == /\ [c \in Convs |-> "none"] \in [Convs -> Kinds]
                /\ [c \in Convs |-> 0] \in [Convs -> 0..MaxSent]
BY SizeAssumption DEF Kinds

\* No login and no message at the start.
LEMMA IngestInitially == Init => IngestInv
<1> SUFFICES ASSUME Init PROVE IngestInv
    OBVIOUS
<1>1. TypeOK
      BY SizeAssumption, NoRows DEF Init, TypeOK
<1>2. IsFiniteSet({}) /\ Cardinality({}) = 0
      BY FS_EmptySet
<1>3. SentInv
      BY <1>2 DEF Init, SentInv
<1>4. SyncInv /\ FetchedInv /\ CursorCovers /\ SeenIsStored
      BY DEF Init, SyncInv, FetchedInv, CursorCovers, SeenIsStored, Syncing, Calling
<1> QED
      BY <1>1, <1>3, <1>4 DEF IngestInv, CoverInv

\* Every step keeps the types.
LEMMA TypeSteps == ASSUME IngestInv, [Next]_vars PROVE TypeOK'
<1> USE SizeAssumption DEF IngestInv, TypeOK, Calling, page, sync, tables, login
<1>1. CASE Connect
      BY <1>1, NoRows DEF Connect
<1>2. CASE PageLoads
      BY <1>2, BacklogType DEF PageLoads, Attached
<1>3. CASE MakeProvider
      BY <1>3 DEF MakeProvider
<1>4. CASE IngestInit
  <2>1. /\ kind' \in [Convs -> Kinds] /\ last' \in [Convs -> 0..MaxSent]
        /\ events' \subseteq sent
        BY <1>4, UpsertType DEF IngestInit, IngestMessages
  <2>2. oldest' \in [Convs -> 0..MaxSent]
        BY <1>4, RememberType DEF IngestInit, IngestMessages
  <2> QED
        BY <1>4, <2>1, <2>2 DEF IngestInit
<1>5. CASE SyncDue
      BY <1>5 DEF SyncDue
<1>6. CASE ListThreads
  <2>1. \A d \in Convs : Max({last[d], Newest(Of(sent, d))}) \in 0..MaxSent
    <3>1. \A d \in Convs : Of(sent, d) \subseteq Messages
          BY DEF Of
    <3> QED
          BY <3>1, NewestType, LaterType
  <2>2. last' \in [Convs -> 0..MaxSent]
        BY <1>6, <2>1 DEF ListThreads
  <2>3. kind' \in [Convs -> Kinds]
        BY <1>6 DEF ListThreads, Kinds
  <2> QED
        BY <1>6, <2>2, <2>3 DEF ListThreads
<1>7. CASE PollList
      BY <1>7 DEF PollList, Listed
<1>8. ASSUME NEW c \in Convs, Fetch(c) PROVE TypeOK'
  <2>1. After(c) \subseteq Of(sent, c)
        BY DEF After, First, Of
  <2>2. After(c) = Of(After(c), c)
        BY <2>1 DEF Of
  <2> QED
        BY <1>8, <2>1, <2>2 DEF Fetch, Of
<1>9. CASE EmitNew
  <2>1. Newest(resp) \in 0..MaxSent
        BY NewestType
  <2>2. cursors' \in [Convs -> 0..MaxSent]
        BY <1>9, <2>1 DEF EmitNew, Advanced
  <2> QED
        BY <1>9, <2>2 DEF EmitNew
<1>10. CASE EmitFails
      BY <1>10 DEF EmitFails
<1>11. CASE SyncEnds
      BY <1>11 DEF SyncEnds
<1>12. CASE CallFails
      BY <1>12 DEF CallFails
<1>13. CASE CallRefused
      BY <1>13 DEF CallRefused
<1>14. CASE IngestLate
  <2>1. /\ kind' \in [Convs -> Kinds] /\ last' \in [Convs -> 0..MaxSent]
        /\ events' \subseteq sent
        BY <1>14, UpsertType DEF IngestLate, IngestMessages
  <2>2. oldest' \in [Convs -> 0..MaxSent]
        BY <1>14, RememberType DEF IngestLate, IngestMessages
  <2> QED
        BY <1>14, <2>1, <2>2 DEF IngestLate
<1>15. ASSUME NEW c \in Convs, LoadOlder(c) PROVE TypeOK'
  <2>1. Before(c) \subseteq Of(sent, c)
        BY DEF Before, Last, Of
  <2>2. Before(c) = Of(Before(c), c)
        BY <2>1 DEF Of
  <2> QED
        BY <1>15, <2>1, <2>2 DEF LoadOlder, Of
<1>16. CASE StoreOlder
  <2>1. resp \ events \subseteq sent
        OBVIOUS
  <2>2. /\ kind' \in [Convs -> Kinds] /\ last' \in [Convs -> 0..MaxSent]
        /\ events' \subseteq sent
        BY <1>16, <2>1, UpsertType DEF StoreOlder
  <2>3. oldest' \in [Convs -> 0..MaxSent]
        BY <1>16, RememberType DEF StoreOlder
  <2> QED
        BY <1>16, <2>2, <2>3 DEF StoreOlder
<1>17. CASE Logout
      BY <1>17, NoRows DEF Logout
<1>18. ASSUME NEW c \in Convs, Send(c) PROVE TypeOK'
  <2>1. Cardinality(sent) \in Nat
        BY FS_CardinalityType DEF CoverInv, SentInv
  <2> DEFINE new == [conv |-> c, ts |-> Cardinality(sent) + 1]
  <2>2. new \in Messages
        BY <1>18, <2>1 DEF Send, Messages
  <2>3. sent' = sent \cup {new} /\ wire' \subseteq wire \cup {new}
        BY <1>18 DEF Send
  <2>4. sent' \subseteq Messages /\ wire' \subseteq sent'
        BY <2>2, <2>3
  <2> QED
        BY <1>18, <2>3, <2>4 DEF Send
<1>19. ASSUME NEW m \in wire, Deliver(m) PROVE TypeOK'
  <2>1. {m} \subseteq sent
        BY <1>19 DEF Deliver
  <2>2. /\ kind' \in [Convs -> Kinds] /\ last' \in [Convs -> 0..MaxSent]
        /\ events' \subseteq sent
        BY <1>19, <2>1, UpsertType DEF Deliver, IngestMessages
  <2>3. oldest' \in [Convs -> 0..MaxSent]
        BY <1>19, <2>1, RememberType DEF Deliver, IngestMessages
  <2> QED
        BY <1>19, <2>2, <2>3 DEF Deliver
<1>20. CASE SocketDrops
      BY <1>20 DEF SocketDrops
<1>21. CASE SocketOpens
      BY <1>21 DEF SocketOpens, Attached
<1>22. CASE LateBacklog
      BY <1>22, BacklogType DEF LateBacklog
<1>23. CASE UNCHANGED vars
      BY <1>23 DEF vars
<1> QED
      BY <1>1, <1>2, <1>3, <1>4, <1>5, <1>6, <1>7, <1>8, <1>9, <1>10, <1>11,
         <1>12, <1>13, <1>14, <1>15, <1>16, <1>17, <1>18, <1>19, <1>20,
         <1>21, <1>22, <1>23 DEF Next, Worker, Environment

\* Most steps leave the cursors and the dedup set alone and delete nothing.
LEMMA CoverFrame ==
    ASSUME IngestInv, UNCHANGED <<sent, cursors, seen>>, events \subseteq events',
           pc' # "off" => pc # "off", state = "error" => state' = "error",
           pc' \in Syncing => state' \in {"connecting", "connected"},
           pc' = "fetched" => pc = "fetched" /\ resp' = resp
    PROVE  CoverInv'
<1> USE DEF IngestInv, CoverInv
<1>1. SentInv' /\ SyncInv'
      BY DEF SentInv, SyncInv
<1>2. FetchedInv'
      BY DEF FetchedInv, Of
<1>3. CursorCovers'
      BY DEF CursorCovers
<1>4. SeenIsStored'
      BY DEF SeenIsStored
<1> QED
      BY <1>1, <1>2, <1>3, <1>4

\* Every step keeps the rest.
LEMMA CoverSteps == ASSUME IngestInv, [Next]_vars PROVE CoverInv'
<1> USE SizeAssumption DEF IngestInv, TypeOK, SyncInv, Syncing, Calling, page, sync, tables, login
<1>1. CASE Connect
  <2>1. \A m \in sent : ~(m.ts <= cursors'[m.conv])
        BY <1>1 DEF Connect, Messages
  <2>2. /\ sent' = sent /\ seen' = {} /\ pc' = "load" /\ state' = "connecting"
        /\ cursors' = [c \in Convs |-> 0]
        BY <1>1 DEF Connect
  <2>3. Cardinality(sent) \in Nat
        BY FS_CardinalityType DEF CoverInv, SentInv
  <2> QED
        BY <2>1, <2>2, <2>3 DEF CoverInv, SentInv, FetchedInv, CursorCovers, SeenIsStored
<1>2. CASE PageLoads
      BY <1>2, CoverFrame DEF PageLoads, CoverInv
<1>3. CASE MakeProvider
      BY <1>3, CoverFrame DEF MakeProvider, CoverInv
<1>4. CASE IngestInit
      BY <1>4, CoverFrame DEF IngestInit, IngestMessages, Upsert, CoverInv
<1>5. CASE SyncDue
      BY <1>5, CoverFrame DEF SyncDue, CoverInv
<1>6. CASE ListThreads
      BY <1>6, CoverFrame DEF ListThreads, CoverInv
<1>7. CASE PollList
      BY <1>7, CoverFrame DEF PollList, CoverInv
<1>8. ASSUME NEW c \in Convs, Fetch(c) PROVE CoverInv'
  <2> DEFINE ahead == {m \in Of(sent, c) : m.ts > cursors[c]}
  <2>1. /\ UNCHANGED <<sent, cursors, seen, events, state>>
        /\ pc = "poll" /\ resp' = After(c) /\ pc' \in {"poll", "fetched"}
        BY <1>8 DEF Fetch
  <2>2. SentInv' /\ SyncInv' /\ CursorCovers' /\ SeenIsStored'
        BY <2>1 DEF CoverInv, SentInv, CursorCovers, SeenIsStored
  <2>3. IsFiniteSet(ahead) /\ ahead \subseteq Messages
        BY FS_Subset DEF CoverInv, SentInv, Of
  <2>4. After(c) = First(Page, ahead) /\ After(c) \subseteq Of(sent, c)
        BY DEF After, First
  <2>5. ASSUME NEW m \in Of(sent, c), cursors[c] < m.ts, NEW o \in After(c), m.ts <= o.ts
        PROVE  m \in After(c)
    <3>1. m \in ahead
          BY <2>5 DEF Of, Messages
    <3> HIDE DEF ahead
    <3> QED
          BY <2>3, <2>4, <2>5, <3>1, FirstIsClosed
  <2>6. FetchedInv'
        BY <2>1, <2>4, <2>5 DEF FetchedInv, Of
  <2> QED
        BY <2>2, <2>6 DEF CoverInv
<1>9. CASE EmitNew
  <2>1. /\ UNCHANGED <<sent, state>> /\ pc = "fetched" /\ pc' = "poll"
        /\ events' = events \cup (resp \ seen) /\ seen' = seen \cup resp
        /\ cursors' = Advanced
        BY <1>9 DEF EmitNew
  <2>2. state \in {"connecting", "connected"} /\ seen \subseteq events
        BY <2>1 DEF CoverInv, SyncInv, SeenIsStored
  <2>3. resp \subseteq events' /\ events \subseteq events'
        BY <2>1, <2>2
  <2>4. SyncInv' /\ FetchedInv' /\ SeenIsStored'
        BY <2>1, <2>2, <2>3 DEF FetchedInv, SeenIsStored
  <2>5. PICK c \in Convs :
             /\ resp \subseteq Of(sent, c)
             /\ \A m \in Of(sent, c) :
                  cursors[c] < m.ts /\ (\E o \in resp : m.ts <= o.ts) => m \in resp
        BY <2>1 DEF CoverInv, FetchedInv
  <2>6. ASSUME NEW m \in sent, m.ts <= cursors'[m.conv] PROVE m \in events'
    <3>1. m.conv \in Convs /\ m.ts \in 0..MaxSent /\ cursors[m.conv] \in 0..MaxSent
          BY DEF Messages
    <3>2. CASE m.ts <= cursors[m.conv]
          BY <2>1, <2>3, <3>2 DEF CoverInv, CursorCovers
    <3>3. CASE ~(m.ts <= cursors[m.conv])
      <4>1. Of(resp, m.conv) # {} /\ m.ts <= Newest(resp)
            BY <2>1, <2>6, <3>1, <3>3 DEF Advanced, Answered
      <4>2. m.conv = c
            BY <2>5, <4>1 DEF Of
      <4>3. \E o \in resp : Newest(resp) = o.ts
            BY <4>1, NewestType DEF Of
      <4>4. m \in Of(sent, c) /\ cursors[c] < m.ts
            BY <3>1, <3>3, <4>2 DEF Of
      <4> QED
            BY <2>3, <2>5, <4>1, <4>3, <4>4
    <3> QED
          BY <3>2, <3>3
  <2>7. ASSUME NEW d \in Convs PROVE cursors'[d] <= Cardinality(sent)
    <3>1. CASE Answered(d)
      <4>1. \E o \in resp : Newest(resp) = o.ts
            BY <3>1, NewestType DEF Answered, Of
      <4> QED
            BY <2>1, <3>1, <4>1 DEF Advanced, CoverInv, SentInv
    <3>2. CASE ~Answered(d)
          BY <2>1, <3>2 DEF Advanced, CoverInv, SentInv
    <3> QED
          BY <3>1, <3>2
  <2>8. SentInv'
        BY <2>1, <2>7 DEF CoverInv, SentInv
  <2> QED
        BY <2>1, <2>4, <2>6, <2>8 DEF CoverInv, CursorCovers
<1>10. CASE EmitFails
      BY <1>10, CoverFrame DEF EmitFails, CoverInv, SentInv, SyncInv, FetchedInv,
                          CursorCovers, SeenIsStored
<1>11. CASE SyncEnds
      BY <1>11, CoverFrame DEF SyncEnds, CoverInv
<1>12. CASE CallFails
      BY <1>12, CoverFrame DEF CallFails, CoverInv
<1>13. CASE CallRefused
      BY <1>13, CoverFrame DEF CallRefused, CoverInv
<1>14. CASE IngestLate
      BY <1>14, CoverFrame DEF IngestLate, IngestMessages, Upsert, CoverInv
<1>15. ASSUME NEW c \in Convs, LoadOlder(c) PROVE CoverInv'
      BY <1>15, CoverFrame DEF LoadOlder, CoverInv
<1>16. CASE StoreOlder
      BY <1>16, CoverFrame DEF StoreOlder, Upsert, CoverInv
<1>17. CASE Logout
      BY <1>17 DEF Logout, CoverInv, SentInv, FetchedInv, CursorCovers, SeenIsStored
<1>18. ASSUME NEW c \in Convs, Send(c) PROVE CoverInv'
  <2> DEFINE new == [conv |-> c, ts |-> Cardinality(sent) + 1]
  <2>1. /\ sent' = sent \cup {new}
        /\ UNCHANGED <<cursors, seen, events, pc, state, resp>>
        BY <1>18 DEF Send
  <2>2. Cardinality(sent) \in Nat /\ IsFiniteSet(sent)
        BY FS_CardinalityType DEF CoverInv, SentInv
  <2>3. \A m \in sent : m.ts \in Nat /\ m.ts < new.ts
        BY <2>2 DEF CoverInv, SentInv, Messages
  <2>4. IsFiniteSet(sent') /\ Cardinality(sent') = Cardinality(sent) + 1
    <3>1. new \notin sent
          BY <2>3
    <3> HIDE DEF new
    <3> QED
          BY <2>1, <2>2, <3>1, FS_AddElement
  <2>5. SentInv'
    <3>1. \A m \in sent' : m.ts <= Cardinality(sent) + 1
          BY <2>1, <2>2, <2>3
    <3>2. \A d \in Convs : cursors'[d] <= Cardinality(sent) + 1
          BY <2>1, <2>2 DEF CoverInv, SentInv
    <3> QED
          BY <2>4, <3>1, <3>2 DEF SentInv
  <2>6. SyncInv' /\ SeenIsStored'
        BY <2>1 DEF CoverInv, SyncInv, SeenIsStored
  <2>7. CursorCovers'
    <3>1. ~(new.ts <= cursors[new.conv])
          BY <2>2 DEF CoverInv, SentInv
    <3> QED
          BY <2>1, <3>1 DEF CoverInv, CursorCovers
  <2>8. FetchedInv'
    <3>1. \A o \in resp : o \in sent /\ ~(new.ts <= o.ts)
          BY <2>2, <2>3
    <3>2. \A d \in Convs : \A m \in Of(sent', d) : m \in Of(sent, d) \/ m = new
          BY <2>1 DEF Of
    <3>3. \A d \in Convs : Of(sent, d) \subseteq Of(sent', d)
          BY <2>1 DEF Of
    <3> HIDE DEF new
    <3> QED
          BY <2>1, <3>1, <3>2, <3>3 DEF CoverInv, FetchedInv
  <2> QED
        BY <2>5, <2>6, <2>7, <2>8 DEF CoverInv
<1>19. ASSUME NEW m \in wire, Deliver(m) PROVE CoverInv'
      BY <1>19, CoverFrame DEF Deliver, IngestMessages, Upsert, Pumping, CoverInv
<1>20. CASE SocketDrops
      BY <1>20, CoverFrame DEF SocketDrops, CoverInv
<1>21. CASE SocketOpens
      BY <1>21, CoverFrame DEF SocketOpens, CoverInv
<1>22. CASE LateBacklog
      BY <1>22, CoverFrame DEF LateBacklog, CoverInv
<1>23. CASE UNCHANGED vars
      BY <1>23, CoverFrame DEF vars, CoverInv
<1> QED
      BY <1>1, <1>2, <1>3, <1>4, <1>5, <1>6, <1>7, <1>8, <1>9, <1>10, <1>11,
         <1>12, <1>13, <1>14, <1>15, <1>16, <1>17, <1>18, <1>19, <1>20,
         <1>21, <1>22, <1>23 DEF Next, Worker, Environment

\* The invariant holds in every state.
THEOREM IngestInvariant == Spec => []IngestInv
<1>1. IngestInv /\ [Next]_vars => IngestInv'
      BY TypeSteps, CoverSteps DEF IngestInv
<1> QED
      BY <1>1, IngestInitially, PTL DEF Spec

\* sync.py: a cursor never skips a message that is not stored.
THEOREM CursorsCover == Spec => []CursorCovers
<1>1. IngestInv => CursorCovers
      BY DEF IngestInv, CoverInv
<1> QED
      BY <1>1, IngestInvariant, PTL

\* state.py: unless the login has ended in an error, what the dedup set holds is
\* stored.
THEOREM SeenMessagesAreStored == Spec => []SeenIsStored
<1>1. IngestInv => SeenIsStored
      BY DEF IngestInv, CoverInv
<1> QED
      BY <1>1, IngestInvariant, PTL

\* Every variable of the ingest is typed.
THEOREM IngestTypeCorrect == Spec => []TypeOK
<1>1. IngestInv => TypeOK
      BY DEF IngestInv
<1> QED
      BY <1>1, IngestInvariant, PTL
=============================================================================
