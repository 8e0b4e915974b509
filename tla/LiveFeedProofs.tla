--------------------------- MODULE LiveFeedProofs ---------------------------
(***************************************************************************)
(* For any number of connections and events, any capacity of the broadcast *)
(* channel and any number of reconnects and restarts: a dashboard passes   *)
(* over no row; with one web socket at a time the total it shows is that   *)
(* of the rows it knows of, and once it has caught up it shows every       *)
(* connection that has not ended.  The first two take replays that send    *)
(* all there is, and statements whose answers are not lost; the third a    *)
(* session that does not lag, whatever else fails.                         *)
(***************************************************************************)
EXTENDS LiveFeed, FiniteSetTheorems, SequenceTheorems, WellFoundedInduction, TLAPS

-----------------------------------------------------------------------------
(* Type correctness *)

\* A view keeps its type when an entry, a mark and the total are replaced.
LEMMA ViewFields ==
    ASSUME NEW v \in View, NEW c \in Conns, NEW n \in Nat \cup {None},
           NEW seen \in Nat, NEW total \in Nat
    PROVE  /\ [v EXCEPT !.active[c] = n] \in View
           /\ [v EXCEPT !.active[c] = n, !.maxSeen = seen, !.total = total] \in View
<1>1. v.active \in Entries /\ [v.active EXCEPT ![c] = n] \in Entries
  BY DEF View, Entries
<1> QED
  BY <1>1 DEF View

\* A disconnected event leaves a view.
LEMMA DisconnectKeepsView ==
    ASSUME NEW v \in View, NEW c \in Conns, NEW n \in Nat
    PROVE  OnDisconnected(v, c, n) \in View
<1>1. v.total \in Nat /\ v.total + 1 \in Nat
  BY DEF View
<1>2. CASE n <= v.maxSeen
  BY <1>2 DEF OnDisconnected
<1>3. CASE ~(n <= v.maxSeen) /\ n <= v.lastCounted
  BY <1>1, <1>3, ViewFields DEF OnDisconnected
<1>4. CASE ~(n <= v.maxSeen) /\ ~(n <= v.lastCounted)
  BY <1>1, <1>4, ViewFields DEF OnDisconnected
<1> QED
  BY <1>2, <1>3, <1>4

\* And so does any event.
LEMMA EventKeepsView ==
    ASSUME NEW v \in View, NEW e \in WsEvent
    PROVE  OnEvent(v, e) \in View
<1>1. e.conn \in Conns /\ e.bytes \in Nat /\ e.sequence \in Nat
  BY DEF WsEvent
<1>2. OnConnected(v, e.conn) \in View
  BY <1>1, ViewFields DEF OnConnected, View
<1>3. OnBytesSent(v, e.conn, e.bytes) \in View
  BY <1>1, ViewFields DEF OnBytesSent, View
<1>4. OnDisconnected(v, e.conn, e.sequence) \in View
  BY <1>1, DisconnectKeepsView
<1> QED
  BY <1>2, <1>3, <1>4 DEF OnEvent, WsEvent

\* A nonempty set of naturals with a bound has a greatest element.
LEMMA GreatestExists ==
    ASSUME NEW S \in SUBSET Nat, S # {}, NEW b \in Nat, \A n \in S : n <= b
    PROVE  \E m \in S : \A n \in S : m >= n
<1> DEFINE Bounds == {k \in Nat : \A n \in S : n <= k}
<1>1. PICK m \in Bounds : \A k \in Bounds : ~(<<k, m>> \in OpToRel(<, Nat))
  <2>1. Bounds # {} /\ Bounds \subseteq Nat
    OBVIOUS
  <2> HIDE DEF Bounds
  <2> QED
    BY <2>1, NatLessThanWellFounded, WFMin
<1>2. m \in S
  <2> SUFFICES ASSUME m \notin S PROVE FALSE
    OBVIOUS
  <2>1. PICK n \in S : TRUE
    OBVIOUS
  <2>2. \A k \in S : k < m
    BY <2>1
  <2>3. m - 1 \in Bounds /\ m - 1 < m
    BY <2>1, <2>2
  <2>4. <<m - 1, m>> \in OpToRel(<, Nat)
    BY <2>3 DEF OpToRel
  <2> QED
    BY <1>1, <2>3, <2>4
<1> QED
  BY <1>2

\* The newest id is at least every id, and is one of them or 0.
LEMMA NewestIdIsNewest ==
    ASSUME rows \in SUBSET Row, nextId \in Nat, \A r \in rows : r.id < nextId
    PROVE  /\ NewestId \in {r.id : r \in rows} \cup {0}
           /\ NewestId \in Nat /\ NewestId <= nextId
           /\ \A r \in rows : r.id <= NewestId
<1> DEFINE S == {r.id : r \in rows} \cup {0}
<1>1. S \in SUBSET Nat /\ S # {} /\ \A n \in S : n <= nextId
  BY DEF Row
<1>2. NewestId \in S /\ \A n \in S : NewestId >= n
  <2>1. NewestId = CHOOSE m \in S : \A n \in S : m >= n
    BY DEF NewestId, Max
  <2> HIDE DEF S
  <2> QED
    BY <1>1, <2>1, GreatestExists
<1>3. \A r \in rows : r.id \in S
  OBVIOUS
<1> HIDE DEF S
<1>4. NewestId \in Nat /\ NewestId <= nextId
  BY <1>1, <1>2
<1>5. \A r \in rows : r.id <= NewestId
  BY <1>1, <1>2, <1>3, <1>4
<1> QED
  BY <1>2, <1>4, <1>5 DEF S

\* The ids of the table are below the next one, and a row is known by its id.
IdsAreUnique ==
    /\ IsFiniteSet(rows)
    /\ \A r \in rows : r.id < nextId
    /\ \A q, r \in rows : q.id = r.id => q = r

FeedTypes == TypeOK /\ IdsAreUnique

\* The fields of a session.
LEMMA SessionFields ==
    ASSUME NEW x \in Session
    PROVE  /\ x.phase \in Phases /\ x.last \in Nat /\ x.unread \in SUBSET Conns
           /\ x.snapshot \in Entries /\ x.counted \in Nat /\ x.countedTo \in Nat
           /\ x.records \in SUBSET Row /\ x.inbox \in Seq(WsEvent)
BY DEF Session

\* A session that lagged keeps a part of its inbox.
LEMMA LagKeeps ==
    ASSUME NEW q \in Seq(WsEvent), Len(q) > BroadcastCapacity
    PROVE  SubSeq(q, Len(q) - BroadcastCapacity + 1, Len(q)) \in Seq(WsEvent)
<1>1. BroadcastCapacity \in Nat \ {0} /\ Len(q) \in Nat
  BY FeedConstants
<1>2. Len(q) - BroadcastCapacity + 1 \in 1..Len(q)
  BY <1>1
<1> QED
  BY <1>1, <1>2, SubSeqProperties

\* A session that is replaced by a session keeps the type of all.
LEMMA SessionType ==
    ASSUME TypeOK, NEW s \in Sessions, NEW x \in Session,
           session' = [session EXCEPT ![s] = x]
    PROVE  session' \in [Sessions -> Session]
BY DEF TypeOK

\* What the step of a session leaves of it.
LEMMA FollowSession ==
    ASSUME FeedTypes, NEW s \in Sessions, Follow(s) \/ Dial(s) \/ Close(s)
    PROVE  \E x \in Session : session' = [session EXCEPT ![s] = x]
<1> DEFINE x == session[s]
<1>1. x \in Session /\ session \in [Sessions -> Session]
  BY DEF FeedTypes, TypeOK
<1>2. rows \in SUBSET Row /\ NewestId \in Nat /\ Cardinality(rows) \in Nat
  BY NewestIdIsNewest, FS_CardinalityType DEF FeedTypes, TypeOK, IdsAreUnique
<1>3. NoEntries \in Entries /\ Closed \in Session
  BY DEF NoEntries, Entries, Closed, Session, Phases
<1> USE DEF Phases
<1>4. CASE Subscribe(s)
  <2>1. session' = [session EXCEPT ![s] = [x EXCEPT !.phase = "reading", !.unread = Conns]]
    BY <1>4 DEF Subscribe
  <2> QED
    BY <1>1, <2>1, SessionFields DEF Session
<1>5. CASE GetTotals(s) \/ TotalsFail(s)
  <2>1. session' = [session EXCEPT ![s] = [x EXCEPT !.phase = "counted",
                       !.counted = Cardinality(rows), !.countedTo = NewestId]]
        \/ session' = [session EXCEPT ![s] = [x EXCEPT !.phase = "counted"]]
    BY <1>5 DEF GetTotals, TotalsFail
  <2> QED
    BY <1>1, <1>2, <2>1, SessionFields DEF Session
<1>6. CASE SendInit(s)
  <2>1. session' = [session EXCEPT ![s] = [x EXCEPT !.phase = "querying",
                       !.snapshot = NoEntries, !.counted = 0, !.countedTo = 0]]
    BY <1>6 DEF SendInit
  <2> QED
    BY <1>1, <1>3, <2>1, SessionFields DEF Session
<1>7. CASE QueryHistory(s)
  <2>1. session' = [session EXCEPT ![s] = [x EXCEPT !.phase = "replaying",
                                              !.records = RowsSince(session[s].last)]]
    BY <1>7 DEF QueryHistory
  <2>2. RowsSince(session[s].last) \in SUBSET Row
    BY <1>2 DEF RowsSince
  <2> QED
    BY <1>1, <2>1, <2>2, SessionFields DEF Session
<1>8. CASE SendRecord(s)
  <2>1. PICK r \in x.records :
            session' = [session EXCEPT ![s] = [x EXCEPT !.records = @ \ {r}, !.last = r.id]]
    BY <1>8 DEF SendRecord
  <2>2. r.id \in Nat /\ x.records \ {r} \in SUBSET Row
    BY <1>1, SessionFields DEF Row
  <2> QED
    BY <1>1, <2>1, <2>2, SessionFields DEF Session
<1>9. CASE EndReplay(s)
  <2>1. session' = [session EXCEPT ![s] = [x EXCEPT !.phase = "live", !.records = {}]]
    BY <1>9 DEF EndReplay
  <2> QED
    BY <1>1, <2>1, SessionFields DEF Session
<1>10. CASE Forward(s)
  <2> DEFINE e == Head(x.inbox)
  <2>1. x.inbox \in Seq(WsEvent) /\ x.inbox # << >> /\ x.last \in Nat
    BY <1>1, <1>10, SessionFields DEF Forward
  <2>2. e \in WsEvent /\ Tail(x.inbox) \in Seq(WsEvent)
    BY <2>1, HeadTailProperties
  <2>3. e.sequence \in Nat
    BY <2>2 DEF WsEvent
  <2>4. session' = [session EXCEPT ![s] = [x EXCEPT !.inbox = Tail(@),
                       !.last = IF e.type = "disconnected" THEN e.sequence ELSE @]]
    BY <1>10 DEF Forward
  <2> QED
    BY <1>1, <2>1, <2>2, <2>3, <2>4, SessionFields DEF Session
<1>11. CASE Lag(s)
  <2>1. x.inbox \in Seq(WsEvent) /\ Len(x.inbox) > BroadcastCapacity
    BY <1>1, <1>11, SessionFields DEF Lag, Lags
  <2>2. session' = [session EXCEPT ![s] = [x EXCEPT !.phase = "querying",
                       !.inbox = SubSeq(@, Len(@) - BroadcastCapacity + 1, Len(@))]]
    BY <1>11 DEF Lag
  <2> QED
    BY <1>1, <2>1, <2>2, LagKeeps, SessionFields DEF Session
<1>12. ASSUME NEW c \in Conns, ReadEntry(s, c)
       PROVE  \E y \in Session : session' = [session EXCEPT ![s] = y]
  <2>1. session' = [session EXCEPT ![s] = [x EXCEPT !.unread = @ \ {c},
                                              !.snapshot[c] = active[c]]]
    BY <1>12 DEF ReadEntry
  <2>2. x.unread \ {c} \in SUBSET Conns /\ [x.snapshot EXCEPT ![c] = active[c]] \in Entries
    BY <1>1, SessionFields DEF FeedTypes, TypeOK, Entries
  <2>3. session' = [session EXCEPT ![s] = [x EXCEPT !.unread = x.unread \ {c},
                               !.snapshot = [x.snapshot EXCEPT ![c] = active[c]]]]
    BY <2>1
  <2> QED
    BY <1>1, <2>2, <2>3, SessionFields DEF Session
<1>13. CASE Dial(s)
  <2>1. PICK since \in {0} \cup {r.id : r \in rows} :
            session' = [session EXCEPT ![s] = [x EXCEPT !.phase = "dialled", !.last = since]]
    BY <1>13 DEF Dial
  <2>2. since \in Nat
    BY <1>2 DEF Row
  <2> QED
    BY <1>1, <2>1, <2>2, SessionFields DEF Session
<1>14. CASE Close(s)
  BY <1>3, <1>14 DEF Close
<1> QED
  BY <1>4, <1>5, <1>6, <1>7, <1>8, <1>9, <1>10, <1>11, <1>12, <1>13, <1>14 DEF Follow

\* What the step of a session leaves of the view.
LEMMA FollowView ==
    ASSUME FeedTypes, NEW s \in Sessions, Follow(s) \/ Dial(s) \/ Close(s)
    PROVE  view' \in View
<1>1. view \in View /\ session[s] \in Session
  BY DEF FeedTypes, TypeOK
<1>2. CASE SendInit(s)
  BY <1>1, <1>2, SessionFields DEF SendInit, OnInit, View
<1>3. CASE SendRecord(s)
  <2>1. PICK r \in session[s].records : view' = OnDisconnected(view, r.conn, r.id)
    BY <1>3 DEF SendRecord
  <2>2. r.conn \in Conns /\ r.id \in Nat
    BY <1>1, SessionFields DEF Row
  <2> QED
    BY <1>1, <2>1, <2>2, DisconnectKeepsView
<1>4. CASE Forward(s)
  <2>1. session[s].inbox \in Seq(WsEvent) /\ session[s].inbox # << >>
    BY <1>1, <1>4, SessionFields DEF Forward
  <2>2. Head(session[s].inbox) \in WsEvent
    BY <2>1, HeadTailProperties
  <2>3. view' = OnEvent(view, Head(session[s].inbox))
    BY <1>4 DEF Forward
  <2> QED
    BY <1>1, <2>2, <2>3, EventKeepsView
<1>5. CASE ~(SendInit(s) \/ SendRecord(s) \/ Forward(s))
  BY <1>1, <1>5 DEF Follow, Dial, Close, Subscribe, GetTotals, TotalsFail, QueryHistory,
                    EndReplay, Lag, ReadEntry
<1> QED
  BY <1>2, <1>3, <1>4, <1>5

\* The rest of the state is the processor's, and the two counters.
LEMMA FollowFrame ==
    ASSUME NEW s \in Sessions, Follow(s) \/ Dial(s) \/ Close(s)
    PROVE  UNCHANGED processorVars /\ UNCHANGED crashes
           /\ (UNCHANGED dials \/ dials' = dials + 1)
BY DEF Follow, Dial, Close, Subscribe, GetTotals, TotalsFail, SendInit, QueryHistory,
       SendRecord, EndReplay, Forward, Lag, ReadEntry

\* The types and unique ids hold at the start.
LEMMA TypesInit == Init => FeedTypes
<1> SUFFICES ASSUME Init PROVE FeedTypes
  OBVIOUS
<1>1. Closed \in Session /\ NoEntries \in Entries /\ IsFiniteSet({})
  BY FS_EmptySet DEF Closed, Session, Phases, NoEntries, Entries
<1>2. TypeOK
  BY <1>1 DEF Init, TypeOK, Unheard, View
<1>3. IdsAreUnique
  BY <1>1 DEF Init, IdsAreUnique
<1> QED
  BY <1>2, <1>3 DEF FeedTypes

\* A row of the next id keeps the ids unique.
LEMMA RowAdded ==
    ASSUME FeedTypes, NEW c \in Conns,
           rows' = rows \cup {[id |-> nextId, conn |-> c]}, nextId' = nextId + 1
    PROVE  IdsAreUnique' /\ rows' \in SUBSET Row /\ nextId' \in Nat \ {0}
<1>1. rows \in SUBSET Row /\ nextId \in Nat \ {0} /\ IdsAreUnique
  BY DEF FeedTypes, TypeOK
<1>2. [id |-> nextId, conn |-> c] \in Row
  BY <1>1 DEF Row
<1>3. IsFiniteSet(rows')
  BY <1>1, FS_AddElement DEF IdsAreUnique
<1>4. \A r \in rows' : r.id < nextId'
  BY <1>1, <1>2 DEF IdsAreUnique, Row
<1>5. \A q, r \in rows' : q.id = r.id => q = r
  BY <1>1, <1>2 DEF IdsAreUnique, Row
<1> QED
  BY <1>1, <1>2, <1>3, <1>4, <1>5 DEF IdsAreUnique

\* Every step keeps them.
LEMMA TypesStep == FeedTypes /\ [Next]_feedVars => FeedTypes'
<1> SUFFICES ASSUME FeedTypes, [Next]_feedVars PROVE FeedTypes'
  OBVIOUS
<1> USE DEF FeedTypes
<1>1. ASSUME NEW c \in Conns, InsertEntry(c) PROVE FeedTypes'
  <2>1. outgoing' \in WsEvent /\ active' \in Entries
        /\ heard' \in [Conns -> [connected : BOOLEAN, bytes : Nat, ended : BOOLEAN]]
    BY <1>1 DEF InsertEntry, TypeOK, WsEvent, Entries
  <2> QED
    BY <1>1, <2>1 DEF InsertEntry, Ready, TypeOK, IdsAreUnique
<1>2. ASSUME NEW c \in Conns, UpdateEntry(c) PROVE FeedTypes'
  <2>1. heard[c].bytes + 1 \in Nat
    BY DEF TypeOK
  <2>2. outgoing' \in WsEvent
    BY <1>2, <2>1 DEF UpdateEntry, WsEvent
  <2>3. active' \in Entries
    BY <1>2, <2>1 DEF UpdateEntry, TypeOK, Entries
  <2>4. heard' \in [Conns -> [connected : BOOLEAN, bytes : Nat, ended : BOOLEAN]]
    BY <1>2, <2>1 DEF UpdateEntry, TypeOK
  <2> QED
    BY <1>2, <2>2, <2>3, <2>4 DEF UpdateEntry, Ready, TypeOK, IdsAreUnique
<1>3. ASSUME NEW c \in Conns, RemoveEntry(c) PROVE FeedTypes'
  <2>1. active' \in Entries
        /\ heard' \in [Conns -> [connected : BOOLEAN, bytes : Nat, ended : BOOLEAN]]
    BY <1>3 DEF RemoveEntry, TypeOK, Entries
  <2> QED
    BY <1>3, <2>1 DEF RemoveEntry, Ready, TypeOK, IdsAreUnique
<1>4. CASE Record
  <2>1. writing \in Conns /\ outgoing = None /\ nextId \in Nat
    BY <1>4 DEF Record, TypeOK
  <2>2. outgoing' \in WsEvent
    BY <1>4, <2>1 DEF Record, WsEvent
  <2>3. IdsAreUnique' /\ rows' \in SUBSET Row /\ nextId' \in Nat \ {0}
    BY <1>4, <2>1, RowAdded DEF Record
  <2> QED
    BY <1>4, <2>2, <2>3 DEF Record, TypeOK
<1>5. CASE RecordUnacknowledged
  <2>1. writing \in Conns
    BY <1>5 DEF RecordUnacknowledged, TypeOK
  <2>2. IdsAreUnique' /\ rows' \in SUBSET Row /\ nextId' \in Nat \ {0}
    BY <1>5, <2>1, RowAdded DEF RecordUnacknowledged
  <2> QED
    BY <1>5, <2>2 DEF RecordUnacknowledged, TypeOK
<1>6. CASE RecordFails
  <2>1. nextId' \in Nat \ {0} /\ nextId <= nextId' /\ nextId \in Nat
    BY <1>6 DEF RecordFails, TypeOK
  <2>2. IdsAreUnique'
    BY <1>6, <2>1 DEF RecordFails, IdsAreUnique, TypeOK, Row
  <2> QED
    BY <1>6, <2>1, <2>2 DEF RecordFails, TypeOK
<1>7. CASE Broadcast
  <2>1. outgoing \in WsEvent
    BY <1>7 DEF Broadcast, TypeOK
  <2>2. \A s \in Sessions : session[s].inbox \in Seq(WsEvent) /\ session[s] \in Session
    BY SessionFields DEF TypeOK
  <2>3. \A s \in Sessions : [session[s] EXCEPT !.inbox = Append(@, outgoing)] \in Session
    <3>1. \A s \in Sessions : Append(session[s].inbox, outgoing) \in Seq(WsEvent)
      BY <2>1, <2>2, AppendProperties
    <3> QED
      BY <2>2, <3>1 DEF Session
  <2>4. session' \in [Sessions -> Session]
    BY <1>7, <2>2, <2>3 DEF Broadcast
  <2> QED
    BY <1>7, <2>4 DEF Broadcast, TypeOK, IdsAreUnique
<1>8. ASSUME NEW s \in Sessions, Follow(s) \/ Dial(s) \/ Close(s) PROVE FeedTypes'
  <2>1. session' \in [Sessions -> Session]
    BY <1>8, FollowSession, SessionType
  <2>2. view' \in View
    BY <1>8, FollowView
  <2> QED
    BY <1>8, <2>1, <2>2, FollowFrame DEF processorVars, TypeOK, IdsAreUnique
<1>9. CASE Crash
  <2>1. Closed \in Session /\ NoEntries \in Entries
    BY DEF Closed, Session, Phases, NoEntries, Entries
  <2>2. heard' \in [Conns -> [connected : BOOLEAN, bytes : Nat, ended : BOOLEAN]]
    BY <1>9, FeedConstants DEF Crash, TypeOK, Unheard
  <2> QED
    BY <1>9, <2>1, <2>2 DEF Crash, TypeOK, IdsAreUnique
<1>10. CASE UNCHANGED feedVars
  BY <1>10 DEF feedVars, processorVars, TypeOK, IdsAreUnique
<1> QED
  BY <1>1, <1>2, <1>3, <1>4, <1>5, <1>6, <1>7, <1>8, <1>9, <1>10 DEF Next, Process

\* So they hold in every reachable state.
LEMMA FeedTypesHold == Spec => []FeedTypes
<1> QED
  BY TypesInit, TypesStep, PTL DEF Spec

\* Every variable keeps its type in every reachable state: the marks and totals of the
\* reducer, and what each session has read, stay within their ranges whatever fails.
THEOREM FeedTypeCorrect == Spec => []TypeOK
<1>1. FeedTypes => TypeOK
  BY DEF FeedTypes
<1> QED
  BY <1>1, FeedTypesHold, PTL

-----------------------------------------------------------------------------
(* No row is passed over *)

\* An event that tells of a row.
IsEnd(e) == e # None /\ e.type = "disconnected"

\* The events a session has yet to forward tell of rows, oldest first, and the event that
\* is about to be broadcast of a later one.
InOrder(inbox, table, out) ==
    \A i \in DOMAIN inbox : IsEnd(inbox[i]) =>
        /\ \E r \in table : r.id = inbox[i].sequence
        /\ \A j \in DOMAIN inbox :
              i < j /\ IsEnd(inbox[j]) => inbox[i].sequence < inbox[j].sequence
        /\ IsEnd(out) => inbox[i].sequence < out.sequence

\* The event of a row is on its way to a session.
Underway(id, inbox, out) ==
    \/ \E i \in DOMAIN inbox : IsEnd(inbox[i]) /\ inbox[i].sequence = id
    \/ IsEnd(out) /\ out.sequence = id

\* What a replay has yet to send is all of the table from the mark of the dashboard on, up
\* to the newest record.
ReplaysAll(x, table, seen) ==
    /\ x.records \subseteq table
    /\ x.phase # "replaying" => x.records = {}
    /\ \A r \in x.records, q \in table : seen < q.id /\ q.id <= r.id => q \in x.records

\* A row the dashboard has not seen is still to come.
NothingLost(x, table, out, seen) ==
    x.phase \in {"replaying", "live"} =>
        \A r \in table : seen < r.id => r \in x.records \/ Underway(r.id, x.inbox, out)

Follows(x, table, out, seen) ==
    /\ x.last <= seen
    /\ InOrder(x.inbox, table, out)
    /\ ReplaysAll(x, table, seen)
    /\ NothingLost(x, table, out, seen)

\* The mark of the dashboard and the event about to be broadcast are of rows.
MarksAreRows ==
    /\ view.maxSeen = 0 \/ \E r \in rows : r.id = view.maxSeen
    /\ IsEnd(outgoing) => \E r \in rows : r.id = outgoing.sequence

FeedInv ==
    /\ FeedTypes /\ MarksAreRows
    /\ \A s \in Sessions : Follows(session[s], rows, outgoing, view.maxSeen)

\* Replays are whole: HistoryLimit does not cut them, and no query fails midway.
ReplaysAreWhole ==
    \A s \in Sessions : session[s].phase = "querying" =>
        RowsSince(session[s].last) = {r \in rows : r.id > session[s].last}

Acknowledged == ~AcksMayBeLost /\ ~ReplaysMayFail

-----------------------------------------------------------------------------
(* A session that does not move *)

\* A mark may only rise.
LEMMA MarkRises ==
    ASSUME NEW x \in Session, NEW table \in SUBSET Row, NEW out \in WsEvent \cup {None},
           NEW seen \in Nat, NEW mark \in Nat, seen <= mark, Follows(x, table, out, seen)
    PROVE  Follows(x, table, out, mark)
<1>1. x.last \in Nat /\ \A r \in table : r.id \in Nat
  BY SessionFields DEF Row
<1>2. x.last <= mark
  BY <1>1 DEF Follows
<1>3. \A r \in table : mark < r.id => seen < r.id
  BY <1>1
<1> QED
  BY <1>2, <1>3 DEF Follows, ReplaysAll, NothingLost

\* An event that tells of no row changes nothing.
LEMMA SilentEvent ==
    ASSUME NEW x \in Session, NEW table \in SUBSET Row, NEW out, NEW e, NEW seen \in Nat,
           ~IsEnd(out), ~IsEnd(e), Follows(x, table, out, seen)
    PROVE  Follows(x, table, e, seen)
BY DEF Follows, InOrder, NothingLost, Underway

\* A new row is about to be broadcast.
LEMMA RowFollows ==
    ASSUME NEW x \in Session, NEW table \in SUBSET Row, NEW seen \in Nat,
           NEW row \in Row, \A r \in table : r.id < row.id,
           NEW e \in WsEvent, e.type = "disconnected", e.sequence = row.id,
           Follows(x, table, None, seen)
    PROVE  Follows(x, table \cup {row}, e, seen)
<1>1. IsEnd(e)
  BY NoneIsNoEvent DEF IsEnd
<1>2. InOrder(x.inbox, table \cup {row}, e)
  <2> SUFFICES ASSUME NEW i \in DOMAIN x.inbox, IsEnd(x.inbox[i])
               PROVE  /\ \E r \in table \cup {row} : r.id = x.inbox[i].sequence
                      /\ \A j \in DOMAIN x.inbox : i < j /\ IsEnd(x.inbox[j])
                            => x.inbox[i].sequence < x.inbox[j].sequence
                      /\ x.inbox[i].sequence < e.sequence
    BY <1>1 DEF InOrder
  <2>1. PICK r \in table : r.id = x.inbox[i].sequence
    BY DEF Follows, InOrder
  <2> QED
    BY <2>1 DEF Follows, InOrder
<1>3. ReplaysAll(x, table \cup {row}, seen)
  <2>1. \A r \in x.records : r \in table /\ r.id < row.id /\ r.id \in Nat
    BY DEF Follows, ReplaysAll, Row
  <2>2. row.id \in Nat
    BY DEF Row
  <2> QED
    BY <2>1, <2>2 DEF Follows, ReplaysAll
<1>4. NothingLost(x, table \cup {row}, e, seen)
  BY <1>1 DEF Follows, NothingLost, Underway, IsEnd
<1> QED
  BY <1>2, <1>3, <1>4 DEF Follows

\* The broadcast queues the event.
LEMMA BroadcastFollows ==
    ASSUME NEW x \in Session, NEW table \in SUBSET Row, NEW seen \in Nat,
           NEW e \in WsEvent, IsEnd(e) => \E r \in table : r.id = e.sequence,
           Follows(x, table, e, seen)
    PROVE  Follows([x EXCEPT !.inbox = Append(@, e)], table, None, seen)
<1> DEFINE q == x.inbox  y == [x EXCEPT !.inbox = Append(@, e)]
<1>1. /\ q \in Seq(WsEvent) /\ Append(q, e) \in Seq(WsEvent)
      /\ DOMAIN q = 1..Len(q) /\ DOMAIN Append(q, e) = 1..(Len(q) + 1) /\ Len(q) \in Nat
      /\ Append(q, e)[Len(q) + 1] = e
      /\ \A i \in 1..Len(q) : Append(q, e)[i] = q[i]
  BY SessionFields, AppendProperties, LenProperties
<1>2. /\ y.inbox = Append(q, e) /\ y.last = x.last /\ y.phase = x.phase
      /\ y.records = x.records
  BY DEF Session
<1>3. ~IsEnd(None)
  BY DEF IsEnd
<1>4. InOrder(Append(q, e), table, None)
  <2> SUFFICES ASSUME NEW i \in 1..(Len(q) + 1), IsEnd(Append(q, e)[i])
               PROVE  /\ \E r \in table : r.id = Append(q, e)[i].sequence
                      /\ \A j \in 1..(Len(q) + 1) : i < j /\ IsEnd(Append(q, e)[j])
                            => Append(q, e)[i].sequence < Append(q, e)[j].sequence
    BY <1>1, <1>3 DEF InOrder
  <2>1. CASE i = Len(q) + 1
    BY <1>1, <2>1
  <2>2. CASE i \in 1..Len(q)
    <3>1. IsEnd(q[i]) /\ Append(q, e)[i] = q[i]
      BY <1>1, <2>2
    <3>2. \E r \in table : r.id = q[i].sequence
      BY <1>1, <2>2, <3>1 DEF Follows, InOrder
    <3>3. ASSUME NEW j \in 1..(Len(q) + 1), i < j, IsEnd(Append(q, e)[j])
          PROVE  q[i].sequence < Append(q, e)[j].sequence
      <4>1. CASE j = Len(q) + 1
        BY <1>1, <2>2, <3>1, <3>3, <4>1 DEF Follows, InOrder
      <4>2. CASE j \in 1..Len(q)
        BY <1>1, <2>2, <3>1, <3>3, <4>2 DEF Follows, InOrder
      <4> QED
        BY <1>1, <4>1, <4>2
    <3> QED
      BY <3>1, <3>2, <3>3
  <2> QED
    BY <1>1, <2>1, <2>2
<1>5. \A id : Underway(id, q, e) => Underway(id, Append(q, e), None)
  <2> SUFFICES ASSUME NEW id, Underway(id, q, e) PROVE Underway(id, Append(q, e), None)
    OBVIOUS
  <2>1. CASE IsEnd(e) /\ e.sequence = id
    BY <1>1, <2>1 DEF Underway
  <2>2. ASSUME NEW i \in DOMAIN q, IsEnd(q[i]), q[i].sequence = id
        PROVE  Underway(id, Append(q, e), None)
    <3>1. i \in DOMAIN Append(q, e) /\ Append(q, e)[i] = q[i]
      BY <1>1
    <3> QED
      BY <2>2, <3>1 DEF Underway
  <2> QED
    BY <2>1, <2>2 DEF Underway
<1> HIDE DEF y
<1>6. ReplaysAll(y, table, seen) /\ NothingLost(y, table, None, seen) /\ y.last <= seen
  BY <1>2, <1>5 DEF Follows, ReplaysAll, NothingLost
<1> QED
  BY <1>2, <1>4, <1>6 DEF Follows, y

-----------------------------------------------------------------------------
(* A session that moves *)

\* A session that is not up yet has nothing to fulfil but the order of its inbox.
LEMMA PreparingFollows ==
    ASSUME NEW x \in Session, NEW y \in Session, NEW table \in SUBSET Row,
           NEW out, NEW seen \in Nat, Follows(x, table, out, seen),
           y.phase \notin {"replaying", "live"}, y.records = {}, y.last <= seen,
           y.inbox = x.inbox
    PROVE  Follows(y, table, out, seen)
BY DEF Follows, ReplaysAll, NothingLost

\* A closed one has nothing at all.
LEMMA ClosedFollows ==
    ASSUME NEW table, NEW out, NEW seen \in Nat
    PROVE  Follows(Closed, table, out, seen)
BY DEF Follows, Closed, InOrder, ReplaysAll, NothingLost

\* A session that lagged keeps the order of what is left.
LEMMA LagFollows ==
    ASSUME NEW x \in Session, NEW table \in SUBSET Row, NEW out, NEW seen \in Nat,
           Follows(x, table, out, seen), x.phase = "live",
           Len(x.inbox) > BroadcastCapacity
    PROVE  Follows([x EXCEPT !.phase = "querying",
                             !.inbox = SubSeq(@, Len(@) - BroadcastCapacity + 1, Len(@))],
                   table, out, seen)
<1> DEFINE q == x.inbox
           k == Len(q) - BroadcastCapacity
           left == SubSeq(q, k + 1, Len(q))
           y == [x EXCEPT !.phase = "querying", !.inbox = left]
<1>1. /\ q \in Seq(WsEvent) /\ Len(q) \in Nat /\ DOMAIN q = 1..Len(q)
      /\ BroadcastCapacity \in Nat \ {0} /\ k \in Nat
  BY SessionFields, LenProperties, FeedConstants
<1>2. k + 1 \in 1..Len(q) /\ Len(q) - (k + 1) + 1 = BroadcastCapacity
  BY <1>1
<1>3. /\ Len(left) = BroadcastCapacity /\ left \in Seq(WsEvent)
      /\ \A i \in 1..BroadcastCapacity : left[i] = q[(k + 1) + i - 1]
  BY <1>1, <1>2, SubSeqProperties
<1>4. DOMAIN left = 1..BroadcastCapacity
  BY <1>3, LenProperties
<1>5. \A i \in DOMAIN left : i + k \in DOMAIN q /\ left[i] = q[i + k]
  <2> SUFFICES ASSUME NEW i \in 1..BroadcastCapacity
               PROVE  i + k \in DOMAIN q /\ left[i] = q[i + k]
    BY <1>4
  <2>1. left[i] = q[(k + 1) + i - 1]
    BY <1>3
  <2> HIDE DEF left
  <2>2. (k + 1) + i - 1 = i + k /\ i + k \in 1..Len(q)
    BY <1>1
  <2> QED
    BY <1>1, <2>1, <2>2
<1>6. InOrder(left, table, out)
  <2>1. InOrder(q, table, out) /\ DOMAIN left \subseteq Nat
    BY <1>4 DEF Follows
  <2> HIDE DEF left, q, k
  <2> QED
    BY <1>1, <1>5, <2>1 DEF InOrder
<1>7. y.inbox = left /\ y.phase = "querying" /\ y.last = x.last /\ y.records = {}
  BY DEF Session, Follows, ReplaysAll
<1> HIDE DEF left
<1> QED
  BY <1>6, <1>7 DEF Follows, ReplaysAll, NothingLost, left

\* The query returns all that the dashboard has not seen.
LEMMA QueryFollows ==
    ASSUME NEW x \in Session, NEW table \in SUBSET Row, NEW out, NEW seen \in Nat,
           Follows(x, table, out, seen), x.phase = "querying"
    PROVE  Follows([x EXCEPT !.phase = "replaying",
                             !.records = {r \in table : r.id > x.last}], table, out, seen)
<1> DEFINE y == [x EXCEPT !.phase = "replaying", !.records = {r \in table : r.id > x.last}]
<1>1. /\ y.inbox = x.inbox /\ y.last = x.last /\ y.phase = "replaying"
      /\ y.records = {r \in table : r.id > x.last}
  BY DEF Session
<1>2. x.last \in Nat /\ x.last <= seen /\ \A r \in table : r.id \in Nat
  BY SessionFields DEF Row, Follows
<1>3. \A r \in table : seen < r.id => r \in y.records
  BY <1>1, <1>2
<1> HIDE DEF y
<1>4. ReplaysAll(y, table, seen) /\ NothingLost(y, table, out, seen)
  BY <1>1, <1>3 DEF ReplaysAll, NothingLost
<1> QED
  BY <1>1, <1>4 DEF Follows, y

\* A replay that is through leaves the rest to the broadcasts.
LEMMA EndFollows ==
    ASSUME NEW x \in Session, NEW table \in SUBSET Row, NEW out, NEW seen \in Nat,
           Follows(x, table, out, seen), x.phase = "replaying", x.records = {}
    PROVE  Follows([x EXCEPT !.phase = "live", !.records = {}], table, out, seen)
BY DEF Follows, Session, ReplaysAll, NothingLost

\* The oldest record of a replay is the next row.
LEMMA RecordFollows ==
    ASSUME NEW x \in Session, NEW table \in SUBSET Row, NEW out, NEW seen \in Nat,
           Follows(x, table, out, seen), x.phase = "replaying",
           NEW r \in x.records, \A q \in x.records : r.id <= q.id,
           NEW mark \in Nat, seen <= mark, r.id <= mark, mark = seen \/ mark = r.id
    PROVE  /\ r \in table /\ ~ \E q \in table : seen < q.id /\ q.id < r.id
           /\ Follows([x EXCEPT !.records = @ \ {r}, !.last = r.id], table, out, mark)
<1> DEFINE y == [x EXCEPT !.records = @ \ {r}, !.last = r.id]
<1>1. /\ y.inbox = x.inbox /\ y.last = r.id /\ y.phase = "replaying"
      /\ y.records = x.records \ {r}
  BY DEF Session
<1>2. r \in table /\ r.id \in Nat /\ \A q \in table : q.id \in Nat
  BY DEF Row, Follows, ReplaysAll
<1>3. ~ \E q \in table : seen < q.id /\ q.id < r.id
  BY <1>2 DEF Follows, ReplaysAll
<1> HIDE DEF y
<1>4. ReplaysAll(y, table, mark)
  BY <1>1, <1>2 DEF Follows, ReplaysAll
<1>5. NothingLost(y, table, out, mark)
  BY <1>1, <1>2 DEF Follows, NothingLost
<1> QED
  BY <1>1, <1>2, <1>3, <1>4, <1>5 DEF Follows, y

\* The event at the head of a live session's inbox, when it tells of a row, tells of the
\* next one.
LEMMA ForwardFollows ==
    ASSUME NEW x \in Session, NEW table \in SUBSET Row, NEW out, NEW seen \in Nat,
           Follows(x, table, out, seen), x.phase = "live", x.inbox # << >>,
           IsEnd(out) => \E r \in table : r.id = out.sequence,
           NEW mark \in Nat, NEW last \in Nat,
           IsEnd(Head(x.inbox)) => /\ last = Head(x.inbox).sequence
                                   /\ mark = IF last <= seen THEN seen ELSE last,
           ~IsEnd(Head(x.inbox)) => last = x.last /\ mark = seen
    PROVE  /\ IsEnd(Head(x.inbox)) =>
                 /\ \E r \in table : r.id = last
                 /\ ~ \E r \in table : seen < r.id /\ r.id < last
           /\ Follows([x EXCEPT !.inbox = Tail(@), !.last = last], table, out, mark)
<1> DEFINE q == x.inbox
           y == [x EXCEPT !.inbox = Tail(@), !.last = last]
<1>1. /\ q \in Seq(WsEvent) /\ Len(q) \in Nat /\ DOMAIN q = 1..Len(q) /\ 1 \in DOMAIN q
      /\ Head(q) = q[1] /\ Head(q) \in WsEvent /\ x.last \in Nat
  BY SessionFields, LenProperties, HeadTailProperties, EmptySeq
<1>2. /\ DOMAIN Tail(q) = 1..(Len(q) - 1)
      /\ \A i \in 1..(Len(q) - 1) : i + 1 \in DOMAIN q /\ Tail(q)[i] = q[i + 1]
  BY <1>1, LenProperties, HeadTailProperties
<1>3. /\ y.inbox = Tail(q) /\ y.last = last /\ y.phase = "live" /\ y.records = x.records
      /\ x.records = {}
  BY DEF Session, Follows, ReplaysAll
<1> HIDE DEF y, q
<1>4. InOrder(q, table, out) /\ NothingLost(x, table, out, seen) /\ x.last <= seen
  BY DEF Follows, q
<1>5. InOrder(Tail(q), table, out)
  <2> SUFFICES ASSUME NEW i \in 1..(Len(q) - 1), IsEnd(Tail(q)[i])
               PROVE  /\ \E r \in table : r.id = Tail(q)[i].sequence
                      /\ \A j \in 1..(Len(q) - 1) : i < j /\ IsEnd(Tail(q)[j])
                            => Tail(q)[i].sequence < Tail(q)[j].sequence
                      /\ IsEnd(out) => Tail(q)[i].sequence < out.sequence
    BY <1>2 DEF InOrder
  <2>1. i + 1 \in DOMAIN q /\ Tail(q)[i] = q[i + 1]
    BY <1>2
  <2>2. \A j \in 1..(Len(q) - 1) :
            j + 1 \in DOMAIN q /\ Tail(q)[j] = q[j + 1] /\ (i < j => i + 1 < j + 1)
    BY <1>2
  <2> QED
    BY <1>4, <2>1, <2>2 DEF InOrder
<1>6. \A id : Underway(id, q, out) =>
          Underway(id, Tail(q), out) \/ (IsEnd(q[1]) /\ q[1].sequence = id)
  <2> SUFFICES ASSUME NEW id, NEW i \in DOMAIN q, IsEnd(q[i]), q[i].sequence = id, i # 1
               PROVE  Underway(id, Tail(q), out)
    BY DEF Underway
  <2>1. i - 1 \in 1..(Len(q) - 1) /\ (i - 1) + 1 = i
    BY <1>1
  <2> QED
    BY <1>2, <2>1 DEF Underway
<1>7. CASE IsEnd(q[1])
  <2>1. last = q[1].sequence /\ \E r \in table : r.id = last
    BY <1>1, <1>4, <1>7 DEF InOrder, q
  <2>2. ASSUME NEW id \in Nat, Underway(id, q, out) PROVE last <= id
    <3>1. CASE IsEnd(out) /\ out.sequence = id
      BY <1>1, <1>4, <1>7, <2>1, <3>1 DEF InOrder
    <3>2. ASSUME NEW i \in DOMAIN q, IsEnd(q[i]), q[i].sequence = id PROVE last <= id
      <4>1. CASE i = 1
        BY <2>1, <3>2, <4>1
      <4>2. CASE i # 1
        <5>1. 1 < i
          BY <1>1, <4>2
        <5> QED
          BY <1>1, <1>4, <1>7, <2>1, <3>2, <5>1 DEF InOrder
      <4> QED
        BY <4>1, <4>2
    <3> QED
      BY <2>2, <3>1, <3>2 DEF Underway
  <2>3. ASSUME NEW r \in table, seen < r.id PROVE Underway(r.id, q, out)
    BY <1>3, <1>4, <2>3 DEF NothingLost, q
  <2>4. \A r \in table : r.id \in Nat
    BY DEF Row
  <2>5. ~ \E r \in table : seen < r.id /\ r.id < last
    BY <2>2, <2>3, <2>4
  <2>6. mark = IF last <= seen THEN seen ELSE last
    BY <1>1, <1>7 DEF q
  <2>7. ASSUME NEW r \in table, mark < r.id PROVE Underway(r.id, Tail(q), out)
    BY <1>6, <2>1, <2>3, <2>4, <2>6, <2>7
  <2>8. Follows(y, table, out, mark)
    BY <1>3, <1>5, <2>6, <2>7 DEF Follows, ReplaysAll, NothingLost
  <2> QED
    BY <1>1, <2>1, <2>5, <2>8 DEF y, q
<1>8. CASE ~IsEnd(q[1])
  <2>1. last = x.last /\ mark = seen
    BY <1>1, <1>8 DEF q
  <2>2. \A r \in table : mark < r.id => Underway(r.id, Tail(q), out)
    BY <1>3, <1>4, <1>6, <1>8, <2>1 DEF NothingLost, q
  <2>3. Follows(y, table, out, mark)
    BY <1>3, <1>4, <1>5, <2>1, <2>2 DEF Follows, ReplaysAll, NothingLost
  <2> QED
    BY <1>1, <1>8, <2>3 DEF y, q
<1> QED
  BY <1>7, <1>8

-----------------------------------------------------------------------------
(* Every step *)

\* No session is open at the start, so that none has anything to fulfil.
LEMMA FeedInvInit == Init => FeedInv
<1> SUFFICES ASSUME Init PROVE FeedInv
  OBVIOUS
<1>1. MarksAreRows
  BY DEF Init, MarksAreRows, IsEnd
<1>2. \A s \in Sessions : Follows(session[s], rows, outgoing, view.maxSeen)
  BY ClosedFollows DEF Init
<1> QED
  BY <1>1, <1>2, TypesInit DEF FeedInv

\* What a disconnected event does to the marks and the total of the dashboard.
MarkedBy(id) ==
    /\ view'.maxSeen = IF id <= view.maxSeen THEN view.maxSeen ELSE id
    /\ view'.lastCounted = view.lastCounted
    /\ view'.total = IF id <= view.maxSeen \/ id <= view.lastCounted
                     THEN view.total ELSE view.total + 1

\* The next row, or an old one, is delivered.
Delivered(id) ==
    /\ \E r \in rows : r.id = id
    /\ ~ \E r \in rows : view.maxSeen < r.id /\ r.id < id
    /\ MarkedBy(id)

\* None is, and but for the init message the total stays.
NoneDelivered(s) ==
    /\ view'.maxSeen = view.maxSeen
    /\ SendInit(s) \/ (view'.lastCounted = view.lastCounted /\ view'.total = view.total)

\* The step of a session shows nothing or delivers a row, and the session goes on to follow.
LEMMA FollowStep ==
    ASSUME FeedInv, ReplaysAreWhole, Acknowledged,
           NEW s \in Sessions, Follow(s) \/ Dial(s) \/ Close(s)
    PROVE  /\ NoneDelivered(s) \/ \E id \in Nat : Delivered(id)
           /\ Follows(session'[s], rows, outgoing, view'.maxSeen)
<1> DEFINE x == session[s]
<1>1. /\ x \in Session /\ session \in [Sessions -> Session] /\ view \in View
      /\ view.maxSeen \in Nat /\ rows \in SUBSET Row
      /\ Follows(x, rows, outgoing, view.maxSeen)
  BY DEF FeedInv, FeedTypes, TypeOK, View
<1>2. /\ x.last <= view.maxSeen /\ x.records \subseteq rows
      /\ x.phase # "replaying" => x.records = {}
  BY <1>1 DEF Follows, ReplaysAll
<1>3. ASSUME NEW id \in Nat, NEW c, view' = OnDisconnected(view, c, id) PROVE MarkedBy(id)
  BY <1>1, <1>3 DEF OnDisconnected, MarkedBy, View
<1>4. ASSUME NoneDelivered(s), Follows(session'[s], rows, outgoing, view.maxSeen)
      PROVE  /\ NoneDelivered(s) \/ \E id \in Nat : Delivered(id)
             /\ Follows(session'[s], rows, outgoing, view'.maxSeen)
  BY <1>4 DEF NoneDelivered
<1>5. \E y \in Session : session' = [session EXCEPT ![s] = y]
  BY FollowSession DEF FeedInv
<1>6. session'[s] \in Session
  BY <1>1, <1>5
<1>7. CASE \/ Subscribe(s) \/ GetTotals(s) \/ TotalsFail(s) \/ SendInit(s)
           \/ Dial(s) \/ \E c \in Conns : ReadEntry(s, c)
  <2>1. NoneDelivered(s)
    <3>1. CASE SendInit(s)
      BY <1>1, <3>1 DEF SendInit, OnInit, View, NoneDelivered
    <3>2. CASE ~SendInit(s)
      BY <1>7, <3>2 DEF Subscribe, GetTotals, TotalsFail, Dial, ReadEntry, NoneDelivered
    <3> QED
      BY <3>1, <3>2
  <2> DEFINE Prepares == /\ session'[s].phase \notin {"replaying", "live"}
                         /\ session'[s].records = {} /\ session'[s].inbox = x.inbox
                         /\ session'[s].last <= view.maxSeen
  <2>2. ASSUME Subscribe(s) PROVE Prepares
    BY <1>1, <1>2, <2>2 DEF Subscribe, Session
  <2>3. ASSUME GetTotals(s) \/ TotalsFail(s) PROVE Prepares
    <3>1. CASE GetTotals(s)
      BY <1>1, <1>2, <3>1 DEF GetTotals, Session
    <3>2. CASE TotalsFail(s)
      BY <1>1, <1>2, <3>2 DEF TotalsFail, Session
    <3> QED
      BY <2>3, <3>1, <3>2
  <2>4. ASSUME SendInit(s) PROVE Prepares
    BY <1>1, <1>2, <2>4 DEF SendInit, Session
  <2>5. ASSUME Dial(s) PROVE Prepares
    <3>1. PICK since \in {0} \cup {r.id : r \in rows} :
              since <= view.maxSeen
              /\ session' = [session EXCEPT ![s].phase = "dialled", ![s].last = since]
      BY <2>5 DEF Dial
    <3>2. x.phase = "closed"
      BY <2>5 DEF Dial
    <3> QED
      BY <1>1, <1>2, <3>1, <3>2 DEF Session
  <2>6. ASSUME NEW c \in Conns, ReadEntry(s, c) PROVE Prepares
    BY <1>1, <1>2, <2>6 DEF ReadEntry, Session
  <2>7. Prepares
    BY <1>7, <2>2, <2>3, <2>4, <2>5, <2>6
  <2> QED
    BY <1>1, <1>4, <1>6, <2>1, <2>7, PreparingFollows
<1>8. CASE QueryHistory(s)
  <2>1. /\ x.phase = "querying" /\ view' = view
        /\ session'[s] = [x EXCEPT !.phase = "replaying", !.records = RowsSince(x.last)]
    BY <1>1, <1>8 DEF QueryHistory
  <2>2. RowsSince(x.last) = {r \in rows : r.id > x.last}
    BY <2>1 DEF ReplaysAreWhole
  <2>3. Follows([x EXCEPT !.phase = "replaying", !.records = {r \in rows : r.id > x.last}],
                rows, outgoing, view.maxSeen)
    BY <1>1, <2>1, QueryFollows
  <2> QED
    BY <1>4, <2>1, <2>2, <2>3 DEF NoneDelivered
<1>9. CASE SendRecord(s)
  <2>1. PICK r \in x.records :
            /\ \A q \in x.records : r.id <= q.id
            /\ session' = [session EXCEPT ![s].records = @ \ {r}, ![s].last = r.id]
            /\ view' = OnDisconnected(view, r.conn, r.id)
    BY <1>9 DEF SendRecord
  <2>2. session'[s] = [x EXCEPT !.records = @ \ {r}, !.last = r.id]
    BY <1>1, <2>1
  <2>3. r \in rows /\ r.id \in Nat
    BY <1>1, <1>2 DEF Row
  <2>4. /\ MarkedBy(r.id)
        /\ view'.maxSeen = view.maxSeen \/ view'.maxSeen = r.id
        /\ view'.maxSeen \in Nat /\ view.maxSeen <= view'.maxSeen /\ r.id <= view'.maxSeen
    BY <1>1, <1>3, <2>1, <2>3 DEF MarkedBy
  <2>5. x.phase = "replaying"
    BY <1>9 DEF SendRecord
  <2>6. /\ ~ \E q \in rows : view.maxSeen < q.id /\ q.id < r.id
        /\ Follows(session'[s], rows, outgoing, view'.maxSeen)
    BY <1>1, <2>1, <2>2, <2>4, <2>5, RecordFollows
  <2>7. Delivered(r.id)
    BY <2>3, <2>4, <2>6 DEF Delivered
  <2>8. \E id \in Nat : Delivered(id)
    BY <2>3, <2>7
  <2> QED
    BY <2>6, <2>8
<1>10. CASE EndReplay(s)
  <2>1. /\ x.phase = "replaying" /\ x.records = {} /\ view' = view
        /\ session'[s] = [x EXCEPT !.phase = "live", !.records = {}]
    BY <1>1, <1>10 DEF EndReplay, Acknowledged
  <2>2. Follows([x EXCEPT !.phase = "live", !.records = {}], rows, outgoing, view.maxSeen)
    BY <1>1, <2>1, EndFollows
  <2> QED
    BY <1>4, <2>1, <2>2 DEF NoneDelivered
<1>11. CASE Forward(s)
  <2> DEFINE e == Head(x.inbox)
             last == IF e.type = "disconnected" THEN e.sequence ELSE x.last
  <2>1. /\ x.phase = "live" /\ x.inbox # << >> /\ view' = OnEvent(view, e)
        /\ session'[s] = [x EXCEPT !.inbox = Tail(@), !.last = last]
    BY <1>1, <1>11 DEF Forward
  <2>2. e \in WsEvent /\ e.sequence \in Nat /\ x.last \in Nat
    <3>1. x.inbox \in Seq(WsEvent) /\ x.last \in Nat
      BY <1>1, SessionFields
    <3>2. e \in WsEvent
      BY <2>1, <3>1, HeadTailProperties
    <3> QED
      BY <3>1, <3>2 DEF WsEvent
  <2>3. IsEnd(e) <=> e.type = "disconnected"
    BY <2>2, NoneIsNoEvent DEF IsEnd
  <2>4. IsEnd(outgoing) => \E r \in rows : r.id = outgoing.sequence
    BY DEF FeedInv, MarksAreRows
  <2>5. IsEnd(e) => last = e.sequence /\ MarkedBy(last)
    BY <1>3, <2>1, <2>2, <2>3 DEF OnEvent
  <2>6. ~IsEnd(e) => last = x.last /\ NoneDelivered(s)
    <3>1. ASSUME ~IsEnd(e), \/ OnConnected(view, e.conn) = view'
                            \/ OnBytesSent(view, e.conn, e.bytes) = view'
          PROVE  NoneDelivered(s)
      BY <1>1, <3>1 DEF OnConnected, OnBytesSent, View, NoneDelivered
    <3> QED
      BY <2>1, <2>2, <2>3, <3>1 DEF OnEvent, WsEvent
  <2>7. /\ last \in Nat /\ view'.maxSeen \in Nat
        /\ IsEnd(e) => view'.maxSeen = IF last <= view.maxSeen THEN view.maxSeen ELSE last
        /\ ~IsEnd(e) => view'.maxSeen = view.maxSeen
    BY <1>1, <2>2, <2>5, <2>6 DEF MarkedBy, NoneDelivered
  <2> HIDE DEF last
  <2>8. /\ IsEnd(e) => /\ \E r \in rows : r.id = last
                       /\ ~ \E r \in rows : view.maxSeen < r.id /\ r.id < last
        /\ Follows(session'[s], rows, outgoing, view'.maxSeen)
    <3> DEFINE y == [x EXCEPT !.inbox = Tail(@), !.last = last]
    <3>1. /\ IsEnd(e) => /\ \E r \in rows : r.id = last
                         /\ ~ \E r \in rows : view.maxSeen < r.id /\ r.id < last
          /\ Follows(y, rows, outgoing, view'.maxSeen)
      <4>1. /\ x \in Session /\ rows \in SUBSET Row /\ x.phase = "live" /\ x.inbox # << >>
            /\ last \in Nat /\ view.maxSeen \in Nat /\ view'.maxSeen \in Nat
            /\ Follows(x, rows, outgoing, view.maxSeen)
        BY <1>1, <2>1, <2>7
      <4>2. /\ IsEnd(Head(x.inbox)) =>
                  /\ last = Head(x.inbox).sequence
                  /\ view'.maxSeen = IF last <= view.maxSeen THEN view.maxSeen ELSE last
            /\ ~IsEnd(Head(x.inbox)) => last = x.last /\ view'.maxSeen = view.maxSeen
        BY <2>5, <2>6, <2>7
      <4> HIDE DEF x
      <4> QED
        BY <2>4, <4>1, <4>2, ForwardFollows
    <3> QED
      BY <2>1, <3>1
  <2>9. IsEnd(e) => Delivered(last)
    BY <2>5, <2>8 DEF Delivered
  <2>10. NoneDelivered(s) \/ \E id \in Nat : Delivered(id)
    BY <2>6, <2>7, <2>9
  <2> QED
    BY <2>8, <2>10
<1>12. CASE Lag(s)
  <2>1. /\ x.phase = "live" /\ Len(x.inbox) > BroadcastCapacity /\ view' = view
        /\ session'[s] = [x EXCEPT !.phase = "querying",
               !.inbox = SubSeq(@, Len(@) - BroadcastCapacity + 1, Len(@))]
    BY <1>1, <1>12 DEF Lag, Lags
  <2>2. Follows([x EXCEPT !.phase = "querying",
                          !.inbox = SubSeq(@, Len(@) - BroadcastCapacity + 1, Len(@))],
                rows, outgoing, view.maxSeen)
    BY <1>1, <2>1, LagFollows
  <2> QED
    BY <1>4, <2>1, <2>2 DEF NoneDelivered
<1>13. CASE Close(s)
  <2>1. session'[s] = Closed /\ view' = view
    BY <1>1, <1>13 DEF Close
  <2> QED
    BY <1>1, <1>4, <2>1, ClosedFollows DEF NoneDelivered
<1> QED
  BY <1>7, <1>8, <1>9, <1>10, <1>11, <1>12, <1>13 DEF Follow

\* Every step keeps every session following the table.
LEMMA FeedInvStep ==
    FeedInv /\ ReplaysAreWhole /\ Acknowledged /\ [Next]_feedVars => FeedInv'
<1> SUFFICES ASSUME FeedInv, ReplaysAreWhole, Acknowledged, [Next]_feedVars PROVE FeedInv'
  OBVIOUS
<1>1. FeedTypes'
  BY TypesStep DEF FeedInv
<1>2. /\ \A s \in Sessions : /\ session[s] \in Session
                             /\ Follows(session[s], rows, outgoing, view.maxSeen)
      /\ session \in [Sessions -> Session] /\ MarksAreRows
      /\ rows \in SUBSET Row /\ view.maxSeen \in Nat /\ outgoing \in WsEvent \cup {None}
  BY DEF FeedInv, FeedTypes, TypeOK, View
<1>3. CASE \/ \E c \in Conns : InsertEntry(c) \/ UpdateEntry(c) \/ RemoveEntry(c)
           \/ RecordFails
  <2>1. ~IsEnd(outgoing) /\ ~IsEnd(outgoing') /\ UNCHANGED <<rows, session, view>>
    BY <1>3 DEF InsertEntry, UpdateEntry, RemoveEntry, RecordFails, Ready, IsEnd,
                FeedInv, FeedTypes, TypeOK
  <2>2. \A s \in Sessions : Follows(session[s], rows, outgoing', view.maxSeen)
    BY <1>2, <2>1, SilentEvent
  <2> QED
    BY <1>1, <1>2, <2>1, <2>2 DEF FeedInv, MarksAreRows
<1>4. CASE Record
  <2> DEFINE row == [id |-> nextId, conn |-> writing]
  <2>1. /\ outgoing = None /\ writing \in Conns /\ nextId \in Nat \ {0}
        /\ rows' = rows \cup {row} /\ UNCHANGED <<session, view>>
        /\ outgoing'.type = "disconnected" /\ outgoing'.sequence = nextId
        /\ \A r \in rows : r.id < nextId
    BY <1>4 DEF Record, FeedInv, FeedTypes, TypeOK, IdsAreUnique
  <2>2. outgoing' \in WsEvent
    BY <1>4, <2>1 DEF Record, WsEvent
  <2>3. row \in Row /\ row.id = nextId
    BY <2>1 DEF Row
  <2>4. \A s \in Sessions : Follows(session[s], rows', outgoing', view.maxSeen)
    BY <1>2, <2>1, <2>2, <2>3, RowFollows
  <2> QED
    BY <1>1, <1>2, <2>1, <2>3, <2>4 DEF FeedInv, MarksAreRows
<1>5. CASE Broadcast
  <2>1. /\ outgoing \in WsEvent /\ outgoing' = None /\ UNCHANGED <<rows, view>>
    BY <1>2, <1>5 DEF Broadcast
  <2>2. ~IsEnd(outgoing')
    BY <2>1 DEF IsEnd
  <2>3. ASSUME NEW s \in Sessions
        PROVE  Follows(session'[s], rows, None, view.maxSeen)
    <3>1. CASE Subscribed(s)
      <4>1. session'[s] = [session[s] EXCEPT !.inbox = Append(@, outgoing)]
        BY <1>5, <3>1 DEF Broadcast
      <4> QED
        BY <1>2, <2>1, <4>1, BroadcastFollows DEF MarksAreRows
    <3>2. CASE ~Subscribed(s)
      <4>1. session'[s] = session[s] /\ session[s].phase \notin {"replaying", "live"}
        BY <1>5, <3>2 DEF Broadcast, Subscribed
      <4> QED
        BY <1>2, <4>1 DEF Follows, InOrder, NothingLost, IsEnd
    <3> QED
      BY <3>1, <3>2
  <2> QED
    BY <1>1, <1>2, <2>1, <2>2, <2>3 DEF FeedInv, MarksAreRows
<1>6. ASSUME NEW s \in Sessions, Follow(s) \/ Dial(s) \/ Close(s) PROVE FeedInv'
  <2>1. /\ NoneDelivered(s) \/ \E id \in Nat : Delivered(id)
        /\ Follows(session'[s], rows, outgoing, view'.maxSeen)
    BY <1>6, FollowStep
  <2>2. view.maxSeen <= view'.maxSeen /\ view'.maxSeen \in Nat
        /\ (view'.maxSeen = 0 \/ \E r \in rows : r.id = view'.maxSeen)
    BY <1>2, <2>1 DEF Delivered, MarkedBy, NoneDelivered, MarksAreRows
  <2>3. UNCHANGED <<rows, outgoing>>
    BY <1>6, FollowFrame DEF processorVars
  <2>4. \A t \in Sessions \ {s} : session'[t] = session[t]
    BY <1>2, <1>6, FollowSession DEF FeedInv
  <2>5. \A t \in Sessions : Follows(session'[t], rows, outgoing, view'.maxSeen)
    BY <1>2, <2>1, <2>2, <2>4, MarkRises
  <2> QED
    BY <1>1, <1>2, <2>2, <2>3, <2>5 DEF FeedInv, MarksAreRows
<1>7. CASE Crash
  <2>1. /\ ~IsEnd(outgoing') /\ UNCHANGED <<rows, view>>
        /\ \A s \in Sessions : session'[s] = Closed
    BY <1>7 DEF Crash, IsEnd
  <2>2. \A s \in Sessions : Follows(session'[s], rows, outgoing', view.maxSeen)
    BY <1>2, <2>1, ClosedFollows
  <2> QED
    BY <1>1, <1>2, <2>1, <2>2 DEF FeedInv, MarksAreRows
<1>8. CASE UNCHANGED feedVars
  BY <1>1, <1>2, <1>8 DEF feedVars, processorVars, FeedInv, MarksAreRows
<1>9. ~RecordUnacknowledged
  BY DEF Acknowledged, RecordUnacknowledged
<1> QED
  BY <1>3, <1>4, <1>5, <1>6, <1>7, <1>8, <1>9 DEF Next, Process

\* So every session follows the table in every reachable state.
LEMMA FeedInvHolds ==
    ASSUME Acknowledged PROVE Spec /\ []ReplaysAreWhole => []FeedInv
<1>1. FeedInv /\ ReplaysAreWhole /\ [Next]_feedVars => FeedInv'
  BY FeedInvStep
<1> QED
  BY <1>1, FeedInvInit, PTL DEF Spec

\* The high-water mark of a dashboard never jumps a row, whatever the order of reconnects,
\* replays, lags and restarts, for any number of sockets of the dashboard: as long as no
\* replay is cut short and no answer of a commit is lost.
THEOREM NothingIsPassedOver ==
    ASSUME Acknowledged PROVE Spec /\ []ReplaysAreWhole => NoRowSkipped
<1> DEFINE Moves == view.maxSeen < view'.maxSeen =>
               ~ \E r \in rows : view.maxSeen < r.id /\ r.id < view'.maxSeen
<1>1. FeedInv /\ ReplaysAreWhole /\ [Next]_feedVars => [Moves]_feedVars
  <2> SUFFICES ASSUME FeedInv, ReplaysAreWhole, Next PROVE Moves
    OBVIOUS
  <2>1. view.maxSeen \in Nat
    BY DEF FeedInv, FeedTypes, TypeOK, View
  <2>2. ASSUME NEW s \in Sessions, Follow(s) \/ Dial(s) \/ Close(s) PROVE Moves
    <3>1. NoneDelivered(s) \/ \E id \in Nat : Delivered(id)
      BY <2>2, FollowStep
    <3> QED
      BY <2>1, <3>1 DEF Delivered, MarkedBy, NoneDelivered
  <2>3. CASE Process \/ Crash
    BY <2>1, <2>3 DEF Process, Crash, Record, RecordFails, RecordUnacknowledged, Broadcast,
                      InsertEntry, UpdateEntry, RemoveEntry
  <2> QED
    BY <2>2, <2>3 DEF Next
<1>2. Spec => [][Next]_feedVars
  BY DEF Spec
<1> QED
  BY <1>1, <1>2, FeedInvHolds, PTL DEF NoRowSkipped

-----------------------------------------------------------------------------
(* No row is counted twice or left out *)

UpTo(id) == {r \in rows : r.id <= id}
Newest == IF view.lastCounted <= view.maxSeen THEN view.maxSeen ELSE view.lastCounted

\* What a session has counted and not yet sent covers all that the dashboard has seen.
CountCovers ==
    \A s \in Sessions : session[s].phase = "counted" =>
        /\ session[s].counted = Cardinality(UpTo(session[s].countedTo))
        /\ view.maxSeen <= session[s].countedTo
        /\ session[s].countedTo < nextId

CountInv ==
    /\ view.lastCounted < nextId
    /\ view.total = Cardinality(UpTo(Newest))
    /\ CountCovers

OneSession == \A s, t \in Sessions : s = t

\* The greater of two marks.
LEMMA PairMax ==
    ASSUME NEW a \in Nat, NEW b \in Nat
    PROVE  Max({a, b}) = IF a <= b THEN b ELSE a
<1> DEFINE S == {a, b}
<1>1. \E m \in S : \A n \in S : m >= n
  OBVIOUS
<1>2. Max(S) \in S /\ \A n \in S : Max(S) >= n
  <2> HIDE DEF S
  <2>1. Max(S) = CHOOSE m \in S : \A n \in S : m >= n
    BY DEF Max
  <2> QED
    BY <1>1, <2>1
<1> QED
  BY <1>2

\* The total moves by one from a row to the next.
LEMMA NextCounts ==
    ASSUME FeedTypes, NEW id \in Nat, NEW k \in Nat, k < id,
           \E r \in rows : r.id = id, ~ \E r \in rows : k < r.id /\ r.id < id
    PROVE  Cardinality(UpTo(id)) = Cardinality(UpTo(k)) + 1
<1>1. rows \in SUBSET Row /\ IsFiniteSet(rows) /\ \A q, r \in rows : q.id = r.id => q = r
  BY DEF FeedTypes, TypeOK, IdsAreUnique
<1>2. \A r \in rows : r.id \in Nat
  BY <1>1 DEF Row
<1>3. PICK row \in rows : row.id = id
  OBVIOUS
<1>4. UpTo(id) = UpTo(k) \cup {row} /\ row \notin UpTo(k)
  BY <1>1, <1>2, <1>3 DEF UpTo
<1>5. IsFiniteSet(UpTo(k))
  BY <1>1, FS_Subset DEF UpTo
<1> QED
  BY <1>4, <1>5, FS_AddElement

\* A new row is not among those counted before.
LEMMA NewRowIsAbove ==
    ASSUME FeedTypes, NEW id \in Nat, id < nextId,
           rows' = rows \/ \E row : row.id = nextId /\ rows' = rows \cup {row}
    PROVE  UpTo(id)' = UpTo(id)
BY DEF UpTo, FeedTypes, TypeOK

\* The newest row, or none, bounds the table.
LEMMA AllUpToNewest ==
    ASSUME FeedTypes
    PROVE  NewestId \in Nat /\ NewestId < nextId /\ UpTo(NewestId) = rows
<1>1. /\ rows \in SUBSET Row /\ nextId \in Nat \ {0}
      /\ \A r \in rows : r.id < nextId /\ r.id \in Nat
  BY DEF FeedTypes, TypeOK, IdsAreUnique, Row
<1>2. /\ NewestId \in {r.id : r \in rows} \cup {0} /\ NewestId \in Nat
      /\ \A r \in rows : r.id <= NewestId
  BY <1>1, NewestIdIsNewest
<1> QED
  BY <1>1, <1>2 DEF UpTo

\* Nothing is counted at the start.
LEMMA CountInvInit == Init => CountInv
<1> SUFFICES ASSUME Init PROVE CountInv
  OBVIOUS
<1>1. UpTo(Newest) = {} /\ view.total = 0 /\ view.lastCounted < nextId
  BY DEF Init, UpTo
<1>2. CountCovers
  BY DEF Init, CountCovers, Closed
<1> QED
  BY <1>1, <1>2, FS_EmptySet DEF CountInv

\* The total stays exact: rows are recorded above the marks, delivered one by one, and an
\* init that replaces the total covers all that the dashboard has seen.
LEMMA CountInvStep ==
    ASSUME OneSession, Acknowledged, ~TotalsMayFail
    PROVE  FeedInv /\ CountInv /\ ReplaysAreWhole /\ [Next]_feedVars => CountInv'
<1> SUFFICES ASSUME FeedInv, CountInv, ReplaysAreWhole, [Next]_feedVars PROVE CountInv'
  OBVIOUS
<1>1. /\ FeedTypes /\ MarksAreRows
      /\ \A s \in Sessions : session[s] \in Session /\ session[s].countedTo \in Nat
      /\ session \in [Sessions -> Session] /\ view \in View
      /\ view.maxSeen \in Nat /\ view.lastCounted \in Nat /\ view.total \in Nat
      /\ Newest \in Nat /\ rows \in SUBSET Row /\ nextId \in Nat
  BY SessionFields DEF FeedInv, FeedTypes, TypeOK, View, Newest
<1>2. view.maxSeen < nextId /\ Newest < nextId
  <2>1. view.maxSeen < nextId
    BY <1>1 DEF MarksAreRows, FeedTypes, IdsAreUnique, TypeOK
  <2> QED
    BY <1>1, <2>1 DEF CountInv, Newest
\* A step that leaves the view: the rows there are stay, and so does what was counted.
<1>3. ASSUME view' = view, nextId' \in Nat, nextId <= nextId',
             rows' = rows \/ \E row : row.id = nextId /\ rows' = rows \cup {row},
             \A s \in Sessions : session'[s].phase = "counted" =>
                /\ session[s].phase = "counted"
                /\ session'[s].counted = session[s].counted
                /\ session'[s].countedTo = session[s].countedTo
      PROVE  CountInv'
  <2>1. \A id \in Nat : id < nextId => {r \in rows' : r.id <= id} = UpTo(id)
    BY <1>1, <1>3, NewRowIsAbove DEF UpTo
  <2>2. CountCovers'
    <3> SUFFICES ASSUME NEW s \in Sessions, session'[s].phase = "counted"
                 PROVE  /\ session'[s].counted =
                              Cardinality({r \in rows' : r.id <= session'[s].countedTo})
                        /\ view'.maxSeen <= session'[s].countedTo
                        /\ session'[s].countedTo < nextId'
      BY DEF CountCovers, UpTo
    <3>1. /\ session[s].phase = "counted" /\ session[s].countedTo \in Nat
          /\ session'[s].counted = session[s].counted
          /\ session'[s].countedTo = session[s].countedTo
      BY <1>1, <1>3
    <3>2. /\ session[s].counted = Cardinality(UpTo(session[s].countedTo))
          /\ view.maxSeen <= session[s].countedTo /\ session[s].countedTo < nextId
      BY <3>1 DEF CountInv, CountCovers
    <3>3. session'[s].countedTo < nextId'
      BY <1>1, <1>3, <3>1, <3>2
    <3> QED
      BY <1>3, <2>1, <3>1, <3>2, <3>3
  <2>3. Newest' = Newest /\ UpTo(Newest)' = UpTo(Newest)
    BY <1>1, <1>2, <1>3, <2>1 DEF Newest, UpTo
  <2> QED
    BY <1>1, <1>3, <2>2, <2>3 DEF CountInv
<1>4. CASE Process
  <2>1. view' = view /\ nextId' \in Nat /\ nextId <= nextId'
    BY <1>1, <1>4 DEF Process, Record, RecordFails, RecordUnacknowledged, Broadcast,
                      InsertEntry, UpdateEntry, RemoveEntry
  <2>2. rows' = rows \/ \E row : row.id = nextId /\ rows' = rows \cup {row}
    BY <1>4 DEF Process, Record, RecordFails, RecordUnacknowledged, Broadcast,
                InsertEntry, UpdateEntry, RemoveEntry
  <2>3. \A s \in Sessions : /\ session'[s].phase = session[s].phase
                            /\ session'[s].counted = session[s].counted
                            /\ session'[s].countedTo = session[s].countedTo
    <3>1. CASE Broadcast
      BY <1>1, <3>1 DEF Broadcast, Session
    <3>2. CASE ~Broadcast
      BY <1>4, <3>2 DEF Process, Record, RecordFails, RecordUnacknowledged,
                        InsertEntry, UpdateEntry, RemoveEntry
    <3> QED
      BY <3>1, <3>2
  <2> QED
    BY <1>3, <2>1, <2>2, <2>3
<1>5. CASE Crash
  BY <1>1, <1>3, <1>5 DEF Crash, Closed
<1>6. CASE UNCHANGED feedVars
  BY <1>1, <1>3, <1>6 DEF feedVars, processorVars
<1>7. ASSUME NEW s \in Sessions, Follow(s) \/ Dial(s) \/ Close(s) PROVE CountInv'
  <2> DEFINE x == session[s]
  <2>1. Sessions = {s}
    BY DEF OneSession
  <2>2. UNCHANGED <<rows, nextId>>
    BY <1>7, FollowFrame DEF processorVars
  <2>3. UpTo(Newest)' = UpTo(Newest') /\ \A id : UpTo(id)' = UpTo(id)
    BY <2>2 DEF UpTo
  <2>4. CASE GetTotals(s)
    <3>1. /\ view' = view /\ session'[s].counted = Cardinality(rows)
          /\ session'[s].countedTo = NewestId
      BY <1>1, <2>4 DEF GetTotals, Session
    <3>2. NewestId \in Nat /\ NewestId < nextId /\ UpTo(NewestId) = rows
      BY <1>1, AllUpToNewest
    <3>3. view.maxSeen <= NewestId
      <4>1. CASE view.maxSeen = 0
        BY <3>2, <4>1
      <4>2. CASE \E r \in rows : r.id = view.maxSeen
        BY <3>2, <4>2 DEF UpTo
      <4> QED
        BY <1>1, <4>1, <4>2 DEF MarksAreRows
    <3>4. CountCovers'
      BY <2>1, <2>2, <2>3, <3>1, <3>2, <3>3 DEF CountCovers
    <3>5. Newest' = Newest
      BY <3>1 DEF Newest
    <3> QED
      BY <2>2, <2>3, <3>1, <3>4, <3>5 DEF CountInv
  <2>5. CASE SendInit(s)
    <3>1. /\ x.phase = "counted" /\ session'[s].phase = "querying"
          /\ view'.lastCounted = x.countedTo /\ view'.total = x.counted
          /\ view'.maxSeen = view.maxSeen
      BY <1>1, <2>5 DEF SendInit, OnInit, Session, View
    <3>2. /\ x.counted = Cardinality(UpTo(x.countedTo)) /\ view.maxSeen <= x.countedTo
          /\ x.countedTo < nextId
      BY <3>1 DEF CountInv, CountCovers
    <3>3. Newest' = x.countedTo
      BY <1>1, <3>1, <3>2 DEF Newest
    <3>4. CountCovers'
      BY <2>1, <3>1 DEF CountCovers
    <3> QED
      BY <2>2, <2>3, <3>1, <3>2, <3>3, <3>4 DEF CountInv
  <2>6. CASE SendRecord(s) \/ Forward(s)
    <3>1. session'[s].phase # "counted"
      <4>1. CASE SendRecord(s)
        BY <1>1, <4>1 DEF SendRecord, Session
      <4>2. CASE Forward(s)
        BY <1>1, <4>2 DEF Forward, Session
      <4> QED
        BY <2>6, <4>1, <4>2
    <3>2. CountCovers'
      BY <2>1, <3>1 DEF CountCovers
    <3>3. ~SendInit(s)
      BY <2>6 DEF SendInit, SendRecord, Forward
    <3>4. NoneDelivered(s) \/ \E id \in Nat : Delivered(id)
      BY <2>6, FollowStep DEF Follow
    <3>5. CASE NoneDelivered(s)
      <4>1. Newest' = Newest
        BY <3>3, <3>5 DEF Newest, NoneDelivered
      <4> QED
        BY <2>2, <2>3, <3>2, <3>3, <3>5, <4>1 DEF CountInv, NoneDelivered
    <3>6. ASSUME NEW id \in Nat, Delivered(id) PROVE CountInv'
      <4>1. CASE id <= view.maxSeen \/ id <= view.lastCounted
        <5>1. Newest' = Newest
          BY <1>1, <3>6, <4>1 DEF Delivered, MarkedBy, Newest
        <5> QED
          BY <2>2, <2>3, <3>2, <3>6, <4>1, <5>1 DEF CountInv, Delivered, MarkedBy
      <4>2. CASE ~(id <= view.maxSeen) /\ ~(id <= view.lastCounted)
        <5>1. Newest' = id /\ Newest < id
          BY <1>1, <3>6, <4>2 DEF Delivered, MarkedBy, Newest
        <5>2. ~ \E r \in rows : Newest < r.id /\ r.id < id
          BY <1>1, <3>6 DEF Delivered, Newest, Row
        <5>3. Cardinality(UpTo(id)) = Cardinality(UpTo(Newest)) + 1
          BY <1>1, <3>6, <5>1, <5>2, NextCounts DEF Delivered
        <5> QED
          BY <2>2, <2>3, <3>2, <3>6, <4>2, <5>1, <5>3 DEF CountInv, Delivered, MarkedBy
      <4> QED
        BY <4>1, <4>2
    <3> QED
      BY <3>4, <3>5, <3>6
  <2>7. CASE ~(GetTotals(s) \/ SendInit(s) \/ SendRecord(s) \/ Forward(s))
    <3>1. view' = view /\ session'[s].phase # "counted"
      <4>1. CASE Dial(s) \/ Close(s) \/ Subscribe(s) \/ QueryHistory(s) \/ EndReplay(s) \/ Lag(s)
        BY <1>1, <4>1 DEF Dial, Close, Closed, Subscribe, QueryHistory, EndReplay, Lag, Session
      <4>2. ASSUME NEW c \in Conns, ReadEntry(s, c)
            PROVE  view' = view /\ session'[s].phase # "counted"
        BY <1>1, <4>2 DEF ReadEntry, Session
      <4>3. ~TotalsFail(s)
        BY DEF TotalsFail
      <4> QED
        BY <1>7, <2>7, <4>1, <4>2, <4>3 DEF Follow
    <3> QED
      BY <1>1, <1>3, <2>1, <2>2, <3>1
  <2> QED
    BY <2>4, <2>5, <2>6, <2>7
<1> QED
  BY <1>4, <1>5, <1>6, <1>7 DEF Next

\* The total a dashboard shows is that of the rows it knows of: a row that replays,
\* broadcasts and totals all tell of counts once, across any number of reconnects, lags
\* and restarts.  One socket at a time; answers and replays as in NothingIsPassedOver.
THEOREM TotalsAreExact ==
    ASSUME OneSession, Acknowledged, ~TotalsMayFail
    PROVE  Spec /\ []ReplaysAreWhole => []TotalsExact
<1>1. FeedInv /\ CountInv /\ ReplaysAreWhole /\ [Next]_feedVars => CountInv'
  BY CountInvStep
<1>2. FeedInv /\ CountInv => TotalsExact
  <2> SUFFICES ASSUME FeedInv, CountInv PROVE TotalsExact
    OBVIOUS
  <2>1. view.lastCounted \in Nat /\ view.maxSeen \in Nat
    BY DEF FeedInv, FeedTypes, TypeOK, View
  <2>2. Max({view.lastCounted, view.maxSeen}) = Newest
    BY <2>1, PairMax DEF Newest
  <2> QED
    BY <2>2 DEF CountInv, UpTo, TotalsExact
<1>3. Spec /\ []ReplaysAreWhole => []FeedInv
  BY FeedInvHolds
<1> QED
  BY <1>1, <1>2, <1>3, CountInvInit, PTL DEF Spec

-----------------------------------------------------------------------------
(* A dashboard that has caught up shows every connection *)

\* The broadcasts a session has not forwarded, the one that is about to go out at the end.
Pending(inbox, out) == IF out = None THEN inbox ELSE Append(inbox, out)

IsStart(e, c) == e.type = "connected" /\ e.conn = c
IsUpdate(e, c) == e.type = "bytes_sent" /\ e.conn = c

\* The first k broadcasts, or the dashboard before them, make an entry of c.
Present(x, queue, c, k) == x # None \/ \E j \in 1..k : IsStart(queue[j], c)

\* From entry x of c, the queue leads to an entry with n bytes or more: the dashboard is
\* there at position i (0 is before the queue), and no later update falls below n.
At(x, queue, c, n, i) ==
    /\ \/ i = 0 /\ x # None /\ x >= n
       \/ i > 0 /\ IsStart(queue[i], c) /\ n = 0
       \/ i > 0 /\ IsUpdate(queue[i], c) /\ queue[i].bytes >= n /\ Present(x, queue, c, i - 1)
    /\ \A j \in i + 1..Len(queue) : IsUpdate(queue[j], c) => queue[j].bytes >= n

LeadsTo(x, queue, c, n) == \E i \in 0..Len(queue) : At(x, queue, c, n, i)

\* Someone who is led to an entry has one, or is about to be told of it.
LEMMA LeadsToPresence ==
    ASSUME NEW queue \in Seq(WsEvent), NEW c, NEW x, NEW n, LeadsTo(x, queue, c, n)
    PROVE  Present(x, queue, c, Len(queue))
<1>1. PICK i \in 0..Len(queue) : At(x, queue, c, n, i)
  BY DEF LeadsTo
<1>2. Len(queue) \in Nat
  OBVIOUS
<1>3. CASE i = 0
  BY <1>1, <1>3 DEF At, Present
<1>4. CASE i > 0 /\ IsStart(queue[i], c)
  BY <1>2, <1>4 DEF Present
<1>5. CASE i > 0 /\ Present(x, queue, c, i - 1)
  BY <1>2, <1>5 DEF Present
<1> QED
  BY <1>1, <1>3, <1>4, <1>5 DEF At

\* Another event behind the queue, which takes nothing back.
LEMMA LeadsBehind ==
    ASSUME NEW queue \in Seq(WsEvent), NEW e \in WsEvent, NEW c, NEW x, NEW n,
           LeadsTo(x, queue, c, n), IsUpdate(e, c) => e.bytes >= n
    PROVE  LeadsTo(x, Append(queue, e), c, n)
<1> DEFINE q == Append(queue, e)
<1>1. /\ Len(q) = Len(queue) + 1 /\ Len(queue) \in Nat /\ q[Len(queue) + 1] = e
      /\ \A i \in 1..Len(queue) : q[i] = queue[i]
  BY AppendProperties
<1>2. PICK i \in 0..Len(queue) : At(x, queue, c, n, i)
  BY DEF LeadsTo
<1> HIDE DEF q
<1>3. \A j \in i + 1..Len(q) : IsUpdate(q[j], c) => q[j].bytes >= n
  <2> TAKE j \in i + 1..Len(q)
  <2>1. CASE j = Len(queue) + 1
    BY <1>1, <2>1
  <2>2. CASE j \in i + 1..Len(queue)
    <3>1. q[j] = queue[j]
      BY <1>1, <2>2
    <3> QED
      BY <1>2, <2>2, <3>1 DEF At
  <2> QED
    BY <1>1, <2>1, <2>2
<1>4. i > 0 => q[i] = queue[i]
  BY <1>1
<1>5. Present(x, queue, c, i - 1) => Present(x, q, c, i - 1)
  BY <1>1 DEF Present
<1>6. At(x, q, c, n, i) /\ i \in 0..Len(q)
  BY <1>1, <1>2, <1>3, <1>4, <1>5 DEF At
<1> QED
  BY <1>6 DEF LeadsTo, q

\* A connected event leads to an entry without bytes, an update to one with its bytes.
LEMMA LeadsByLast ==
    ASSUME NEW queue \in Seq(WsEvent), NEW e \in WsEvent, NEW c, NEW x, NEW n,
           \/ IsStart(e, c) /\ n = 0
           \/ IsUpdate(e, c) /\ e.bytes >= n /\ Present(x, queue, c, Len(queue))
    PROVE  LeadsTo(x, Append(queue, e), c, n)
<1> DEFINE q == Append(queue, e)
           i == Len(queue) + 1
<1>1. /\ Len(q) = i /\ Len(queue) \in Nat /\ q[i] = e
      /\ \A j \in 1..Len(queue) : q[j] = queue[j]
  BY AppendProperties
<1> HIDE DEF q
<1>2. Present(x, queue, c, Len(queue)) => Present(x, q, c, i - 1)
  BY <1>1 DEF Present
<1>3. \A j \in i + 1..Len(q) : FALSE
  BY <1>1
<1>4. At(x, q, c, n, i) /\ i \in 0..Len(q)
  BY <1>1, <1>2, <1>3 DEF At
<1> QED
  BY <1>4 DEF LeadsTo, q

\* The first event of the queue is handled: y is the entry it makes of x.
LEMMA LeadsOn ==
    ASSUME NEW queue \in Seq(WsEvent), queue # << >>, NEW c, NEW x, NEW n \in Nat,
           LeadsTo(x, queue, c, n),
           NEW y \in Nat \cup {None},
           x # None \/ IsStart(Head(queue), c) => y # None,
           x # None => y = IF IsUpdate(Head(queue), c) THEN Head(queue).bytes ELSE x
    PROVE  LeadsTo(y, Tail(queue), c, n)
<1> DEFINE q == Tail(queue)
           e == Head(queue)
<1>1. /\ e = queue[1] /\ Len(queue) \in Nat \ {0} /\ Len(q) = Len(queue) - 1
      /\ \A i \in 1..Len(q) : q[i] = queue[i + 1]
  BY HeadTailProperties
<1>2. PICK i \in 0..Len(queue) : At(x, queue, c, n, i)
  BY DEF LeadsTo
<1>3. None \notin Nat
  BY FeedConstants
<1> HIDE DEF q
<1> SUFFICES \E k \in 0..Len(q) : At(y, q, c, n, k)
  BY DEF LeadsTo, q
<1>4. \A k \in 1..Len(queue) : Present(x, queue, c, k) => Present(y, q, c, k - 1)
  <2> SUFFICES ASSUME NEW k \in 1..Len(queue), Present(x, queue, c, k), y = None
               PROVE  \E j \in 1..k - 1 : IsStart(q[j], c)
    BY DEF Present
  <2>1. x = None /\ ~IsStart(queue[1], c)
    BY <1>1
  <2>2. PICK j \in 1..k : IsStart(queue[j], c)
    BY <2>1 DEF Present
  <2>3. j # 1
    BY <2>1, <2>2
  <2>4. j - 1 \in 1..k - 1 /\ j - 1 \in 1..Len(q)
    BY <1>1, <2>3
  <2>5. q[j - 1] = queue[j - 1 + 1] /\ j - 1 + 1 = j
    BY <1>1, <2>4
  <2>6. IsStart(q[j - 1], c)
    BY <2>2, <2>5
  <2> QED
    BY <2>4, <2>6
<1>5. ASSUME NEW k \in 0..Len(q), i <= k + 1
      PROVE  \A j \in k + 1..Len(q) : IsUpdate(q[j], c) => q[j].bytes >= n
  <2> TAKE j \in k + 1..Len(q)
  <2>1. j \in 1..Len(q) /\ j + 1 \in i + 1..Len(queue)
    BY <1>1, <1>5
  <2>2. q[j] = queue[j + 1]
    BY <1>1, <2>1
  <2> QED
    BY <1>2, <2>1, <2>2 DEF At
<1>6. CASE i <= 1
  <2>1. y # None /\ y >= n
    <3>1. CASE i = 0
      <4>1. x # None /\ x >= n
        BY <1>2, <3>1 DEF At
      <4>2. 1 \in i + 1..Len(queue)
        BY <1>1, <3>1
      <4>3. IsUpdate(e, c) => e.bytes >= n
        BY <1>1, <1>2, <4>2 DEF At
      <4> QED
        BY <4>1, <4>3
    <3>2. CASE i = 1 /\ IsStart(queue[1], c) /\ n = 0
      BY <1>1, <1>3, <3>2
    <3>3. CASE i = 1 /\ IsUpdate(queue[1], c) /\ queue[1].bytes >= n /\ Present(x, queue, c, 0)
      <4>1. x # None
        BY <3>3 DEF Present
      <4> QED
        BY <1>1, <3>3, <4>1
    <3> QED
      BY <1>2, <1>6, <3>1, <3>2, <3>3 DEF At
  <2>2. At(y, q, c, n, 0)
    BY <1>1, <1>5, <1>6, <2>1 DEF At
  <2> QED
    BY <1>1, <2>2
<1>7. CASE i > 1
  <2>1. PICK k \in 1..Len(q) : i = k + 1
    <3>1. i - 1 \in 1..Len(q) /\ i = i - 1 + 1
      BY <1>1, <1>7
    <3> QED
      BY <3>1
  <2>2. q[k] = queue[i] /\ k \in 0..Len(q) /\ i - 1 = k /\ i <= k + 1
    BY <1>1, <2>1
  <2>3. Present(x, queue, c, i - 1) => Present(y, q, c, k - 1)
    BY <1>1, <1>4, <2>1, <2>2
  <2>4. \A j \in k + 1..Len(q) : IsUpdate(q[j], c) => q[j].bytes >= n
    BY <1>5, <2>2
  <2>5. At(y, q, c, n, k)
    BY <1>2, <1>7, <2>1, <2>2, <2>3, <2>4 DEF At
  <2> QED
    BY <2>2, <2>5
<1> QED
  BY <1>6, <1>7

\* With nothing left in the queue the entry is there.
LEMMA LedThere == ASSUME NEW c, NEW x, NEW n, LeadsTo(x, << >>, c, n)
                  PROVE  x # None /\ x >= n
<1>1. \A i \in 0..Len(<< >>) : i = 0
  OBVIOUS
<1> QED
  BY <1>1 DEF LeadsTo, At

\* What the session knows of c, or will once it has read the map.
Known(x, c, map, shown) ==
    IF x.phase \notin {"reading", "counted"} THEN shown[c]
    ELSE IF x.phase = "reading" /\ c \in x.unread THEN map[c] ELSE x.snapshot[c]

\* An open session leads the dashboard to what the map has of each trapped connection.
Tells(x, map, ended, out, shown) ==
    IF x.phase \in {"closed", "dialled"} THEN x.inbox = << >>
    ELSE \A c \in Conns \ ended : map[c] # None =>
            LeadsTo(Known(x, c, map, shown), Pending(x.inbox, out), c, map[c])

Ended == {c \in Conns : heard[c].ended}

\* Whatever may take a connection off the dashboard is of one that has ended.
EndsAreHeard ==
    /\ writing # None => writing \in Ended
    /\ \A r \in rows : r.conn \in Ended
    /\ IsEnd(outgoing) => outgoing.conn \in Ended
    /\ \A s \in Sessions :
          /\ session[s].records \subseteq rows
          /\ \A i \in 1..Len(session[s].inbox) :
                IsEnd(session[s].inbox[i]) => session[s].inbox[i].conn \in Ended

\* The map and the broadcast that is about to go out are of the newest update.
BytesAreHeard ==
    /\ \A c \in Conns : active[c] # None => active[c] <= heard[c].bytes
    /\ \A c \in Conns : outgoing # None /\ IsUpdate(outgoing, c) =>
                           outgoing.bytes = heard[c].bytes

ToldInv ==
    /\ FeedTypes
    /\ EndsAreHeard
    /\ BytesAreHeard
    /\ \A s \in Sessions : Tells(session[s], active, Ended, outgoing, view.active)

\* No session is open at the start.
LEMMA ToldInvInit == Init => ToldInv
<1> SUFFICES ASSUME Init PROVE ToldInv
  OBVIOUS
<1>1. FeedTypes
  BY TypesInit
<1>2. /\ rows = {} /\ writing = None /\ outgoing = None /\ active = NoEntries
      /\ \A s \in Sessions : session[s] = Closed
  BY DEF Init
<1>3. EndsAreHeard
  BY <1>2 DEF EndsAreHeard, IsEnd, Closed
<1>4. BytesAreHeard
  BY <1>2 DEF BytesAreHeard, NoEntries
<1>5. \A s \in Sessions : Tells(session[s], active, Ended, outgoing, view.active)
  BY <1>2 DEF Tells, Closed
<1> QED
  BY <1>1, <1>3, <1>4, <1>5 DEF ToldInv

\* The ends that a session has to deal with are those it had, or those of the table.
LEMMA FollowEnds ==
    ASSUME FeedTypes, EndsAreHeard, NEW s \in Sessions, Follow(s) \/ Dial(s) \/ Close(s)
    PROVE  /\ session'[s].records \subseteq rows
           /\ \A i \in 1..Len(session'[s].inbox) :
                 IsEnd(session'[s].inbox[i]) => session'[s].inbox[i].conn \in Ended
<1> DEFINE x == session[s]
           y == session'[s]
           Fits(inbox) == \A i \in 1..Len(inbox) : IsEnd(inbox[i]) => inbox[i].conn \in Ended
<1>1. x \in Session /\ x.inbox \in Seq(WsEvent) /\ x.records \subseteq rows /\ Fits(x.inbox)
  BY SessionFields DEF FeedTypes, TypeOK, EndsAreHeard
<1>2. session \in [Sessions -> Session]
  BY DEF FeedTypes, TypeOK
<1>3. CASE \/ Subscribe(s) \/ GetTotals(s) \/ TotalsFail(s) \/ SendInit(s) \/ EndReplay(s)
           \/ Dial(s) \/ \E c \in Conns : ReadEntry(s, c)
  <2>1. y.inbox = x.inbox /\ y.records \in {x.records, {}}
    <3>1. CASE Subscribe(s) \/ GetTotals(s) \/ TotalsFail(s)
      BY <1>1, <1>2, <3>1 DEF Subscribe, GetTotals, TotalsFail, Session
    <3>2. CASE SendInit(s)
      BY <1>1, <1>2, <3>2 DEF SendInit, Session
    <3>3. CASE EndReplay(s)
      BY <1>1, <1>2, <3>3 DEF EndReplay, Session
    <3>4. CASE Dial(s)
      <4>1. PICK since : session' = [session EXCEPT ![s] =
                            [x EXCEPT !.phase = "dialled", !.last = since]]
        BY <3>4 DEF Dial
      <4> QED
        BY <1>1, <1>2, <4>1 DEF Session
    <3>5. CASE \E c \in Conns : ReadEntry(s, c)
      BY <1>1, <1>2, <3>5 DEF ReadEntry, Session
    <3> QED
      BY <1>3, <3>1, <3>2, <3>3, <3>4, <3>5
  <2> QED
    BY <1>1, <2>1
<1>4. CASE QueryHistory(s)
  <2>1. y.inbox = x.inbox /\ y.records = RowsSince(x.last)
    BY <1>1, <1>2, <1>4 DEF QueryHistory, Session
  <2> QED
    BY <1>1, <2>1 DEF RowsSince
<1>5. CASE SendRecord(s)
  <2>1. y.inbox = x.inbox /\ y.records \subseteq x.records
    BY <1>1, <1>2, <1>5 DEF SendRecord, Session
  <2> QED
    BY <1>1, <2>1
<1>6. CASE Forward(s)
  <2>1. y.inbox = Tail(x.inbox) /\ y.records = x.records /\ x.inbox # << >>
    BY <1>1, <1>2, <1>6 DEF Forward, Session
  <2>2. /\ Len(y.inbox) = Len(x.inbox) - 1 /\ Len(x.inbox) \in Nat
        /\ \A i \in 1..Len(y.inbox) : y.inbox[i] = x.inbox[i + 1]
    BY <1>1, <2>1, HeadTailProperties
  <2>3. \A i \in 1..Len(y.inbox) : i + 1 \in 1..Len(x.inbox)
    BY <2>2
  <2> HIDE DEF x, y
  <2>4. Fits(y.inbox)
    BY <1>1, <2>2, <2>3
  <2> QED
    BY <1>1, <2>1, <2>4 DEF y
<1>7. CASE Lag(s)
  <2> DEFINE m == Len(x.inbox) - BroadcastCapacity
  <2>1. y.inbox = SubSeq(x.inbox, m + 1, Len(x.inbox)) /\ y.records = x.records /\ Lags(s)
    BY <1>1, <1>2, <1>7 DEF Lag, Session
  <2>2. m \in Nat /\ Len(x.inbox) \in Nat /\ m < Len(x.inbox)
    <3>1. Len(x.inbox) > BroadcastCapacity
      BY <2>1 DEF Lags
    <3>2. BroadcastCapacity \in Nat \ {0}
      BY FeedConstants
    <3>3. Len(x.inbox) \in Nat
      BY <1>1
    <3> HIDE DEF x
    <3> QED
      BY <3>1, <3>2, <3>3
  <2> HIDE DEF x, y, m
  <2>3. /\ Len(y.inbox) = Len(x.inbox) - m
        /\ \A i \in 1..Len(y.inbox) : y.inbox[i] = x.inbox[i + m]
    BY <1>1, <2>1, <2>2, SubSeqProperties
  <2>4. \A i \in 1..Len(y.inbox) : i + m \in 1..Len(x.inbox)
    BY <2>2, <2>3
  <2>5. Fits(y.inbox)
    BY <1>1, <2>3, <2>4
  <2> QED
    BY <1>1, <2>1, <2>5 DEF y
<1>8. CASE Close(s)
  BY <1>2, <1>8 DEF Close, Closed
<1> QED
  BY <1>3, <1>4, <1>5, <1>6, <1>7, <1>8 DEF Follow

\* No step takes an end back, or makes one that has not been heard.
LEMMA EndsStep == FeedTypes /\ EndsAreHeard /\ [Next]_feedVars => EndsAreHeard'
<1> SUFFICES ASSUME FeedTypes, EndsAreHeard, [Next]_feedVars PROVE EndsAreHeard'
  OBVIOUS
<1> DEFINE Fits(x) == /\ x.records \subseteq rows
                      /\ \A i \in 1..Len(x.inbox) : IsEnd(x.inbox[i]) => x.inbox[i].conn \in Ended
<1>0. /\ writing # None => writing \in Ended
      /\ \A r \in rows : r.conn \in Ended
      /\ IsEnd(outgoing) => outgoing.conn \in Ended
      /\ \A s \in Sessions : Fits(session[s])
  BY DEF EndsAreHeard
<1>1. /\ heard \in [Conns -> [connected : BOOLEAN, bytes : Nat, ended : BOOLEAN]]
      /\ session \in [Sessions -> Session] /\ outgoing \in WsEvent \cup {None}
      /\ writing \in Conns \cup {None}
  BY DEF FeedTypes, TypeOK
<1>2. CASE \E c \in Conns : InsertEntry(c) \/ UpdateEntry(c)
  <2>1. ~IsEnd(outgoing') /\ UNCHANGED <<writing, rows, session>>
    BY <1>2 DEF InsertEntry, UpdateEntry, IsEnd
  <2>2. Ended' = Ended
    BY <1>1, <1>2 DEF InsertEntry, UpdateEntry, Ended
  <2> QED
    BY <1>0, <2>1, <2>2 DEF EndsAreHeard
<1>3. ASSUME NEW c \in Conns, RemoveEntry(c) PROVE EndsAreHeard'
  <2>1. Ended' = Ended \cup {c}
    BY <1>1, <1>3 DEF RemoveEntry, Ended
  <2>2. writing' = c /\ UNCHANGED <<outgoing, rows, session>>
    BY <1>3 DEF RemoveEntry
  <2> QED
    BY <1>0, <2>1, <2>2 DEF EndsAreHeard
<1>4. CASE Record \/ RecordFails \/ RecordUnacknowledged
  <2>1. /\ UNCHANGED session /\ Ended' = Ended /\ writing # None /\ writing' = None
        /\ rows' \in {rows, rows \cup {[id |-> nextId, conn |-> writing]}}
        /\ outgoing' = outgoing \/ outgoing'.conn = writing
    BY <1>4 DEF Record, RecordFails, RecordUnacknowledged, Ended
  <2> QED
    BY <1>0, <2>1 DEF EndsAreHeard
<1>5. CASE Broadcast
  <2>1. UNCHANGED <<writing, rows>> /\ Ended' = Ended /\ outgoing' = None /\ outgoing \in WsEvent
    BY <1>1, <1>5 DEF Broadcast, Ended
  <2>2. ASSUME NEW s \in Sessions
        PROVE  /\ session'[s].records = session[s].records
               /\ session'[s].inbox \in {session[s].inbox, Append(session[s].inbox, outgoing)}
    <3>1. session[s] \in Session
      BY <1>1
    <3>2. session'[s] \in {session[s], [session[s] EXCEPT !.inbox = Append(@, outgoing)]}
      BY <1>5 DEF Broadcast
    <3> QED
      BY <3>1, <3>2 DEF Session
  <2>3. ASSUME NEW s \in Sessions PROVE Fits(session'[s])
    <3>1. session[s].inbox \in Seq(WsEvent)
      BY <1>1, SessionFields
    <3>2. CASE session'[s].inbox = session[s].inbox
      BY <1>0, <2>2, <3>2
    <3>3. CASE session'[s].inbox = Append(session[s].inbox, outgoing)
      <4> DEFINE q == session[s].inbox
                 t == session'[s].inbox
      <4>1. /\ Len(t) = Len(q) + 1 /\ t[Len(q) + 1] = outgoing /\ Len(q) \in Nat
            /\ \A i \in 1..Len(q) : t[i] = q[i]
        BY <2>1, <3>1, <3>3, AppendProperties
      <4>2. \A i \in 1..Len(q) : IsEnd(q[i]) => q[i].conn \in Ended
        BY <1>0
      <4> HIDE DEF q, t
      <4>3. \A i \in 1..Len(t) : IsEnd(t[i]) => t[i].conn \in Ended
        BY <1>0, <4>1, <4>2
      <4> QED
        BY <1>0, <2>2, <4>3 DEF t
    <3> QED
      BY <2>2, <3>2, <3>3
  <2> QED
    BY <1>0, <2>1, <2>3 DEF EndsAreHeard, IsEnd
<1>6. ASSUME NEW s \in Sessions, Follow(s) \/ Dial(s) \/ Close(s) PROVE EndsAreHeard'
  <2>1. UNCHANGED <<heard, writing, outgoing, rows>> /\ Ended' = Ended
    BY <1>6, FollowFrame DEF processorVars, Ended
  <2>2. Fits(session'[s])
    BY <1>6, FollowEnds
  <2>3. PICK y \in Session : session' = [session EXCEPT ![s] = y]
    BY <1>6, FollowSession
  <2>4. \A t \in Sessions : t # s => session'[t] = session[t]
    BY <1>1, <2>3
  <2>5. \A t \in Sessions : Fits(session'[t])
    BY <1>0, <2>2, <2>4
  <2> QED
    BY <1>0, <2>1, <2>5 DEF EndsAreHeard
<1>7. CASE Crash
  <2>1. /\ writing' = None /\ outgoing' = None /\ UNCHANGED rows
        /\ \A s \in Sessions : session'[s] = Closed
    BY <1>7 DEF Crash
  <2>2. Ended \subseteq Ended'
    BY <1>1, <1>7 DEF Crash, Ended, Unheard
  <2> QED
    BY <1>0, <2>1, <2>2 DEF EndsAreHeard, IsEnd, Closed
<1>8. CASE UNCHANGED feedVars
  <2>1. UNCHANGED <<writing, rows, outgoing, session>> /\ Ended' = Ended
    BY <1>8 DEF feedVars, processorVars, Ended
  <2> QED
    BY <1>0, <2>1 DEF EndsAreHeard
<1> QED
  BY <1>2, <1>3, <1>4, <1>5, <1>6, <1>7, <1>8 DEF Next, Process

\* The processor updates the map and announces the same.
LEMMA BytesStep == FeedTypes /\ BytesAreHeard /\ [Next]_feedVars => BytesAreHeard'
<1> SUFFICES ASSUME FeedTypes, BytesAreHeard, [Next]_feedVars PROVE BytesAreHeard'
  OBVIOUS
<1>1. /\ heard \in [Conns -> [connected : BOOLEAN, bytes : Nat, ended : BOOLEAN]]
      /\ active \in [Conns -> Nat \cup {None}] /\ None \notin Nat
  BY FeedConstants DEF FeedTypes, TypeOK, Entries
<1>2. ASSUME NEW c \in Conns, InsertEntry(c) PROVE BytesAreHeard'
  <2>1. \A d \in Conns : heard'[d].bytes = heard[d].bytes /\ heard[d].bytes \in Nat
    BY <1>1, <1>2 DEF InsertEntry
  <2>2. \A d \in Conns : active'[d] = IF d = c THEN 0 ELSE active[d]
    BY <1>1, <1>2 DEF InsertEntry
  <2>3. outgoing'.type = "connected"
    BY <1>2 DEF InsertEntry
  <2> QED
    BY <2>1, <2>2, <2>3 DEF BytesAreHeard, IsUpdate
<1>3. ASSUME NEW c \in Conns, UpdateEntry(c) PROVE BytesAreHeard'
  <2> DEFINE n == heard[c].bytes + 1
  <2>1. /\ \A d \in Conns : heard'[d].bytes = IF d = c THEN n ELSE heard[d].bytes
        /\ \A d \in Conns : heard[d].bytes \in Nat
    BY <1>1, <1>3 DEF UpdateEntry
  <2>2. \A d \in Conns : active'[d] = IF d = c THEN (IF active[c] = None THEN None ELSE n)
                                               ELSE active[d]
    BY <1>1, <1>3 DEF UpdateEntry
  <2>3. outgoing'.conn = c /\ outgoing'.bytes = n
    BY <1>3 DEF UpdateEntry
  <2> HIDE DEF n
  <2>4. n <= n
    BY <2>1 DEF n
  <2> QED
    BY <2>1, <2>2, <2>3, <2>4 DEF BytesAreHeard, IsUpdate
<1>4. ASSUME NEW c \in Conns, RemoveEntry(c) PROVE BytesAreHeard'
  <2>1. \A d \in Conns : heard'[d].bytes = heard[d].bytes
    BY <1>1, <1>4 DEF RemoveEntry
  <2>2. \A d \in Conns : active'[d] = IF d = c THEN None ELSE active[d]
    BY <1>1, <1>4 DEF RemoveEntry
  <2>3. UNCHANGED outgoing
    BY <1>4 DEF RemoveEntry
  <2> QED
    BY <2>1, <2>2, <2>3 DEF BytesAreHeard
<1>5. CASE Record
  <2>1. UNCHANGED <<heard, active>> /\ outgoing'.type = "disconnected"
    BY <1>5 DEF Record
  <2> QED
    BY <2>1 DEF BytesAreHeard, IsUpdate
<1>6. CASE RecordFails \/ RecordUnacknowledged \/ UNCHANGED feedVars
  <2>1. UNCHANGED <<heard, active, outgoing>>
    BY <1>6 DEF RecordFails, RecordUnacknowledged, feedVars, processorVars
  <2> QED
    BY <2>1 DEF BytesAreHeard
<1>7. CASE Broadcast
  <2>1. UNCHANGED <<heard, active>> /\ outgoing' = None
    BY <1>7 DEF Broadcast
  <2> QED
    BY <2>1 DEF BytesAreHeard
<1>8. CASE \E s \in Sessions : Follow(s) \/ Dial(s) \/ Close(s)
  <2>1. UNCHANGED <<heard, active, outgoing>>
    BY <1>8, FollowFrame DEF processorVars
  <2> QED
    BY <2>1 DEF BytesAreHeard
<1>9. CASE Crash
  <2>1. active' = NoEntries /\ outgoing' = None
    BY <1>9 DEF Crash
  <2> QED
    BY <2>1 DEF BytesAreHeard, NoEntries
<1> QED
  BY <1>2, <1>3, <1>4, <1>5, <1>6, <1>7, <1>8, <1>9 DEF Next, Process

\* Someone who knows and waits for the same is led the same way.
LEMMA TellsSame ==
    ASSUME NEW x, NEW y, NEW map, NEW ended, NEW out, NEW shown, NEW seen,
           Tells(x, map, ended, out, shown),
           x.phase \notin {"closed", "dialled"},
           y.inbox = x.inbox,
           \A c \in Conns \ ended : map[c] # None =>
               Known(y, c, map, seen) = Known(x, c, map, shown)
    PROVE  y.phase \notin {"closed", "dialled"} => Tells(y, map, ended, out, seen)
BY DEF Tells

\* The step of the only session keeps the dashboard on course, unless the session lags.
LEMMA FollowTells ==
    ASSUME OneSession, ToldInv, NEW s \in Sessions, Follow(s) \/ Dial(s) \/ Close(s), ~Lag(s)
    PROVE  Tells(session'[s], active, Ended, outgoing, view'.active)
<1> DEFINE x == session[s]
           y == session'[s]
           Told == Tells(y, active, Ended, outgoing, view'.active)
<1>1. /\ session \in [Sessions -> Session] /\ x \in Session
      /\ Tells(x, active, Ended, outgoing, view.active)
      /\ active \in [Conns -> Nat \cup {None}] /\ outgoing \in WsEvent \cup {None}
      /\ None \notin Nat /\ view \in View
  BY FeedConstants DEF ToldInv, FeedTypes, TypeOK, Entries
<1>2. /\ x.phase \in Phases /\ x.inbox \in Seq(WsEvent) /\ x.records \subseteq rows
      /\ x.snapshot \in [Conns -> Nat \cup {None}] /\ view.active \in [Conns -> Nat \cup {None}]
  BY <1>1, SessionFields DEF ToldInv, EndsAreHeard, View, Entries
<1>3. CASE Dial(s)
  <2>1. PICK since : session' = [session EXCEPT ![s] =
                        [x EXCEPT !.phase = "dialled", !.last = since]]
    BY <1>3 DEF Dial
  <2>2. y.phase = "dialled" /\ y.inbox = x.inbox /\ x.phase = "closed"
    BY <1>1, <1>3, <2>1 DEF Session, Dial
  <2> QED
    BY <1>1, <2>2 DEF Tells
<1>4. CASE Close(s)
  <2>1. y = Closed
    BY <1>1, <1>4 DEF Close
  <2> QED
    BY <2>1 DEF Tells, Closed
<1>5. CASE Subscribe(s)
  <2>1. /\ y.phase = "reading" /\ y.unread = Conns /\ y.inbox = x.inbox
        /\ x.phase = "dialled"
    BY <1>1, <1>5 DEF Subscribe, Session
  <2>2. y.inbox = << >>
    BY <1>1, <2>1 DEF Tells
  <2>3. ASSUME NEW c \in Conns, active[c] # None
        PROVE  LeadsTo(active[c], Pending(<< >>, outgoing), c, active[c])
    <3>1. active[c] \in Nat
      BY <1>1, <2>3
    <3>2. LeadsTo(active[c], << >>, c, active[c])
      <4>1. At(active[c], << >>, c, active[c], 0) /\ 0 \in 0..Len(<< >>)
        BY <2>3, <3>1 DEF At
      <4> QED
        BY <4>1 DEF LeadsTo
    <3>3. outgoing # None => LeadsTo(active[c], Append(<< >>, outgoing), c, active[c])
      <4> SUFFICES ASSUME outgoing # None
                   PROVE  LeadsTo(active[c], Append(<< >>, outgoing), c, active[c])
        OBVIOUS
      <4>1. outgoing \in WsEvent /\ << >> \in Seq(WsEvent)
        BY <1>1
      <4>2. IsUpdate(outgoing, c) => outgoing.bytes >= active[c]
        BY <2>3, <3>1, <4>1 DEF ToldInv, BytesAreHeard, FeedTypes, TypeOK
      <4> QED
        BY <3>2, <4>1, <4>2, LeadsBehind
    <3> QED
      BY <3>2, <3>3 DEF Pending
  <2>4. \A c \in Conns : Known(y, c, active, view'.active) = active[c]
    BY <2>1 DEF Known
  <2> QED
    BY <2>1, <2>2, <2>3, <2>4 DEF Tells
<1>6. ASSUME NEW c \in Conns, ReadEntry(s, c) PROVE Told
  <2>1. /\ x.phase = "reading" /\ y.phase = "reading" /\ y.inbox = x.inbox
        /\ y.unread = x.unread \ {c}
        /\ y.snapshot = [x.snapshot EXCEPT ![c] = active[c]] /\ c \in x.unread
    BY <1>1, <1>6 DEF ReadEntry, Session
  <2>2. \A d \in Conns : Known(y, d, active, view'.active) = Known(x, d, active, view.active)
    BY <1>2, <2>1 DEF Known
  <2> QED
    BY <1>1, <2>1, <2>2, TellsSame
<1>7. CASE GetTotals(s) \/ TotalsFail(s)
  <2>1. /\ x.phase = "reading" /\ x.unread = {} /\ y.phase = "counted" /\ y.inbox = x.inbox
        /\ y.snapshot = x.snapshot
    BY <1>1, <1>7 DEF GetTotals, TotalsFail, Session
  <2>2. \A d \in Conns : Known(y, d, active, view'.active) = Known(x, d, active, view.active)
    BY <2>1 DEF Known
  <2> QED
    BY <1>1, <2>1, <2>2, TellsSame
<1>8. CASE SendInit(s)
  <2>1. x.phase = "counted" /\ y.phase = "querying" /\ y.inbox = x.inbox
    BY <1>1, <1>8 DEF SendInit, Session
  <2>2. view'.active = x.snapshot
    BY <1>1, <1>8 DEF SendInit, OnInit, View
  <2>3. \A d \in Conns : Known(y, d, active, view'.active) = Known(x, d, active, view.active)
    BY <2>1, <2>2 DEF Known
  <2> QED
    BY <1>1, <2>1, <2>3, TellsSame
<1>9. CASE QueryHistory(s) \/ EndReplay(s)
  <2>1. /\ x.phase \in {"querying", "replaying"} /\ y.phase \in {"replaying", "live"}
        /\ y.inbox = x.inbox
    BY <1>1, <1>9 DEF QueryHistory, EndReplay, Session
  <2>2. view' = view
    BY <1>9 DEF QueryHistory, EndReplay
  <2>3. \A d \in Conns : Known(y, d, active, view'.active) = Known(x, d, active, view.active)
    BY <2>1, <2>2 DEF Known
  <2> QED
    BY <1>1, <2>1, <2>3, TellsSame
<1>10. CASE SendRecord(s)
  <2>1. PICK r \in x.records : /\ view' = OnDisconnected(view, r.conn, r.id)
                               /\ session' = [session EXCEPT ![s] =
                                     [x EXCEPT !.records = @ \ {r}, !.last = r.id]]
    BY <1>10 DEF SendRecord
  <2>2. x.phase = "replaying" /\ y.phase = "replaying" /\ y.inbox = x.inbox
    BY <1>1, <1>10, <2>1 DEF SendRecord, Session
  <2>3. r.conn \in Ended
    BY <1>2, <2>1 DEF ToldInv, EndsAreHeard
  <2>4. \A d \in Conns \ Ended : view'.active[d] = view.active[d]
    BY <1>1, <1>2, <2>1, <2>3 DEF OnDisconnected, View
  <2>5. \A d \in Conns \ Ended :
            Known(y, d, active, view'.active) = Known(x, d, active, view.active)
    BY <2>2, <2>4 DEF Known
  <2> QED
    BY <1>1, <2>2, <2>5, TellsSame
<1>11. CASE Forward(s)
  <2> DEFINE e == Head(x.inbox)
             queue == Pending(x.inbox, outgoing)
  <2>1. /\ x.phase = "live" /\ y.phase = "live" /\ x.inbox # << >> /\ y.inbox = Tail(x.inbox)
    BY <1>1, <1>11 DEF Forward, Session
  <2>2. view' = OnEvent(view, e)
    BY <1>11 DEF Forward
  <2>3. e \in WsEvent /\ e = x.inbox[1] /\ 1 \in 1..Len(x.inbox)
    BY <1>2, <2>1, HeadTailProperties
  <2>4. /\ queue \in Seq(WsEvent) /\ queue # << >> /\ Head(queue) = e
        /\ Tail(queue) = Pending(y.inbox, outgoing)
    <3>1. CASE outgoing = None
      BY <1>2, <2>1, <3>1 DEF Pending
    <3>2. CASE outgoing # None
      <4>1. outgoing \in WsEvent /\ queue = Append(x.inbox, outgoing)
        BY <1>1, <3>2 DEF Pending
      <4> HIDE DEF queue, x, y
      <4>2. queue \in Seq(WsEvent) /\ queue # << >>
        BY <1>2, <4>1, AppendProperties
      <4>3. Head(queue) = Head(x.inbox) /\ Tail(queue) = Append(Tail(x.inbox), outgoing)
        BY <1>2, <2>1, <4>1, HeadTailAppend
      <4> QED
        BY <2>1, <3>2, <4>2, <4>3 DEF Pending
    <3> QED
      BY <3>1, <3>2
  <2>5. IsEnd(e) => e.conn \in Ended
    BY <2>3 DEF ToldInv, EndsAreHeard
  <2> HIDE DEF queue, e
  <2>6. ASSUME NEW c \in Conns \ Ended, active[c] # None
        PROVE  LeadsTo(view'.active[c], Tail(queue), c, active[c])
    <3>1. LeadsTo(view.active[c], queue, c, active[c])
      BY <1>1, <2>1, <2>6 DEF Tells, Known, queue
    <3>2. /\ view.active[c] # None \/ IsStart(e, c) => view'.active[c] # None
          /\ view.active[c] # None =>
                view'.active[c] = IF IsUpdate(e, c) THEN e.bytes ELSE view.active[c]
          /\ view'.active[c] \in Nat \cup {None}
      <4>1. e.conn \in Conns /\ e.bytes \in Nat
        BY <2>3 DEF WsEvent
      <4>2. CASE e.type = "connected"
        <5>1. view' = OnConnected(view, e.conn)
          BY <2>2, <4>2 DEF OnEvent
        <5> QED
          BY <1>1, <1>2, <4>1, <4>2, <5>1 DEF OnConnected, View, IsStart, IsUpdate
      <4>3. CASE e.type = "bytes_sent"
        <5>1. view' = OnBytesSent(view, e.conn, e.bytes)
          BY <2>2, <4>3 DEF OnEvent
        <5> QED
          BY <1>1, <1>2, <4>1, <4>3, <5>1 DEF OnBytesSent, View, IsStart, IsUpdate
      <4>4. CASE e.type = "disconnected"
        <5>1. view' = OnDisconnected(view, e.conn, e.sequence)
          BY <2>2, <4>4 DEF OnEvent
        <5>2. e.conn # c
          BY <2>3, <2>5, <2>6, <4>4, NoneIsNoEvent DEF IsEnd
        <5> QED
          BY <1>1, <1>2, <4>1, <4>4, <5>1, <5>2 DEF OnDisconnected, View, IsStart, IsUpdate
      <4> QED
        BY <2>3, <4>2, <4>3, <4>4 DEF WsEvent
    <3>3. active[c] \in Nat
      BY <1>1, <2>6
    <3> QED
      BY <2>4, <3>1, <3>2, <3>3, LeadsOn
  <2>7. \A c \in Conns : Known(y, c, active, view'.active) = view'.active[c]
    BY <2>1 DEF Known
  <2>8. Tells(y, active, Ended, outgoing, view'.active)
    <3> HIDE DEF x, y
    <3> QED
      BY <2>1, <2>4, <2>6, <2>7 DEF Tells
  <2> QED
    BY <2>8
<1> QED
  BY <1>3, <1>4, <1>5, <1>6, <1>7, <1>8, <1>9, <1>10, <1>11 DEF Follow

\* A session the processor does not speak to stays on course when what it is led to, and
\* from where, stays the same.
LEMMA WaitsFor ==
    ASSUME NEW x, NEW map, NEW ended, NEW out, NEW shown, Tells(x, map, ended, out, shown),
           NEW now, NEW gone, NEW next,
           \A c \in Conns \ gone : now[c] # None /\ x.phase \notin {"closed", "dialled"} =>
                   LeadsTo(Known(x, c, now, shown), Pending(x.inbox, next), c, now[c])
    PROVE  Tells(x, now, gone, next, shown)
BY DEF Tells

\* What the processor does to its map is announced behind all that waits.
LEMMA ProcessorTells ==
    ASSUME ToldInv, Process, ~Broadcast, NEW s \in Sessions
    PROVE  Tells(session[s], active', Ended', outgoing', view.active)
<1> DEFINE x == session[s]
           shown == view.active
<1>1. /\ x \in Session /\ Tells(x, active, Ended, outgoing, shown)
      /\ active \in [Conns -> Nat \cup {None}] /\ None \notin Nat
      /\ heard \in [Conns -> [connected : BOOLEAN, bytes : Nat, ended : BOOLEAN]]
      /\ outgoing \in WsEvent \cup {None} /\ (writing = None \/ outgoing = None)
      /\ nextId \in Nat /\ writing \in Conns \cup {None}
  BY FeedConstants DEF ToldInv, FeedTypes, TypeOK, Entries
<1>2. x.inbox \in Seq(WsEvent)
  BY <1>1, SessionFields
<1> HIDE DEF x, shown
<1> DEFINE Open == x.phase \notin {"closed", "dialled"}
<1>a. None \notin WsEvent
  BY NoneIsNoEvent
<1>b. ASSUME NEW c \in Conns \ Ended, active[c] # None, Open, outgoing = None
      PROVE  LeadsTo(Known(x, c, active, shown), x.inbox, c, active[c])
  BY <1>1, <1>b DEF Tells, Pending
<1>3. ASSUME NEW d \in Conns, InsertEntry(d) PROVE Tells(x, active', Ended', outgoing', shown)
  <2> DEFINE e == [type |-> "connected", conn |-> d, bytes |-> 0, sequence |-> 0]
  <2>1. outgoing = None /\ outgoing' = e /\ e \in WsEvent
    BY <1>3 DEF InsertEntry, Ready, WsEvent
  <2>2. \A c \in Conns : active'[c] = IF c = d THEN 0 ELSE active[c]
    BY <1>1, <1>3 DEF InsertEntry
  <2>3. Ended' = Ended
    BY <1>1, <1>3 DEF InsertEntry, Ended
  <2>4. IsStart(e, d) /\ \A c \in Conns : ~IsUpdate(e, c)
    BY DEF IsStart, IsUpdate
  <2> HIDE DEF e
  <2>5. Pending(x.inbox, outgoing') = Append(x.inbox, e)
    BY <1>a, <2>1 DEF Pending
  <2>6. ASSUME NEW c \in Conns \ Ended, active'[c] # None, Open
        PROVE  LeadsTo(Known(x, c, active', shown), Append(x.inbox, e), c, active'[c])
    <3>1. CASE c = d
      BY <1>2, <2>1, <2>2, <2>4, <3>1, LeadsByLast
    <3>2. CASE c # d
      <4>1. active'[c] = active[c]
        BY <2>2, <3>2
      <4>2. Known(x, c, active', shown) = Known(x, c, active, shown)
        BY <4>1 DEF Known
      <4>3. LeadsTo(Known(x, c, active, shown), x.inbox, c, active[c])
        BY <1>b, <2>1, <2>6, <4>1
      <4> HIDE DEF Open
      <4> QED
        BY <1>2, <2>1, <2>4, <4>1, <4>2, <4>3, LeadsBehind
    <3> QED
      BY <3>1, <3>2
  <2> QED
    BY <1>1, <2>3, <2>5, <2>6, WaitsFor
<1>4. ASSUME NEW d \in Conns, UpdateEntry(d) PROVE Tells(x, active', Ended', outgoing', shown)
  <2> DEFINE n == heard[d].bytes + 1
             e == [type |-> "bytes_sent", conn |-> d, bytes |-> n, sequence |-> 0]
  <2>1. outgoing = None /\ outgoing' = e /\ e \in WsEvent /\ n \in Nat
    BY <1>1, <1>4 DEF UpdateEntry, Ready, WsEvent
  <2>2. \A c \in Conns : active'[c] = IF c # d THEN active[c]
                                      ELSE IF active[d] = None THEN None ELSE n
    BY <1>1, <1>4 DEF UpdateEntry
  <2>3. Ended' = Ended
    BY <1>1, <1>4 DEF UpdateEntry, Ended
  <2>4. IsUpdate(e, d) /\ e.bytes = n /\ \A c \in Conns : c # d => ~IsUpdate(e, c)
    BY DEF IsUpdate
  <2> HIDE DEF e, n
  <2>5. Pending(x.inbox, outgoing') = Append(x.inbox, e)
    BY <1>a, <2>1 DEF Pending
  <2>6. ASSUME NEW c \in Conns \ Ended, active'[c] # None, Open
        PROVE  LeadsTo(Known(x, c, active', shown), Append(x.inbox, e), c, active'[c])
    <3>1. active[c] # None
      BY <2>2, <2>6
    <3>2. LeadsTo(Known(x, c, active, shown), x.inbox, c, active[c])
      BY <1>b, <2>1, <2>6, <3>1
    <3>3. CASE c = d
      <4>1. active'[c] = n /\ n # None /\ n >= n
        BY <1>1, <2>1, <2>2, <3>1, <3>3
      <4>2. Present(Known(x, c, active, shown), x.inbox, c, Len(x.inbox))
        BY <1>2, <3>2, LeadsToPresence
      <4>3. Known(x, c, active', shown) \in {Known(x, c, active, shown), n}
        BY <4>1 DEF Known
      <4>4. Present(Known(x, c, active', shown), x.inbox, c, Len(x.inbox))
        BY <4>1, <4>2, <4>3 DEF Present
      <4> QED
        BY <1>2, <2>1, <2>4, <3>3, <4>1, <4>4, LeadsByLast
    <3>4. CASE c # d
      <4>1. active'[c] = active[c]
        BY <2>2, <3>4
      <4>2. Known(x, c, active', shown) = Known(x, c, active, shown)
        BY <4>1 DEF Known
      <4> QED
        BY <1>2, <2>1, <2>4, <3>2, <3>4, <4>1, <4>2, LeadsBehind
    <3> QED
      BY <3>3, <3>4
  <2> QED
    BY <1>1, <2>3, <2>5, <2>6, WaitsFor
<1>5. ASSUME NEW d \in Conns, RemoveEntry(d) PROVE Tells(x, active', Ended', outgoing', shown)
  <2>1. outgoing = None /\ outgoing' = None
    BY <1>5 DEF RemoveEntry, Ready
  <2>2. \A c \in Conns : active'[c] = IF c = d THEN None ELSE active[c]
    BY <1>1, <1>5 DEF RemoveEntry
  <2>3. Ended' = Ended \cup {d}
    BY <1>1, <1>5 DEF RemoveEntry, Ended
  <2>4. ASSUME NEW c \in Conns \ Ended', active'[c] # None, Open
        PROVE  LeadsTo(Known(x, c, active', shown), Pending(x.inbox, outgoing'), c, active'[c])
    <3>1. active'[c] = active[c] /\ c \in Conns \ Ended /\ active[c] # None
      BY <2>2, <2>3, <2>4
    <3>2. Known(x, c, active', shown) = Known(x, c, active, shown)
      BY <3>1 DEF Known
    <3>3. LeadsTo(Known(x, c, active, shown), x.inbox, c, active[c])
      BY <1>b, <2>1, <2>4, <3>1
    <3> QED
      BY <2>1, <3>1, <3>2, <3>3 DEF Pending
  <2> QED
    BY <1>1, <2>4, WaitsFor
<1>6. ASSUME Record PROVE Tells(x, active', Ended', outgoing', shown)
  <2>1. /\ UNCHANGED active /\ Ended' = Ended /\ outgoing = None
        /\ outgoing' \in WsEvent /\ \A c \in Conns : ~IsUpdate(outgoing', c)
    BY <1>1, <1>6 DEF Record, Ended, WsEvent, IsUpdate
  <2>2. Pending(x.inbox, outgoing') = Append(x.inbox, outgoing')
    BY <1>a, <2>1 DEF Pending
  <2>3. ASSUME NEW c \in Conns \ Ended, active[c] # None, Open
        PROVE  LeadsTo(Known(x, c, active, shown), Append(x.inbox, outgoing'), c, active[c])
    BY <1>2, <1>b, <2>1, <2>3, LeadsBehind
  <2> QED
    BY <1>1, <2>1, <2>2, <2>3, WaitsFor
<1>7. ASSUME RecordFails \/ RecordUnacknowledged
      PROVE  Tells(x, active', Ended', outgoing', shown)
  <2>1. UNCHANGED <<active, outgoing>> /\ Ended' = Ended
    BY <1>7 DEF RecordFails, RecordUnacknowledged, Ended
  <2> QED
    BY <1>1, <2>1
<1>8. Tells(x, active', Ended', outgoing', shown)
  BY <1>3, <1>4, <1>5, <1>6, <1>7 DEF Process
<1> QED
  BY <1>8 DEF x, shown

\* Every step keeps the invariant, as long as no session lags.
LEMMA ToldInvStep ==
    OneSession /\ ToldInv /\ [Next /\ \A s \in Sessions : ~Lag(s)]_feedVars => ToldInv'
<1> SUFFICES ASSUME OneSession, ToldInv, [Next /\ \A s \in Sessions : ~Lag(s)]_feedVars
             PROVE  ToldInv'
  OBVIOUS
<1>1. FeedTypes' /\ EndsAreHeard' /\ BytesAreHeard'
  BY TypesStep, EndsStep, BytesStep DEF ToldInv
<1>2. /\ session \in [Sessions -> Session]
      /\ \A s \in Sessions : Tells(session[s], active, Ended, outgoing, view.active)
  BY DEF ToldInv, FeedTypes, TypeOK
<1> SUFFICES \A s \in Sessions : Tells(session'[s], active', Ended', outgoing', view'.active)
  BY <1>1 DEF ToldInv
<1> TAKE t \in Sessions
<1>3. CASE Process /\ ~Broadcast
  <2>1. UNCHANGED <<session, view>>
    BY <1>3 DEF Process, InsertEntry, UpdateEntry, RemoveEntry, Record, RecordFails,
                RecordUnacknowledged
  <2> QED
    BY <1>3, <2>1, ProcessorTells
<1>4. CASE Broadcast
  <2> DEFINE x == session[t]
             y == session'[t]
  <2>1. UNCHANGED <<active, view>> /\ Ended' = Ended /\ outgoing' = None /\ outgoing # None
    BY <1>4 DEF Broadcast, Ended
  <2>2. y = IF Subscribed(t) THEN [x EXCEPT !.inbox = Append(@, outgoing)] ELSE x
    BY <1>4 DEF Broadcast
  <2>3. /\ x \in Session /\ Tells(x, active, Ended, outgoing, view.active)
        /\ (Subscribed(t) <=> x.phase \notin {"closed", "dialled"})
    BY <1>2 DEF Subscribed
  <2>4. CASE Subscribed(t)
    <3>1. /\ y.phase = x.phase /\ y.unread = x.unread /\ y.snapshot = x.snapshot
          /\ y.inbox = Append(x.inbox, outgoing)
      BY <2>2, <2>3, <2>4 DEF Session
    <3>2. Pending(y.inbox, None) = Pending(x.inbox, outgoing)
      BY <2>1, <3>1 DEF Pending
    <3>3. \A c \in Conns : Known(y, c, active, view.active) = Known(x, c, active, view.active)
      BY <3>1 DEF Known
    <3> HIDE DEF x, y
    <3>4. Tells(y, active, Ended, None, view.active)
      BY <2>3, <2>4, <3>1, <3>2, <3>3 DEF Tells
    <3> QED
      BY <2>1, <3>4 DEF y
  <2>5. CASE ~Subscribed(t)
    <3>1. y = x /\ x.phase \in {"closed", "dialled"}
      BY <2>2, <2>3, <2>5
    <3> QED
      BY <2>3, <3>1 DEF Tells
  <2> QED
    BY <2>4, <2>5
<1>5. ASSUME NEW s \in Sessions, Follow(s) \/ Dial(s) \/ Close(s), Next, ~Lag(s)
      PROVE  Tells(session'[t], active', Ended', outgoing', view'.active)
  <2>1. s = t
    BY DEF OneSession
  <2>2. UNCHANGED <<active, outgoing>> /\ Ended' = Ended
    BY <1>5, FollowFrame DEF processorVars, Ended
  <2>3. Tells(session'[t], active, Ended, outgoing, view'.active)
    BY <1>5, <2>1, FollowTells
  <2> QED
    BY <2>2, <2>3
<1>6. CASE Crash
  <2>1. session'[t] = Closed
    BY <1>6 DEF Crash
  <2> QED
    BY <2>1 DEF Tells, Closed
<1>7. CASE UNCHANGED feedVars
  <2>1. UNCHANGED <<active, outgoing, session, view>> /\ Ended' = Ended
    BY <1>7 DEF feedVars, processorVars, Ended
  <2> QED
    BY <1>2, <2>1
<1> QED
  BY <1>3, <1>4, <1>5, <1>6, <1>7 DEF Next

\* With one web socket at a time that does not lag, a dashboard that has caught up shows
\* every connection that has not ended, with no fewer bytes than the map: although the map
\* is read entry by entry while the processor writes to it, and whatever fails - writes,
\* totals, replays, answers of commits, sockets, or the process (ws_router.rs:119).
THEOREM CaughtUpMissesNothing ==
    ASSUME OneSession
    PROVE  Spec /\ [][\A s \in Sessions : ~Lag(s)]_feedVars => []NothingMissing
<1> DEFINE NoLag == \A s \in Sessions : ~Lag(s)
<1>1. ToldInv /\ [Next]_feedVars /\ [NoLag]_feedVars => ToldInv'
  BY ToldInvStep
<1>2. ToldInv => NothingMissing
  <2> SUFFICES ASSUME ToldInv, NEW s \in Sessions, CaughtUp(s), NEW c \in Conns,
                      active[c] # None, ~heard[c].ended
               PROVE  view.active[c] # None /\ view.active[c] >= active[c]
    BY DEF NothingMissing
  <2>1. session[s].phase = "live" /\ session[s].inbox = << >> /\ outgoing = None
    BY DEF CaughtUp, Ready
  <2>2. LeadsTo(view.active[c], << >>, c, active[c])
    BY <2>1 DEF ToldInv, Tells, Ended, Known, Pending
  <2> QED
    BY <2>2, LedThere
<1> QED
  BY <1>1, <1>2, ToldInvInit, PTL DEF Spec
=============================================================================
