------------------------------ MODULE LiveFeed ------------------------------
(***************************************************************************)
(* How a dashboard follows the tarpit: the event processor updates the     *)
(* map of active connections and table connections, and broadcasts what it *)
(* did; a web-socket session takes a snapshot, replays the history from    *)
(* the table and forwards the broadcasts; the browser folds all of it into *)
(* one view, which outlives the sessions.                                  *)
(*                                                                         *)
(* The processor's input is any order of events that Tarpit can put into   *)
(* its channel: each connection's events once, BytesSent with a growing    *)
(* total and never after Disconnected, Connected possibly late.  Every     *)
(* connection has an address of its own here, so that an entry is known by *)
(* its connection.  A message and what the browser does with it are one    *)
(* step: within a session messages arrive in the order they were sent, and *)
(* the server never waits for the browser.                                 *)
(***************************************************************************)
EXTENDS Integers, Sequences, FiniteSets, FiniteSetsExt

CONSTANTS
    Conns,              \* the connections the tarpit reports
    Sessions,           \* the web sockets one dashboard may have open
    BroadcastCapacity,  \* capacity of the broadcast channel (1000)
    HistoryLimit,       \* rows a replay sends at most (1000)
    MaxUpdates,         \* bound: BytesSent events of one connection
    MaxDials,           \* bound: times the dashboard connects
    MaxCrashes,         \* bound: restarts of the backend
    WritesMayFail,      \* whether recording a connection may fail
    AcksMayBeLost,      \* whether it may fail although its commit was applied
    TotalsMayFail,      \* whether reading the totals may fail
    ReplaysMayFail,     \* whether a history query may fail midway
    None                \* no entry, no event

ASSUME FeedConstants ==
    /\ IsFiniteSet(Conns) /\ IsFiniteSet(Sessions)
    /\ BroadcastCapacity \in Nat \ {0}
    /\ HistoryLimit \in Nat \ {0}
    /\ {MaxUpdates, MaxDials, MaxCrashes} \subseteq Nat
    /\ {WritesMayFail, AcksMayBeLost, TotalsMayFail, ReplaysMayFail} \subseteq BOOLEAN
    /\ None \notin Nat

VARIABLES
    heard,      \* what the processor has taken of each connection's events
    active,     \* active_connections: the bytes shown for each, None when absent
    writing,    \* the connection whose row is being written, None when there is none
    outgoing,   \* the event about to be broadcast, None when there is none
    rows,       \* table connections
    nextId,     \* next value of the identity column
    session,    \* the server's side of each web socket
    view,       \* the state of the dashboard
    dials,
    crashes

processorVars == <<heard, active, writing, outgoing, rows, nextId>>
feedVars == <<processorVars, session, view, dials, crashes>>

Row == [id : Nat \ {0}, conn : Conns]
WsEvent == [type : {"connected", "bytes_sent", "disconnected"},
            conn : Conns, bytes : Nat, sequence : Nat]
ASSUME NoneIsNoEvent == None \notin WsEvent
Entries == [Conns -> Nat \cup {None}]

Phases == {"closed", "dialled", "reading", "counted", "querying", "replaying", "live"}
Session == [phase : Phases,
            last : Nat,               \* last_sequence
            unread : SUBSET Conns,    \* entries of the map the snapshot has to read
            snapshot : Entries,
            counted : Nat,            \* total_connections, as read
            countedTo : Nat,          \* last_counted_id, as read
            records : SUBSET Row,     \* what the history query still has to return
            inbox : Seq(WsEvent)]     \* the broadcasts it has not received

View == [active : Entries, lastCounted : Nat, maxSeen : Nat, total : Nat]

NoEntries == [c \in Conns |-> None]
Closed == [phase |-> "closed", last |-> 0, unread |-> {}, snapshot |-> NoEntries,
           counted |-> 0, countedTo |-> 0, records |-> {}, inbox |-> << >>]

\* Mutant: a session subscribes after it has read the map.
SubscribedAfterReading(s) == session[s].phase \notin {"closed", "dialled", "reading"}

Subscribed(s) == session[s].phase \notin {"closed", "dialled"}

\* The newest id of the table, 0 when it is empty: COALESCE(MAX(id), 0).
NewestId == Max({r.id : r \in rows} \cup {0})

\* get_connections_since: the newest HistoryLimit rows above an id.
RowsSince(id) ==
    LET later == {r \in rows : r.id > id}
    IN {r \in later : Cardinality({q \in later : q.id > r.id}) < HistoryLimit}

Unheard == [connected |-> FALSE, bytes |-> 0, ended |-> FALSE]

Init ==
    /\ heard = [c \in Conns |-> Unheard]
    /\ active = NoEntries
    /\ writing = None
    /\ outgoing = None
    /\ rows = {}
    /\ nextId = 1
    /\ session = [s \in Sessions |-> Closed]
    /\ view = [active |-> NoEntries, lastCounted |-> 0, maxSeen |-> 0, total |-> 0]
    /\ dials = 0
    /\ crashes = 0

-----------------------------------------------------------------------------
(* The event processor: the map first, then the broadcast *)

Ready == writing = None /\ outgoing = None

InsertEntry(c) ==
    /\ Ready
    /\ ~heard[c].connected
    /\ heard' = [heard EXCEPT ![c].connected = TRUE]
    /\ active' = [active EXCEPT ![c] = 0]
    /\ outgoing' = [type |-> "connected", conn |-> c, bytes |-> 0, sequence |-> 0]
    /\ UNCHANGED <<writing, rows, nextId, session, view, dials, crashes>>

\* The broadcast goes out whether or not the connection is in the map.
UpdateEntry(c) ==
    /\ Ready
    /\ ~heard[c].ended
    /\ heard[c].bytes < MaxUpdates
    /\ LET n == heard[c].bytes + 1
       IN /\ heard' = [heard EXCEPT ![c].bytes = n]
          /\ active' = [active EXCEPT ![c] = IF @ = None THEN None ELSE n]
          /\ outgoing' = [type |-> "bytes_sent", conn |-> c, bytes |-> n, sequence |-> 0]
    /\ UNCHANGED <<writing, rows, nextId, session, view, dials, crashes>>

RemoveEntry(c) ==
    /\ Ready
    /\ ~heard[c].ended
    /\ heard' = [heard EXCEPT ![c].ended = TRUE]
    /\ active' = [active EXCEPT ![c] = None]
    /\ writing' = c
    /\ UNCHANGED <<outgoing, rows, nextId, session, view, dials, crashes>>

\* insert_connection has committed, the row and its totals together.
Record ==
    /\ writing # None
    /\ rows' = rows \cup {[id |-> nextId, conn |-> writing]}
    /\ nextId' = nextId + 1
    /\ outgoing' = [type |-> "disconnected", conn |-> writing, bytes |-> 0,
                    sequence |-> nextId]
    /\ writing' = None
    /\ UNCHANGED <<heard, active, session, view, dials, crashes>>

\* It has failed, before or after an id was taken: nothing is broadcast.
RecordFails ==
    /\ WritesMayFail
    /\ writing # None
    /\ nextId' \in {nextId, nextId + 1}
    /\ writing' = None
    /\ UNCHANGED <<heard, active, outgoing, rows, session, view, dials, crashes>>

\* The commit was applied and its answer is lost: the row is there, without a broadcast.
RecordUnacknowledged ==
    /\ AcksMayBeLost
    /\ writing # None
    /\ rows' = rows \cup {[id |-> nextId, conn |-> writing]}
    /\ nextId' = nextId + 1
    /\ writing' = None
    /\ UNCHANGED <<heard, active, outgoing, session, view, dials, crashes>>

Broadcast ==
    /\ outgoing # None
    /\ session' = [s \in Sessions |->
                      IF Subscribed(s)
                      THEN [session[s] EXCEPT !.inbox = Append(@, outgoing)]
                      ELSE session[s]]
    /\ outgoing' = None
    /\ UNCHANGED <<heard, active, writing, rows, nextId, view, dials, crashes>>

-----------------------------------------------------------------------------
(* The browser: wsReducer *)

OnInit(v, s) ==
    [v EXCEPT !.active = s.snapshot, !.lastCounted = s.countedTo, !.total = s.counted]

OnConnected(v, c) ==
    IF v.active[c] # None THEN v ELSE [v EXCEPT !.active[c] = 0]

OnBytesSent(v, c, n) ==
    IF v.active[c] = None THEN v ELSE [v EXCEPT !.active[c] = n]

\* Mutant: what the totals of the init cover is counted again.
OnDisconnectedCountsAll(v, c, sequence) ==
    IF sequence <= v.maxSeen THEN v
    ELSE [v EXCEPT !.active[c] = None, !.maxSeen = sequence, !.total = @ + 1]

\* Anything at or below the high-water mark is taken for a duplicate.
OnDisconnected(v, c, sequence) ==
    IF sequence <= v.maxSeen THEN v
    ELSE [v EXCEPT !.active[c] = None,
                   !.maxSeen = sequence,
                   !.total = IF sequence <= v.lastCounted THEN @ ELSE @ + 1]

OnEvent(v, e) ==
    CASE e.type = "connected" -> OnConnected(v, e.conn)
      [] e.type = "bytes_sent" -> OnBytesSent(v, e.conn, e.bytes)
      [] e.type = "disconnected" -> OnDisconnected(v, e.conn, e.sequence)

-----------------------------------------------------------------------------
(* A session: handle_socket *)

\* Mutant: the cursor runs ahead of what the dashboard has got.
DialAhead(s) ==
    /\ session[s].phase = "closed"
    /\ dials < MaxDials
    /\ dials' = dials + 1
    /\ session' = [session EXCEPT ![s].phase = "dialled", ![s].last = NewestId]
    /\ UNCHANGED <<processorVars, view, crashes>>

\* The dashboard opens a web socket and asks for what it has not seen.  The cursor is a
\* copy of maxSeenSequence that an effect updates after rendering: it may be an older one.
Dial(s) ==
    /\ session[s].phase = "closed"
    /\ dials < MaxDials
    /\ dials' = dials + 1
    /\ \E since \in {0} \cup {r.id : r \in rows} :
          /\ since <= view.maxSeen
          /\ session' = [session EXCEPT ![s].phase = "dialled", ![s].last = since]
    /\ UNCHANGED <<processorVars, view, crashes>>

\* The server subscribes before it reads anything.
Subscribe(s) ==
    /\ session[s].phase = "dialled"
    /\ session' = [session EXCEPT ![s].phase = "reading", ![s].unread = Conns]
    /\ UNCHANGED <<processorVars, view, dials, crashes>>

\* The map is read one entry after the other, while the processor writes to it.
ReadEntry(s, c) ==
    /\ session[s].phase = "reading"
    /\ c \in session[s].unread
    /\ session' = [session EXCEPT ![s].unread = @ \ {c}, ![s].snapshot[c] = active[c]]
    /\ UNCHANGED <<processorVars, view, dials, crashes>>

\* One statement reads the totals and the newest id they cover.
GetTotals(s) ==
    /\ session[s].phase = "reading"
    /\ session[s].unread = {}
    /\ session' = [session EXCEPT ![s].phase = "counted",
                                  ![s].counted = Cardinality(rows),
                                  ![s].countedTo = NewestId]
    /\ UNCHANGED <<processorVars, view, dials, crashes>>

\* The totals cannot be read: the session goes on with zeros.
TotalsFail(s) ==
    /\ TotalsMayFail
    /\ session[s].phase = "reading"
    /\ session[s].unread = {}
    /\ session' = [session EXCEPT ![s].phase = "counted"]
    /\ UNCHANGED <<processorVars, view, dials, crashes>>

SendInit(s) ==
    /\ session[s].phase = "counted"
    /\ view' = OnInit(view, session[s])
    /\ session' = [session EXCEPT ![s].phase = "querying", ![s].snapshot = NoEntries,
                                  ![s].counted = 0, ![s].countedTo = 0]
    /\ UNCHANGED <<processorVars, dials, crashes>>

\* The history, and the catch-up of a session that lagged, are the same query.
QueryHistory(s) ==
    /\ session[s].phase = "querying"
    /\ session' = [session EXCEPT ![s].phase = "replaying",
                                  ![s].records = RowsSince(session[s].last)]
    /\ UNCHANGED <<processorVars, view, dials, crashes>>

\* Mutant: the outer ORDER BY of get_connections_since is missing.
SendRecordNewestFirst(s) ==
    /\ session[s].phase = "replaying"
    /\ \E r \in session[s].records :
          /\ \A q \in session[s].records : q.id <= r.id
          /\ session' = [session EXCEPT ![s].records = @ \ {r}, ![s].last = r.id]
          /\ view' = OnDisconnected(view, r.conn, r.id)
    /\ UNCHANGED <<processorVars, dials, crashes>>

\* The records come oldest first.
SendRecord(s) ==
    /\ session[s].phase = "replaying"
    /\ \E r \in session[s].records :
          /\ \A q \in session[s].records : r.id <= q.id
          /\ session' = [session EXCEPT ![s].records = @ \ {r}, ![s].last = r.id]
          /\ view' = OnDisconnected(view, r.conn, r.id)
    /\ UNCHANGED <<processorVars, dials, crashes>>

\* Every record is sent, or the query fails and the session goes on without the rest.
EndReplay(s) ==
    /\ session[s].phase = "replaying"
    /\ session[s].records = {} \/ ReplaysMayFail
    /\ session' = [session EXCEPT ![s].phase = "live", ![s].records = {}]
    /\ UNCHANGED <<processorVars, view, dials, crashes>>

Lags(s) == Len(session[s].inbox) > BroadcastCapacity

Forward(s) ==
    /\ session[s].phase = "live"
    /\ session[s].inbox # << >>
    /\ ~Lags(s)
    /\ LET e == Head(session[s].inbox)
       IN /\ session' = [session EXCEPT
                            ![s].inbox = Tail(@),
                            ![s].last = IF e.type = "disconnected" THEN e.sequence ELSE @]
          /\ view' = OnEvent(view, e)
    /\ UNCHANGED <<processorVars, dials, crashes>>

\* Mutant: a session that lagged just goes on.
LagIgnored(s) ==
    /\ session[s].phase = "live"
    /\ Lags(s)
    /\ session' = [session EXCEPT
                      ![s].inbox = SubSeq(@, Len(@) - BroadcastCapacity + 1, Len(@))]
    /\ UNCHANGED <<processorVars, view, dials, crashes>>

\* The oldest broadcasts were overwritten: the session catches up from the table, and
\* goes on with those that are left.
Lag(s) ==
    /\ session[s].phase = "live"
    /\ Lags(s)
    /\ session' = [session EXCEPT
                      ![s].phase = "querying",
                      ![s].inbox = SubSeq(@, Len(@) - BroadcastCapacity + 1, Len(@))]
    /\ UNCHANGED <<processorVars, view, dials, crashes>>

\* The socket fails, or either side closes it; the view stays.
Close(s) ==
    /\ session[s].phase # "closed"
    /\ session' = [session EXCEPT ![s] = Closed]
    /\ UNCHANGED <<processorVars, view, dials, crashes>>

\* The backend dies and starts again: the table stays, the events underway are lost.
Crash ==
    /\ crashes < MaxCrashes
    /\ crashes' = crashes + 1
    /\ active' = NoEntries
    /\ writing' = None
    /\ outgoing' = None
    /\ heard' = [c \in Conns |-> IF heard[c] = Unheard THEN Unheard
                                 ELSE [connected |-> TRUE, bytes |-> MaxUpdates,
                                       ended |-> TRUE]]
    /\ session' = [s \in Sessions |-> Closed]
    /\ UNCHANGED <<rows, nextId, view, dials>>

-----------------------------------------------------------------------------
Process == \/ Record \/ RecordFails \/ RecordUnacknowledged \/ Broadcast
           \/ \E c \in Conns : InsertEntry(c) \/ UpdateEntry(c) \/ RemoveEntry(c)

Follow(s) == \/ Subscribe(s) \/ GetTotals(s) \/ TotalsFail(s) \/ SendInit(s)
             \/ QueryHistory(s) \/ SendRecord(s) \/ EndReplay(s) \/ Forward(s) \/ Lag(s)
             \/ \E c \in Conns : ReadEntry(s, c)

Next == \/ Process
        \/ \E s \in Sessions : Follow(s) \/ Dial(s) \/ Close(s)
        \/ Crash

\* The processor finishes what it has begun, and a session that is open is polled
\* again.  Nothing makes an event arrive, a dashboard dial or a socket stay open.
Fairness == /\ WF_feedVars(Record \/ RecordFails \/ RecordUnacknowledged \/ Broadcast)
            /\ \A s \in Sessions : WF_feedVars(Follow(s))

Spec == Init /\ [][Next]_feedVars
FairSpec == Spec /\ Fairness

-----------------------------------------------------------------------------
(* Properties *)

\* Every variable has its type; an event is being written or broadcast, not both.
TypeOK ==
    /\ heard \in [Conns -> [connected : BOOLEAN, bytes : Nat, ended : BOOLEAN]]
    /\ active \in Entries
    /\ writing \in Conns \cup {None}
    /\ outgoing \in WsEvent \cup {None}
    /\ writing = None \/ outgoing = None
    /\ rows \in SUBSET Row
    /\ nextId \in Nat \ {0}
    /\ session \in [Sessions -> Session]
    /\ view \in View
    /\ dials \in Nat
    /\ crashes \in Nat

\* The total a dashboard shows is the number of rows up to the newest it knows of, by the
\* totals of its last init or by an event: a row is never counted twice, and never left
\* out, however replays, broadcasts and reconnects overlap (ws-state.ts:109-119,
\* events.rs:47 "Totals cover exactly the connections with id at or below this").
TotalsExact ==
    view.total = Cardinality({r \in rows : r.id <= Max({view.lastCounted, view.maxSeen})})

\* The high-water mark of a dashboard moves from a row to the next one: nothing recorded
\* is passed over, neither by a reconnect nor by a lagging session (ws_router.rs:147-148,
\* 243-245, use-web-sockets.ts:14).
NoRowSkipped ==
    [][ view.maxSeen < view'.maxSeen =>
          ~ \E r \in rows : view.maxSeen < r.id /\ r.id < view'.maxSeen ]_feedVars

\* The session of the dashboard has forwarded all there is.
CaughtUp(s) ==
    /\ session[s].phase = "live"
    /\ session[s].inbox = << >>
    /\ Ready

\* A dashboard that has caught up shows every connection that has not ended, with no
\* fewer bytes than the map has (ws_router.rs:119, "subscribe to the WS broadcast channel
\* BEFORE querying the DB so we don't miss events that arrive between the query and the
\* loop start").  The map itself may be behind where Connected came late.
NothingMissing ==
    \A s \in Sessions : CaughtUp(s) =>
        \A c \in Conns : active[c] # None /\ ~heard[c].ended =>
            view.active[c] # None /\ view.active[c] >= active[c]

\* A disconnected event that the reducer drops as a duplicate has nothing left to do: its
\* connection is off the list (ws-state.ts:94-95, "the sequence is monotonic and delivery
\* is in-order, so anything at or below the high-water mark is a replay duplicate").
DroppedIsDone ==
    \A s \in Sessions :
        LET e == Head(session[s].inbox)
        IN session[s].phase = "live" /\ session[s].inbox # << >> /\ ~Lags(s)
               /\ e.type = "disconnected" /\ e.sequence <= view.maxSeen
           => view.active[e.conn] = None

\* A dashboard that stays connected gets to see every row.
EveryRowIsShown ==
    \A s \in Sessions : \A id \in 1..Cardinality(Conns) :
        (session[s].phase # "closed" /\ \E r \in rows : r.id = id)
            ~> (session[s].phase = "closed" \/ view.maxSeen >= id)
=============================================================================
