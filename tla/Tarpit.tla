------------------------------- MODULE Tarpit -------------------------------
(***************************************************************************)
(* The tarpit itself: the listener that accepts and admits connections,    *)
(* one task per trapped client, the bounded channel of client events, and  *)
(* the event processor that keeps the map of active connections and writes *)
(* every ended connection to the database.                                 *)
(*                                                                         *)
(* A connection is one accepted TCP connection, with its own connected_at; *)
(* its address may be used again by a later one.  Bytes are counted in     *)
(* lines, the unit a client task sends and adds to its running total.      *)
(* The dashboards are not here: with nobody subscribed a broadcast does    *)
(* nothing ("ignore send errors, no WS clients connected is fine").        *)
(***************************************************************************)
EXTENDS Integers, Sequences, FiniteSets, FiniteSetsExt

CONSTANTS
    Conns,            \* the TCP connections that may ever be made
    Addrs,            \* remote socket addresses
    AddrOf,           \* the address of each connection
    MaxClients,       \* config.max_clients, the permits of the semaphore
    ChannelCapacity,  \* capacity of the internal event channel (1000)
    MaxLines,         \* bound: lines sent to one connection
    MaxCrashes,       \* bound: crashes of the process
    SocketsMayFail,   \* whether an accepted socket's buffer may fail to be set
    DbMayFail,        \* whether a database statement may return an error
    None              \* no connection, no entry, no transaction

Event == [kind : {"Connected", "BytesSent", "Disconnected"},
          conn : Conns, bytes : Nat]
Entry == [conn : Conns, bytes : Nat]
Row   == [id : Nat, conn : Conns, bytes : Nat]
Totals == [connections : Nat, bytes : Nat]
Transaction == [rows : SUBSET Row, totals : Totals]

ASSUME ConnsFinite == IsFiniteSet(Conns)
ASSUME AddrOfIsTotal == AddrOf \in [Conns -> Addrs]
ASSUME MaxClientsPositive == MaxClients \in Nat \ {0}    \* a NonZeroU16
ASSUME ChannelHasRoom == ChannelCapacity \in Nat \ {0}
ASSUME BoundsAreNatural == MaxLines \in Nat /\ MaxCrashes \in Nat
ASSUME FaultsAreBoolean == SocketsMayFail \in BOOLEAN /\ DbMayFail \in BOOLEAN
ASSUME NoneIsNoValue ==
    None \notin Conns /\ None \notin Entry /\ None \notin Event /\ None \notin Transaction

VARIABLES
    listener,         \* where the listener task is
    incoming,         \* the connection it is admitting or announcing
    task,             \* where each connection's client task is
    gone,             \* the trapped connections whose peer is gone
    sent,             \* bytes_sent of each client task
    permits,          \* available permits of the semaphore
    channel,          \* the internal event channel
    processor,        \* where the event processor is
    handling,         \* the Disconnected event being written
    active,           \* active_connections
    rows,             \* table connections
    totals,           \* table totals
    nextId,           \* next value of the identity column
    tx,               \* what the open transaction sees, None when none is open
    clientsCancelled, \* client_cancellation_token
    mainCancelled,    \* cancellation_token
    crashes

listenerVars == <<listener, incoming>>
clientVars == <<task, gone, sent, permits>>
dbVars == <<rows, totals, nextId, tx>>
processorVars == <<processor, handling, active, dbVars>>
tokenVars == <<clientsCancelled, mainCancelled>>
vars == <<listenerVars, clientVars, channel, processorVars, tokenVars, crashes>>

ListenerStates == {"binding", "accepting", "admitting", "announcing", "returned",
                   "unwinding", "stopped"}
TaskStates == {"new", "refused", "running", "reporting", "finished", "killed"}
ProcessorStates == {"idle", "inserting", "updating", "committing", "stopped"}

Connected(c)       == [kind |-> "Connected", conn |-> c, bytes |-> 0]
BytesSent(c, n)    == [kind |-> "BytesSent", conn |-> c, bytes |-> n]
Disconnected(c, n) == [kind |-> "Disconnected", conn |-> c, bytes |-> n]

Running == {c \in Conns : task[c] = "running"}

\* The receiver half of the channel lives in the processor task.
ReceiverAlive == processor # "stopped"

\* A send completes once there is room, or at once when the receiver is gone.
CanSend == ReceiverAlive => Len(channel) < ChannelCapacity
Sent(e) == IF ReceiverAlive THEN Append(channel, e) ELSE channel

\* Tasks that may hold or wait for a slot of the channel.
Senders == {c \in Conns : task[c] = "reporting" \/ incoming = c}

-----------------------------------------------------------------------------
Init ==
    /\ listener = "binding"
    /\ incoming = None
    /\ task = [c \in Conns |-> "new"]
    /\ gone = {}
    /\ sent = [c \in Conns |-> 0]
    /\ permits = MaxClients
    /\ channel = << >>
    /\ processor = "idle"
    /\ handling = None
    /\ active = [a \in Addrs |-> None]
    /\ rows = {}
    /\ totals = [connections |-> 0, bytes |-> 0]
    /\ nextId = 1
    /\ tx = None
    /\ clientsCancelled = FALSE
    /\ mainCancelled = FALSE
    /\ crashes = 0

-----------------------------------------------------------------------------
(* The listener *)

Bind ==
    /\ listener = "binding"
    /\ listener' = "accepting"
    /\ UNCHANGED <<incoming, clientVars, channel, processorVars, tokenVars, crashes>>

BindFails ==
    /\ listener = "binding"
    /\ listener' = "returned"
    /\ UNCHANGED <<incoming, clientVars, channel, processorVars, tokenVars, crashes>>

\* A peer can use an address again once the connection that had it is dead in
\* the kernel, which may be before the task that serves it finds out.
AddressFree(c) == \A d \in Running \ gone : AddrOf[d] # AddrOf[c]

\* The listener is waiting in accept, and its biased select has not seen the token.
Listening == listener = "accepting" /\ ~clientsCancelled

\* From here to the next await the listener does not look at the token again.
Accept(c) ==
    /\ Listening
    /\ task[c] = "new"
    /\ AddressFree(c)
    /\ listener' = "admitting"
    /\ incoming' = c
    /\ UNCHANGED <<clientVars, channel, processorVars, tokenVars, crashes>>

\* Mutant: the limit of max_clients is not looked at.
AdmitUnlimited(c) ==
    /\ listener = "admitting"
    /\ incoming = c
    /\ task[c] = "new"
    /\ permits' = permits - 1
    /\ task' = [task EXCEPT ![c] = "running"]
    /\ listener' = "announcing"
    /\ UNCHANGED <<incoming, gone, sent, channel, processorVars, tokenVars, crashes>>

\* A permit is free: the client task is spawned before its event is sent.
Admit(c) ==
    /\ listener = "admitting"
    /\ incoming = c
    /\ task[c] = "new"
    /\ permits > 0
    /\ permits' = permits - 1
    /\ task' = [task EXCEPT ![c] = "running"]
    /\ listener' = "announcing"
    /\ UNCHANGED <<incoming, gone, sent, channel, processorVars, tokenVars, crashes>>

\* Mutant: the permit is acquired first, and forgotten when the buffer cannot be set.
RefuseKeepsPermit(c) ==
    /\ listener = "admitting"
    /\ incoming = c
    /\ task[c] = "new"
    /\ permits = 0 \/ SocketsMayFail
    /\ permits' = IF permits = 0 THEN 0 ELSE permits - 1
    /\ task' = [task EXCEPT ![c] = "refused"]
    /\ listener' = "accepting"
    /\ incoming' = None
    /\ UNCHANGED <<gone, sent, channel, processorVars, tokenVars, crashes>>

\* No permit is free, or the receive buffer cannot be made small: the socket is
\* dropped on the spot.
Refuse(c) ==
    /\ listener = "admitting"
    /\ incoming = c
    /\ task[c] = "new"
    /\ permits = 0 \/ SocketsMayFail
    /\ task' = [task EXCEPT ![c] = "refused"]
    /\ listener' = "accepting"
    /\ incoming' = None
    /\ UNCHANGED <<gone, sent, permits, channel, processorVars, tokenVars, crashes>>

\* accept returned an error that is not one of the transient ones.
AcceptFails ==
    /\ Listening
    /\ listener' = "returned"
    /\ UNCHANGED <<incoming, clientVars, channel, processorVars, tokenVars, crashes>>

\* Mutant: the Connected event is sent with try_send and dropped when there is no room.
AnnounceTry ==
    /\ listener = "announcing"
    /\ channel' = IF CanSend THEN Sent(Connected(incoming)) ELSE channel
    /\ listener' = "accepting"
    /\ incoming' = None
    /\ UNCHANGED <<clientVars, processorVars, tokenVars, crashes>>

Announce ==
    /\ listener = "announcing"
    /\ CanSend
    /\ channel' = Sent(Connected(incoming))
    /\ listener' = "accepting"
    /\ incoming' = None
    /\ UNCHANGED <<clientVars, processorVars, tokenVars, crashes>>

\* Mutant: the socket that was being announced outlives the accept loop.
ListenerCancelledKeepsPeer ==
    /\ listener \in {"accepting", "announcing"}
    /\ clientsCancelled
    /\ listener' = "returned"
    /\ UNCHANGED <<incoming, clientVars, channel, processorVars, tokenVars, crashes>>

\* The select drops the accept future, with a Connected event it may be sending.
ListenerCancelled ==
    /\ listener \in {"accepting", "announcing"}
    /\ clientsCancelled
    /\ listener' = "returned"
    /\ incoming' = None
    /\ UNCHANGED <<clientVars, channel, processorVars, tokenVars, crashes>>

\* The guards of the listener task are dropped in reverse order of declaration.
DropClientGuard ==
    /\ listener = "returned"
    /\ listener' = "unwinding"
    /\ clientsCancelled' = TRUE
    /\ UNCHANGED <<incoming, clientVars, channel, processorVars, mainCancelled, crashes>>

DropMainGuard ==
    /\ listener = "unwinding"
    /\ listener' = "stopped"
    /\ mainCancelled' = TRUE
    /\ clientsCancelled' = TRUE
    /\ UNCHANGED <<incoming, clientVars, channel, processorVars, crashes>>

-----------------------------------------------------------------------------
(* The client tasks *)

\* One more line went out.  The update is sent with try_send: without a free
\* slot, or with every free slot promised to a waiting sender, it is dropped.
SendLine(c) ==
    /\ task[c] = "running"
    /\ ~clientsCancelled
    /\ sent[c] < MaxLines
    /\ sent' = [sent EXCEPT ![c] = @ + 1]
    /\ \/ /\ ReceiverAlive
          /\ Len(channel) < ChannelCapacity
          /\ channel' = Append(channel, BytesSent(c, sent[c] + 1))
       \/ /\ ReceiverAlive => Len(channel) + Cardinality(Senders) >= ChannelCapacity
          /\ UNCHANGED channel
    /\ UNCHANGED <<listenerVars, task, gone, permits, processorVars, tokenVars, crashes>>

\* handle_client after listen_forever: the permit goes back and a task of its
\* own, which nobody tracks, is left to send the Disconnected event.
EndClient(c) ==
    /\ task[c] = "running"
    /\ permits' = permits + 1
    /\ task' = [task EXCEPT ![c] = "reporting"]
    /\ gone' = gone \ {c}
    /\ UNCHANGED <<listenerVars, sent, channel, processorVars, tokenVars, crashes>>

\* epoll reports that the peer hung up, or a line could not be written to it.
ClientGone(c) == c \in gone /\ EndClient(c)

\* Mutant: a client task looks at the token only once its peer is gone.
ClientCancelledWhenGone(c) == c \in gone /\ clientsCancelled /\ EndClient(c)

ClientCancelled(c) == clientsCancelled /\ EndClient(c)

\* Mutant: the Disconnected event is sent again when it is not known to have arrived.
ReportDisconnectTwice(c) ==
    /\ task[c] = "reporting"
    /\ CanSend
    /\ channel' = Sent(Disconnected(c, sent[c]))
    /\ task' \in {task, [task EXCEPT ![c] = "finished"]}
    /\ UNCHANGED <<listenerVars, gone, sent, permits, processorVars, tokenVars, crashes>>

\* Mutant: the Disconnected event is sent with try_send, like BytesSent.
ReportDisconnectTry(c) ==
    /\ task[c] = "reporting"
    /\ channel' = IF CanSend THEN Sent(Disconnected(c, sent[c])) ELSE channel
    /\ task' = [task EXCEPT ![c] = "finished"]
    /\ UNCHANGED <<listenerVars, gone, sent, permits, processorVars, tokenVars, crashes>>

ReportDisconnect(c) ==
    /\ task[c] = "reporting"
    /\ CanSend
    /\ channel' = Sent(Disconnected(c, sent[c]))
    /\ task' = [task EXCEPT ![c] = "finished"]
    /\ UNCHANGED <<listenerVars, gone, sent, permits, processorVars, tokenVars, crashes>>

-----------------------------------------------------------------------------
(* The event processor *)

\* The biased select looks at the token before it takes an event.
Receives(kind) ==
    /\ processor = "idle"
    /\ ~mainCancelled
    /\ channel # << >>
    /\ Head(channel).kind = kind
    /\ channel' = Tail(channel)

HandleConnected ==
    /\ Receives("Connected")
    /\ LET e == Head(channel)
       IN active' = [active EXCEPT ![AddrOf[e.conn]] = [conn |-> e.conn, bytes |-> 0]]
    /\ UNCHANGED <<listenerVars, clientVars, processor, handling, dbVars, tokenVars, crashes>>

\* Mutant: the update is not matched with its address.
HandleBytesSentForAll ==
    /\ Receives("BytesSent")
    /\ active' = [a \in Addrs |->
                     IF active[a] = None THEN None
                     ELSE [conn |-> active[a].conn, bytes |-> Head(channel).bytes]]
    /\ UNCHANGED <<listenerVars, clientVars, processor, handling, dbVars, tokenVars, crashes>>

\* Only an address that is in the map is updated, whoever is in it.
HandleBytesSent ==
    /\ Receives("BytesSent")
    /\ LET e == Head(channel)
           a == AddrOf[e.conn]
       IN active' = IF active[a] = None THEN active
                    ELSE [active EXCEPT ![a] = [conn |-> active[a].conn, bytes |-> e.bytes]]
    /\ UNCHANGED <<listenerVars, clientVars, processor, handling, dbVars, tokenVars, crashes>>

\* Mutant: a disconnect of a connection that is not in the map is ignored.
HandleDisconnectedIfListed ==
    /\ Receives("Disconnected")
    /\ LET e == Head(channel)
       IN IF active[AddrOf[e.conn]] = None
          THEN UNCHANGED <<active, handling, processor>>
          ELSE /\ active' = [active EXCEPT ![AddrOf[e.conn]] = None]
               /\ handling' = e
               /\ processor' = "inserting"
    /\ UNCHANGED <<listenerVars, clientVars, dbVars, tokenVars, crashes>>

\* The entry of the address goes, whichever connection it is of.
HandleDisconnected ==
    /\ Receives("Disconnected")
    /\ LET e == Head(channel)
       IN /\ active' = [active EXCEPT ![AddrOf[e.conn]] = None]
          /\ handling' = e
    /\ processor' = "inserting"
    /\ UNCHANGED <<listenerVars, clientVars, dbVars, tokenVars, crashes>>

\* Mutant: the row is inserted outside the transaction.
InsertRowAtOnce ==
    /\ processor = "inserting"
    /\ rows' = rows \cup {[id |-> nextId, conn |-> handling.conn, bytes |-> handling.bytes]}
    /\ tx' = [rows |-> rows', totals |-> totals]
    /\ nextId' = nextId + 1
    /\ processor' = "updating"
    /\ UNCHANGED <<listenerVars, clientVars, channel, handling, active, totals,
                   tokenVars, crashes>>

\* Mutant: an id is handed out twice.
InsertRowReusesId ==
    /\ processor = "inserting"
    /\ tx' = [rows |-> rows \cup {[id |-> nextId, conn |-> handling.conn,
                                   bytes |-> handling.bytes]},
              totals |-> totals]
    /\ processor' = "updating"
    /\ UNCHANGED <<listenerVars, clientVars, channel, handling, active, rows, totals,
                   nextId, tokenVars, crashes>>

\* BEGIN and the INSERT, which takes its id from a sequence that never rolls back.
InsertRow ==
    /\ processor = "inserting"
    /\ tx' = [rows |-> rows \cup {[id |-> nextId, conn |-> handling.conn,
                                   bytes |-> handling.bytes]},
              totals |-> totals]
    /\ nextId' = nextId + 1
    /\ processor' = "updating"
    /\ UNCHANGED <<listenerVars, clientVars, channel, handling, active, rows, totals,
                   tokenVars, crashes>>

\* Mutant: the totals are updated outside the transaction.
UpdateTotalsAtOnce ==
    /\ processor = "updating"
    /\ totals' = [connections |-> totals.connections + 1,
                  bytes |-> totals.bytes + handling.bytes]
    /\ processor' = "committing"
    /\ UNCHANGED <<listenerVars, clientVars, channel, handling, active, rows, tx,
                   nextId, tokenVars, crashes>>

UpdateTotals ==
    /\ processor = "updating"
    /\ tx' = [rows |-> tx.rows,
              totals |-> [connections |-> tx.totals.connections + 1,
                          bytes |-> tx.totals.bytes + handling.bytes]]
    /\ processor' = "committing"
    /\ UNCHANGED <<listenerVars, clientVars, channel, handling, active, rows, totals,
                   nextId, tokenVars, crashes>>

\* Mutant: a commit whose acknowledgement is lost is tried again from the start.
CommitRetried ==
    /\ processor = "committing"
    /\ rows' = tx.rows
    /\ totals' = tx.totals
    /\ tx' = None
    /\ \/ processor' = "idle" /\ handling' = None
       \/ processor' = "inserting" /\ UNCHANGED handling
    /\ UNCHANGED <<listenerVars, clientVars, channel, active, nextId, tokenVars, crashes>>

Commit ==
    /\ processor = "committing"
    /\ rows' = tx.rows
    /\ totals' = tx.totals
    /\ tx' = None
    /\ handling' = None
    /\ processor' = "idle"
    /\ UNCHANGED <<listenerVars, clientVars, channel, active, nextId, tokenVars, crashes>>

\* A statement fails: the transaction is rolled back, the error is only logged.
InsertFails ==
    /\ DbMayFail
    /\ processor \in {"inserting", "updating", "committing"}
    /\ tx' = None
    /\ handling' = None
    /\ processor' = "idle"
    /\ UNCHANGED <<listenerVars, clientVars, channel, active, rows, totals, nextId,
                   tokenVars, crashes>>

\* The receiver is dropped, and the events still queued with it.
ProcessorCancelled ==
    /\ processor = "idle"
    /\ mainCancelled
    /\ processor' = "stopped"
    /\ channel' = << >>
    /\ UNCHANGED <<listenerVars, clientVars, handling, active, dbVars, tokenVars, crashes>>

\* recv returns None once every sender is gone; the task's guard cancels the rest.
ProcessorChannelClosed ==
    /\ processor = "idle"
    /\ channel = << >>
    /\ listener \in {"returned", "unwinding", "stopped"}
    /\ \A c \in Conns : task[c] \notin {"running", "reporting"}
    /\ processor' = "stopped"
    /\ mainCancelled' = TRUE
    /\ clientsCancelled' = TRUE
    /\ UNCHANGED <<listenerVars, clientVars, channel, handling, active, dbVars, crashes>>

-----------------------------------------------------------------------------
(* What the peers, and the rest of the process, do to these tasks *)

\* A trapped peer hangs up, or its connection is reset or times out.
PeerGone(c) ==
    /\ task[c] = "running"
    /\ c \notin gone
    /\ gone' = gone \cup {c}
    /\ UNCHANGED <<listenerVars, task, sent, permits, channel, processorVars, tokenVars,
                   crashes>>

\* start_tasks cancels the clients' token after a signal.
CancelClients ==
    /\ ~clientsCancelled
    /\ clientsCancelled' = TRUE
    /\ UNCHANGED <<listenerVars, clientVars, channel, processorVars, mainCancelled, crashes>>

\* start_tasks, or the guard of another task, cancels the main token and its child.
CancelAll ==
    /\ ~mainCancelled
    /\ mainCancelled' = TRUE
    /\ clientsCancelled' = TRUE
    /\ UNCHANGED <<listenerVars, clientVars, channel, processorVars, crashes>>

\* The process dies and is started again: only the committed tables survive.
Crash ==
    /\ crashes < MaxCrashes
    /\ crashes' = crashes + 1
    /\ listener' = "binding"
    /\ incoming' = None
    /\ task' = [c \in Conns |-> IF task[c] \in {"running", "reporting"}
                                THEN "killed" ELSE task[c]]
    /\ gone' = {}
    /\ permits' = MaxClients
    /\ channel' = << >>
    /\ processor' = "idle"
    /\ handling' = None
    /\ active' = [a \in Addrs |-> None]
    /\ tx' = None
    /\ clientsCancelled' = FALSE
    /\ mainCancelled' = FALSE
    /\ UNCHANGED <<sent, rows, totals, nextId>>

-----------------------------------------------------------------------------
Listen == \/ Bind \/ BindFails \/ AcceptFails \/ Announce
          \/ ListenerCancelled \/ DropClientGuard \/ DropMainGuard
          \/ \E c \in Conns : Accept(c) \/ Admit(c) \/ Refuse(c)

Serve == \E c \in Conns :
            \/ SendLine(c) \/ ClientGone(c) \/ ClientCancelled(c) \/ ReportDisconnect(c)

Process == \/ HandleConnected \/ HandleBytesSent \/ HandleDisconnected
           \/ InsertRow \/ UpdateTotals \/ Commit \/ InsertFails
           \/ ProcessorCancelled \/ ProcessorChannelClosed

Environment == \/ CancelClients \/ CancelAll \/ Crash
               \/ \E c \in Conns : PeerGone(c)

Next == Listen \/ Serve \/ Process \/ Environment

\* Every task that can run is polled again (the runtime's scheduler), and every
\* statement sent to the database ends, one way or the other.  Nothing is
\* assumed of the peers, of the signals, or of a line that is being written.
Fairness ==
    /\ WF_vars(Bind \/ BindFails)
    /\ WF_vars(Announce \/ \E c \in Conns : Admit(c) \/ Refuse(c))
    /\ WF_vars(ListenerCancelled)
    /\ WF_vars(DropClientGuard)
    /\ WF_vars(DropMainGuard)
    /\ \A c \in Conns : WF_vars(ClientGone(c) \/ ClientCancelled(c))
    /\ \A c \in Conns : WF_vars(ReportDisconnect(c))
    /\ WF_vars(Process)

Spec == Init /\ [][Next]_vars
FairSpec == Spec /\ Fairness

-----------------------------------------------------------------------------
(* Properties *)

ListenerOK ==
    /\ listener \in ListenerStates
    /\ incoming \in Conns \cup {None}
    /\ (incoming # None) <=> listener \in {"admitting", "announcing"}

ClientsOK ==
    /\ task \in [Conns -> TaskStates]
    /\ gone \subseteq Running
    /\ sent \in [Conns -> Nat]
    /\ permits \in Nat

ChannelOK == channel \in Seq(Event)

ProcessorOK ==
    /\ processor \in ProcessorStates
    /\ handling \in Event \cup {None}
    /\ active \in [Addrs -> Entry \cup {None}]

DatabaseOK ==
    /\ rows \in SUBSET Row
    /\ totals \in Totals
    /\ nextId \in Nat \ {0}
    /\ tx \in Transaction \cup {None}

\* An event is being written, in a transaction once its row is inserted.
WritingOK ==
    /\ (handling # None) <=> processor \in {"inserting", "updating", "committing"}
    /\ (tx # None) <=> processor \in {"updating", "committing"}

TokensOK ==
    /\ clientsCancelled \in BOOLEAN
    /\ mainCancelled \in BOOLEAN
    /\ crashes \in Nat

\* Every variable has its type; a connection is coming in exactly while the
\* listener admits or announces it; only a trapped connection is waited on (gone); an event
\* and a transaction are at hand exactly while the processor writes.
TypeOK ==
    /\ ListenerOK
    /\ ClientsOK
    /\ ChannelOK
    /\ ProcessorOK
    /\ DatabaseOK
    /\ WritingOK
    /\ TokensOK

\* Every permit is either available or held by a client task that still serves its
\* peer, through refusals, disconnects, cancellations and restarts: the tarpit never
\* traps more than max_clients and never forgets a slot (listener.rs:113, client.rs:231).
PermitsAccounted == permits + Cardinality(Running) = MaxClients

Recorded(c) == \E r \in rows : r.conn = c
BeingRecorded(c) == handling # None /\ handling.conn = c

\* The positions of the channel that hold a Disconnected event.
Reports == {i \in 1..Len(channel) : channel[i].kind = "Disconnected"}
Queued(c) == \E i \in Reports : channel[i].conn = c

\* The Disconnected event of c still exists somewhere.
Unsettled(c) == task[c] = "reporting" \/ Queued(c) \/ BeingRecorded(c)

\* A connection has at most one row, which it gets after its client task has ended,
\* with the final running total of that task and not one of the intermediate ones
\* (client.rs:254, events.rs:215, db.rs:54).
RecordedOnce ==
    \A r \in rows :
        /\ task[r.conn] = "finished"
        /\ r.bytes = sent[r.conn]
        /\ \A s \in rows : s.conn = r.conn => s = r

\* The Disconnected event of a connection is in one place at most - with the task that
\* sends it, at one position of the channel, with the processor, or in a row - and it
\* carries the final running total wherever it is (client.rs:237-245, events.rs:135).
EventInOnePlace ==
    /\ \A i \in Reports :
          /\ task[channel[i].conn] = "finished"
          /\ channel[i].bytes = sent[channel[i].conn]
          /\ ~BeingRecorded(channel[i].conn)
          /\ ~Recorded(channel[i].conn)
    /\ \A i, j \in Reports : channel[i].conn = channel[j].conn => i = j
    /\ handling # None =>
          /\ task[handling.conn] = "finished"
          /\ handling.bytes = sent[handling.conn]
          /\ ~Recorded(handling.conn)

\* The open transaction differs from the committed tables by the row being written and
\* by its share of the totals, and that row's id is above every committed one
\* (db.rs:52-112).
TransactionAddsOneRow ==
    /\ \A r \in rows : r.id < nextId
    /\ tx # None =>
          /\ tx.rows = rows \cup {[id |-> nextId - 1, conn |-> handling.conn,
                                   bytes |-> handling.bytes]}
          /\ \A r \in rows : r.id < nextId - 1
    /\ processor = "updating" => tx.totals = totals
    /\ processor = "committing" =>
          tx.totals = [connections |-> totals.connections + 1,
                       bytes |-> totals.bytes + handling.bytes]

\* The single row of table totals is always what counting the rows recorded so far gives,
\* whatever statement failed and wherever the process died (db.rs:52-112; rows are not
\* forgotten here when the retention policy drops them from the table).
TotalsMatchRows ==
    /\ totals.connections = Cardinality(rows)
    /\ totals.bytes = SumFunction([r \in rows |-> r.bytes])

\* Rows become visible in the order of their ids, which is what lets a dashboard take
\* an id for a position in the stream (events.rs:227, ws_router.rs:148, db.rs:159).
RowsAppearInIdOrder ==
    [][\A r \in rows' \ rows : \A s \in rows : s.id < r.id]_vars

\* An entry of the active map belongs to its address, and shows no more bytes than
\* its own connection has sent (events.rs:185, events.rs:192).  It needs addresses
\* that are not used twice.
EntryBytesAreItsOwn ==
    \A a \in Addrs : active[a] # None =>
        AddrOf[active[a].conn] = a /\ active[a].bytes <= sent[active[a].conn]

\* Every event has been processed, and none is on its way.
Quiet ==
    /\ processor = "idle"
    /\ channel = << >>
    /\ Senders = {}
    /\ ~clientsCancelled

\* With every event processed, each client whose peer is there is in the active map
\* (events.rs:91-93, "In-memory representation of currently connected clients").
TrappedAreListed ==
    Quiet => \A c \in Running \ gone :
                active[AddrOf[c]] # None /\ active[AddrOf[c]].conn = c

\* With every event processed, the active map holds trapped clients only
\* (events.rs:91-93, "In-memory representation of currently connected clients").
ListedAreTrapped ==
    Quiet => \A a \in Addrs : active[a] # None => active[a].conn \in Running

\* While the process runs and the database answers, a Disconnected event is never
\* dropped: it is waited for, queued or being written until its row is there
\* (client.rs:237-254 awaits room, where BytesSent does not).
NothingLostInOperation ==
    [][ ~mainCancelled' /\ crashes' = crashes =>
          \A c \in Conns :
              /\ Unsettled(c) => Unsettled(c)' \/ Recorded(c)'
              /\ c \in Running => c \in Running' \/ Unsettled(c)' ]_vars

\* A connection whose peer is gone gives its slot back, and ends up in the database
\* unless the process is shut down first.
GoneIsRecorded ==
    \A c \in Conns : c \in gone ~> Recorded(c) \/ mainCancelled

\* Cancelling the clients' token ends every client task and the listener, and the
\* listener's guards then stop the event processor: "a task stopping on its own takes
\* the others down with it" (main.rs:216-218).
CancellationStopsAll ==
    clientsCancelled ~> Running = {} /\ listener = "stopped" /\ processor = "stopped"

-----------------------------------------------------------------------------
(* The abstract specification the tarpit implements *)

LedgerPhase(c) ==
    CASE task[c] = "new" -> "outside"
      [] task[c] = "refused" -> "refused"
      [] task[c] = "running" -> "trapped"
      [] OTHER -> IF Recorded(c) THEN "recorded"
                  ELSE IF Unsettled(c) THEN "ended" ELSE "lost"

Ledger == INSTANCE ConnectionLedger WITH
    phase <- [c \in Conns |-> LedgerPhase(c)],
    lines <- sent,
    book <- {[conn |-> r.conn, bytes |-> r.bytes] : r \in rows}

\* The listener, the client tasks, the channel and the event processor together
\* behave like the ledger: at most max_clients trapped, nobody turned away while a
\* slot is free, each connection recorded at most once and only when it has ended,
\* in one step with the totals (listener.rs:113, client.rs:208-255, db.rs:31-115).
ImplementsLedger == Ledger!Spec
=============================================================================
