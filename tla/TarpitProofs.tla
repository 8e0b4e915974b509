---------------------------- MODULE TarpitProofs ----------------------------
(***************************************************************************)
(* Theorems about Tarpit, for every number of connections, addresses,      *)
(* permits and slots of the channel.                                       *)
(***************************************************************************)
EXTENDS Tarpit, SumLemmas, FiniteSetTheorems, SequenceTheorems, TLAPS

-----------------------------------------------------------------------------
(* Type correctness *)

\* A channel that was emptied is a sequence of events.
LEMMA EmptiedChannel == << >> \in Seq(Event)
OBVIOUS

\* Sending an event leaves the channel a sequence of events.
LEMMA SentType == ASSUME ChannelOK, NEW e \in Event
                  PROVE  Sent(e) \in Seq(Event)
BY DEF Sent, ChannelOK

\* Receiving one does too, and what is received is an event.
LEMMA ReceivedType == ASSUME ChannelOK, NEW k, Receives(k)
                      PROVE  /\ Head(channel) \in Event
                             /\ Head(channel).kind = k
                             /\ ChannelOK'
BY DEF ChannelOK, Receives

\* A part of the type invariant holds after a step that leaves its variables alone.
LEMMA Untouched == ASSUME TypeOK
                   PROVE  /\ UNCHANGED listenerVars => ListenerOK'
                          /\ UNCHANGED clientVars => ClientsOK'
                          /\ UNCHANGED channel => ChannelOK'
                          /\ UNCHANGED <<processor, handling, active>> => ProcessorOK'
                          /\ UNCHANGED dbVars => DatabaseOK'
                          /\ UNCHANGED <<processor, handling, tx>> => WritingOK'
                          /\ UNCHANGED <<tokenVars, crashes>> => TokensOK'
<1> USE DEF TypeOK
<1>1. UNCHANGED listenerVars => ListenerOK'
  BY DEF ListenerOK, listenerVars
<1>2. UNCHANGED clientVars => ClientsOK'
  BY DEF ClientsOK, clientVars, Running
<1>3. UNCHANGED channel => ChannelOK'
  BY DEF ChannelOK
<1>4. UNCHANGED <<processor, handling, active>> => ProcessorOK'
  BY DEF ProcessorOK
<1>5. UNCHANGED dbVars => DatabaseOK'
  BY DEF DatabaseOK, dbVars
<1>6. UNCHANGED <<tokenVars, crashes>> => TokensOK'
  BY DEF TokensOK, tokenVars
<1>7. UNCHANGED <<processor, handling, tx>> => WritingOK'
  BY DEF WritingOK
<1> QED
  BY <1>1, <1>2, <1>3, <1>4, <1>5, <1>6, <1>7

\* TypeOK holds at the start.
LEMMA InitTypeOK == Init => TypeOK
<1> SUFFICES ASSUME Init PROVE TypeOK
  OBVIOUS
<1>1. ListenerOK
  BY DEF Init, ListenerOK, ListenerStates
<1>2. ClientsOK
  BY MaxClientsPositive DEF Init, ClientsOK, TaskStates
<1>3. ChannelOK
  BY EmptiedChannel DEF Init, ChannelOK
<1>4. ProcessorOK
  BY DEF Init, ProcessorOK, ProcessorStates
<1>5. DatabaseOK
  BY DEF Init, DatabaseOK, Totals
<1>6. TokensOK
  BY DEF Init, TokensOK
<1>7. WritingOK
  BY DEF Init, WritingOK
<1> QED
  BY <1>1, <1>2, <1>3, <1>4, <1>5, <1>6, <1>7 DEF TypeOK

\* No step takes a variable out of its type: one step per action, and in it one step
\* per part of the state the action touches.
LEMMA NextTypeOK == TypeOK /\ [Next]_vars => TypeOK'
<1> SUFFICES ASSUME TypeOK, [Next]_vars PROVE TypeOK'
  OBVIOUS
<1> USE Untouched
<1>1. CASE Bind \/ BindFails \/ AcceptFails \/ ListenerCancelled \/ DropClientGuard
              \/ DropMainGuard
  <2> USE <1>1 DEF Bind, BindFails, AcceptFails, Listening, ListenerCancelled,
                   DropClientGuard, DropMainGuard, processorVars, dbVars, tokenVars
  <2>1. ListenerOK'
    BY DEF TypeOK, ListenerOK, ListenerStates
  <2>2. TokensOK'
    BY DEF TypeOK, TokensOK
  <2> QED
    BY <2>1, <2>2 DEF TypeOK
<1>2. ASSUME NEW c \in Conns, Accept(c) \/ Admit(c)
      PROVE  TypeOK'
  <2> USE <1>2 DEF Accept, Listening, Admit, processorVars, dbVars
  <2>1. ListenerOK'
    BY NoneIsNoValue DEF TypeOK, ListenerOK, ListenerStates
  <2>2. ClientsOK'
    BY DEF TypeOK, ClientsOK, TaskStates, Running
  <2> QED
    BY <2>1, <2>2 DEF TypeOK
<1>3. ASSUME NEW c \in Conns, Refuse(c)
      PROVE  TypeOK'
  <2> USE <1>3 DEF Refuse, processorVars, dbVars
  <2>1. ListenerOK'
    BY DEF TypeOK, ListenerOK, ListenerStates
  <2>2. ClientsOK'
    BY DEF TypeOK, ClientsOK, TaskStates, Running
  <2> QED
    BY <2>1, <2>2 DEF TypeOK
<1>4. CASE Announce
  <2> USE <1>4 DEF Announce, processorVars, dbVars
  <2>1. ListenerOK'
    BY DEF TypeOK, ListenerOK, ListenerStates
  <2>2. Connected(incoming) \in Event
    BY DEF TypeOK, ListenerOK, Connected, Event
  <2>3. ChannelOK'
    BY <2>2, SentType DEF TypeOK, ChannelOK
  <2> QED
    BY <2>1, <2>3 DEF TypeOK
<1>5. ASSUME NEW c \in Conns, SendLine(c)
      PROVE  TypeOK'
  <2> USE <1>5 DEF SendLine, processorVars, dbVars
  <2>1. ClientsOK'
    BY DEF TypeOK, ClientsOK, Running
  <2>2. BytesSent(c, sent[c] + 1) \in Event
    BY DEF TypeOK, ClientsOK, BytesSent, Event
  <2>3. ChannelOK'
    <3>1. channel' = channel \/ channel' = Append(channel, BytesSent(c, sent[c] + 1))
      OBVIOUS
    <3> QED
      BY <2>2, <3>1 DEF TypeOK, ChannelOK
  <2> QED
    BY <2>1, <2>3 DEF TypeOK
<1>6. ASSUME NEW c \in Conns, ClientGone(c) \/ ClientCancelled(c)
      PROVE  TypeOK'
  <2> USE <1>6 DEF ClientGone, ClientCancelled, EndClient, processorVars, dbVars
  <2>1. ClientsOK'
    BY DEF TypeOK, ClientsOK, TaskStates, Running
  <2> QED
    BY <2>1 DEF TypeOK
<1>7. ASSUME NEW c \in Conns, ReportDisconnect(c)
      PROVE  TypeOK'
  <2> USE <1>7 DEF ReportDisconnect, processorVars, dbVars
  <2>1. ClientsOK'
    BY DEF TypeOK, ClientsOK, TaskStates, Running
  <2>2. Disconnected(c, sent[c]) \in Event
    BY DEF TypeOK, ClientsOK, Disconnected, Event
  <2>3. ChannelOK'
    BY <2>2, SentType DEF TypeOK, ChannelOK
  <2> QED
    BY <2>1, <2>3 DEF TypeOK
<1>8. CASE HandleConnected
  <2> USE <1>8 DEF HandleConnected, dbVars
  <2>1. Head(channel) \in Event /\ ChannelOK'
    BY ReceivedType DEF TypeOK
  <2>2. [conn |-> Head(channel).conn, bytes |-> 0] \in Entry
    BY <2>1 DEF Event, Entry
  <2>3. ProcessorOK'
    BY <2>2 DEF TypeOK, ProcessorOK
  <2> QED
    BY <2>1, <2>3 DEF TypeOK
<1>9. CASE HandleBytesSent
  <2> USE <1>9 DEF HandleBytesSent, dbVars
  <2>1. Head(channel) \in Event /\ ChannelOK'
    BY ReceivedType DEF TypeOK
  <2>2. ASSUME NEW a \in Addrs, active[a] # None
        PROVE  [conn |-> active[a].conn, bytes |-> Head(channel).bytes] \in Entry
    BY <2>1, <2>2 DEF TypeOK, ProcessorOK, Event, Entry
  <2>3. AddrOf[Head(channel).conn] \in Addrs
    BY <2>1, AddrOfIsTotal DEF Event
  <2>4. ProcessorOK'
    BY <2>2, <2>3 DEF TypeOK, ProcessorOK
  <2> QED
    BY <2>1, <2>4 DEF TypeOK
<1>10. CASE HandleDisconnected
  <2> USE <1>10 DEF HandleDisconnected, dbVars
  <2>1. Head(channel) \in Event /\ ChannelOK'
    BY ReceivedType DEF TypeOK
  <2>2. ProcessorOK'
    BY <2>1 DEF TypeOK, ProcessorOK, ProcessorStates
  <2>3. WritingOK'
    <3>1. handling' = Head(channel) /\ processor' = "inserting" /\ tx' = tx
      OBVIOUS
    <3>2. processor = "idle"
      BY DEF Receives
    <3> QED
      BY <2>1, <3>1, <3>2, NoneIsNoValue DEF TypeOK, WritingOK
  <2> QED
    BY <2>1, <2>2, <2>3 DEF TypeOK
<1>11. CASE InsertRow
  <2> USE <1>11 DEF InsertRow
  <2>1. ProcessorOK'
    BY DEF TypeOK, ProcessorOK, ProcessorStates
  <2>2. handling \in Event
    BY DEF TypeOK, ProcessorOK, WritingOK
  <2>3. tx' \in Transaction
    BY <2>2 DEF TypeOK, DatabaseOK, Transaction, Row, Event
  <2>4. DatabaseOK'
    BY <2>3 DEF TypeOK, DatabaseOK
  <2>5. WritingOK'
    BY <2>3, NoneIsNoValue DEF TypeOK, WritingOK
  <2> QED
    BY <2>1, <2>4, <2>5 DEF TypeOK
<1>12. CASE UpdateTotals
  <2> USE <1>12 DEF UpdateTotals
  <2>1. ProcessorOK'
    BY DEF TypeOK, ProcessorOK, ProcessorStates
  <2>2. handling \in Event /\ tx \in Transaction
    BY DEF TypeOK, ProcessorOK, DatabaseOK, WritingOK
  <2>3. tx' \in Transaction
    BY <2>2 DEF Transaction, Totals, Event
  <2>4. DatabaseOK'
    BY <2>3 DEF TypeOK, DatabaseOK
  <2>5. WritingOK'
    BY <2>3, NoneIsNoValue DEF TypeOK, WritingOK
  <2> QED
    BY <2>1, <2>4, <2>5 DEF TypeOK
<1>13. CASE Commit \/ InsertFails
  <2> USE <1>13 DEF Commit, InsertFails
  <2>1. ProcessorOK'
    BY DEF TypeOK, ProcessorOK, ProcessorStates
  <2>2. processor = "committing" => tx \in Transaction
    BY DEF TypeOK, DatabaseOK, WritingOK
  <2>3. DatabaseOK'
    BY <2>2 DEF TypeOK, DatabaseOK, Transaction
  <2>4. WritingOK'
    BY DEF WritingOK
  <2> QED
    BY <2>1, <2>3, <2>4 DEF TypeOK
<1>14. CASE ProcessorCancelled \/ ProcessorChannelClosed
  <2> USE <1>14 DEF ProcessorCancelled, ProcessorChannelClosed
  <2>1. ChannelOK'
    BY EmptiedChannel DEF TypeOK, ChannelOK
  <2>2. ProcessorOK'
    BY DEF TypeOK, ProcessorOK, ProcessorStates
  <2>3. TokensOK'
    BY DEF TypeOK, TokensOK, tokenVars
  <2>4. WritingOK'
    BY DEF TypeOK, WritingOK, dbVars
  <2> QED
    BY <2>1, <2>2, <2>3, <2>4 DEF TypeOK
<1>15. CASE CancelClients \/ CancelAll
  <2> USE <1>15 DEF CancelClients, CancelAll, processorVars, dbVars
  <2>1. TokensOK'
    BY DEF TypeOK, TokensOK
  <2> QED
    BY <2>1 DEF TypeOK
<1>16. ASSUME NEW c \in Conns, PeerGone(c)
       PROVE  TypeOK'
  <2> USE <1>16 DEF PeerGone, processorVars, dbVars
  <2>1. ClientsOK'
    BY DEF TypeOK, ClientsOK, Running
  <2> QED
    BY <2>1 DEF TypeOK
<1>17. CASE Crash
  <2>1. ListenerOK'
    BY <1>17 DEF Crash, ListenerOK, ListenerStates
  <2>2. ClientsOK'
    BY <1>17, MaxClientsPositive DEF Crash, TypeOK, ClientsOK, TaskStates
  <2>3. ChannelOK'
    BY <1>17, EmptiedChannel DEF Crash, ChannelOK
  <2>4. ProcessorOK' /\ WritingOK'
    BY <1>17 DEF Crash, ProcessorOK, ProcessorStates, WritingOK
  <2>5. DatabaseOK'
    BY <1>17 DEF Crash, TypeOK, DatabaseOK
  <2>6. TokensOK'
    <3>1. clientsCancelled' \in BOOLEAN /\ mainCancelled' \in BOOLEAN
      BY <1>17, Zenon DEF Crash
    <3>2. crashes' \in Nat
      BY <1>17 DEF Crash, TypeOK, TokensOK
    <3> QED
      BY <3>1, <3>2 DEF TokensOK
  <2> QED
    BY <2>1, <2>2, <2>3, <2>4, <2>5, <2>6 DEF TypeOK
<1>18. CASE UNCHANGED vars
  BY <1>18 DEF TypeOK, vars, processorVars, dbVars
<1> QED
  BY <1>1, <1>2, <1>3, <1>4, <1>5, <1>6, <1>7, <1>8, <1>9, <1>10, <1>11, <1>12, <1>13,
     <1>14, <1>15, <1>16, <1>17, <1>18
     DEF Next, Listen, Serve, Process, Environment

\* Every variable has its type in every reachable state, whatever the constants.
THEOREM TypeCorrect == Spec => []TypeOK
BY InitTypeOK, NextTypeOK, PTL DEF Spec

-----------------------------------------------------------------------------
(* The permits *)

\* The trapped connections are a finite set.
LEMMA RunningFinite == IsFiniteSet(Running) /\ Cardinality(Running) \in Nat
BY ConnsFinite, FS_Subset, FS_CardinalityType DEF Running

\* Every step keeps the count: a permit is taken with a task that starts to run, given
\* back with one that stops, and all are there again after a restart.
LEMMA NextPermits == TypeOK /\ PermitsAccounted /\ [Next]_vars => PermitsAccounted'
<1> SUFFICES ASSUME TypeOK, PermitsAccounted, [Next]_vars PROVE PermitsAccounted'
  OBVIOUS
<1>1. ASSUME UNCHANGED permits, Running' = Running PROVE PermitsAccounted'
  BY <1>1 DEF PermitsAccounted
<1>2. ASSUME UNCHANGED clientVars PROVE PermitsAccounted'
  BY <1>1, <1>2 DEF clientVars, Running
<1>3. ASSUME NEW c \in Conns, Admit(c) PROVE PermitsAccounted'
  <2>1. c \notin Running /\ Running' = Running \cup {c} /\ permits' = permits - 1
    BY <1>3 DEF Admit, Running, TypeOK, ClientsOK
  <2>2. Cardinality(Running') = Cardinality(Running) + 1
    BY <2>1, RunningFinite, FS_AddElement
  <2> QED
    BY <2>1, <2>2, RunningFinite, MaxClientsPositive
       DEF PermitsAccounted, TypeOK, ClientsOK
<1>4. ASSUME NEW c \in Conns, EndClient(c) PROVE PermitsAccounted'
  <2>1. c \in Running /\ Running' = Running \ {c} /\ permits' = permits + 1
    BY <1>4 DEF EndClient, Running, TypeOK, ClientsOK
  <2>2. Cardinality(Running') = Cardinality(Running) - 1
    BY <2>1, RunningFinite, FS_RemoveElement
  <2> QED
    BY <2>1, <2>2, RunningFinite, MaxClientsPositive
       DEF PermitsAccounted, TypeOK, ClientsOK
<1>5. ASSUME NEW c \in Conns, Refuse(c) \/ SendLine(c) \/ ReportDisconnect(c) \/ PeerGone(c)
      PROVE  PermitsAccounted'
  <2>1. permits' = permits /\ Running' = Running
    BY <1>5 DEF Refuse, SendLine, ReportDisconnect, PeerGone, Running, TypeOK, ClientsOK
  <2> QED
    BY <1>1, <2>1
<1>6. CASE Crash
  <2>1. Running' = {} /\ permits' = MaxClients
    BY <1>6 DEF Crash, Running
  <2> QED
    BY <2>1, FS_EmptySet, MaxClientsPositive DEF PermitsAccounted
<1>7. CASE Bind \/ BindFails \/ AcceptFails \/ Announce \/ ListenerCancelled
              \/ DropClientGuard \/ DropMainGuard
  BY <1>2, <1>7 DEF Bind, BindFails, AcceptFails, Announce, ListenerCancelled,
     DropClientGuard, DropMainGuard
<1>8. CASE Process
  BY <1>2, <1>8 DEF Process, HandleConnected, HandleBytesSent, HandleDisconnected,
     InsertRow, UpdateTotals, Commit, InsertFails, ProcessorCancelled,
     ProcessorChannelClosed
<1>9. CASE CancelClients \/ CancelAll \/ UNCHANGED vars \/ \E c \in Conns : Accept(c)
  BY <1>2, <1>9 DEF CancelClients, CancelAll, vars, Accept
<1> QED
  BY <1>3, <1>4, <1>5, <1>6, <1>7, <1>8, <1>9
     DEF Next, Listen, Serve, Environment, ClientGone, ClientCancelled

\* For any max_clients and any number of connections, no permit is lost or made up.
THEOREM PermitsNeverLost == Spec => []PermitsAccounted
<1>1. Init => PermitsAccounted
  <2> SUFFICES ASSUME Init PROVE PermitsAccounted
    OBVIOUS
  <2>1. Running = {}
    BY DEF Init, Running
  <2> QED
    BY <2>1, FS_EmptySet, MaxClientsPositive DEF Init, PermitsAccounted
<1> QED
  BY <1>1, NextPermits, TypeCorrect, PTL DEF Spec

\* The tarpit never traps more clients than max_clients.
COROLLARY NeverOverCapacity == Spec => [](Cardinality(Running) <= MaxClients)
<1>1. TypeOK /\ PermitsAccounted => Cardinality(Running) <= MaxClients
  BY RunningFinite, MaxClientsPositive DEF TypeOK, ClientsOK, PermitsAccounted
<1> QED
  BY <1>1, TypeCorrect, PermitsNeverLost, PTL

-----------------------------------------------------------------------------
(* A connection is recorded once, whole, and in the order of the ids *)

\* The inductive invariant.  RecordedOnce alone is not inductive: that no second row
\* comes needs to know that no second Disconnected event is under way, and that the
\* transaction that is committed adds nothing but the row of the event at hand.
IInv == TypeOK /\ EventInOnePlace /\ RecordedOnce /\ TransactionAddsOneRow

\* What stands at those positions are events.
LEMMA ReportsAreEvents == ChannelOK => \A i \in Reports : channel[i] \in Event
BY ElementOfSeq DEF ChannelOK, Reports

\* Sending an event adds its position to the reports exactly when it is a Disconnected.
LEMMA Enqueued ==
    ASSUME ChannelOK, NEW e \in Event, channel' = Append(channel, e)
    PROVE  /\ \A i \in Reports : i \in Reports' /\ channel'[i] = channel[i]
           /\ \A i \in Reports' :
                 \/ i \in Reports
                 \/ i = Len(channel) + 1 /\ channel'[i] = e /\ e.kind = "Disconnected"
BY AppendProperties DEF ChannelOK, Reports

\* Receiving an event moves the reports one place to the front.
LEMMA Dequeued ==
    ASSUME ChannelOK, channel # << >>, channel' = Tail(channel)
    PROVE  /\ \A i \in Reports' : i + 1 \in Reports /\ channel'[i] = channel[i + 1]
           /\ \A i \in Reports : i = 1 \/ (i - 1 \in Reports' /\ channel'[i - 1] = channel[i])
           /\ Head(channel) = channel[1]
           /\ Head(channel).kind = "Disconnected" => 1 \in Reports
           /\ \A i \in Reports \cup Reports' : i \in Nat \ {0}
BY HeadTailProperties DEF ChannelOK, Reports

\* The same holds of a shorter channel, or of one with another event at its end, as long
\* as what is written and the connections that have ended stay as they are.
LEMMA ChannelFrame ==
    ASSUME IInv,
           UNCHANGED <<handling, rows>>,
           \A c \in Conns : task[c] = "finished" =>
               task'[c] = "finished" /\ sent'[c] = sent[c],
           \/ UNCHANGED channel
           \/ \E e \in Event : e.kind # "Disconnected" /\ channel' = Append(channel, e)
           \/ channel # << >> /\ channel' = Tail(channel)
           \/ channel' = << >>
    PROVE  EventInOnePlace' /\ RecordedOnce'
<1> DEFINE Settled(e) == /\ task[e.conn] = "finished"
                         /\ e.bytes = sent[e.conn]
                         /\ ~BeingRecorded(e.conn)
                         /\ ~Recorded(e.conn)
<1>1. RecordedOnce'
  BY DEF IInv, RecordedOnce, TypeOK, DatabaseOK, Row
<1>2. ASSUME NEW e \in Event, Settled(e) PROVE Settled(e)'
  BY <1>2 DEF BeingRecorded, Recorded, Event
<1>3. (handling # None =>
         /\ task[handling.conn] = "finished"
         /\ handling.bytes = sent[handling.conn]
         /\ ~Recorded(handling.conn))'
  BY DEF IInv, EventInOnePlace, TypeOK, ProcessorOK, Recorded, Event
<1>4. \A i \in Reports : channel[i] \in Event /\ Settled(channel[i])
  BY ReportsAreEvents DEF IInv, TypeOK, EventInOnePlace
<1>5. \A i, j \in Reports : channel[i].conn = channel[j].conn => i = j
  BY DEF IInv, EventInOnePlace
<1> HIDE DEF Settled
<1>6. CASE UNCHANGED channel
  <2>1. Reports' = Reports
    BY <1>6 DEF Reports
  <2>2. \A i \in Reports' : Settled(channel[i])'
    BY <1>2, <1>4, <1>6, <2>1
  <2>3. \A i, j \in Reports' : channel'[i].conn = channel'[j].conn => i = j
    BY <1>5, <1>6, <2>1
  <2> QED
    BY <1>1, <1>3, <2>2, <2>3 DEF EventInOnePlace, Settled
<1>7. ASSUME NEW e \in Event, e.kind # "Disconnected", channel' = Append(channel, e)
      PROVE  EventInOnePlace'
  <2>1. \A i \in Reports' : i \in Reports /\ channel'[i] = channel[i]
    BY <1>7, Enqueued DEF IInv, TypeOK
  <2>2. \A i \in Reports' : Settled(channel[i])'
    BY <1>2, <1>4, <2>1
  <2>3. \A i, j \in Reports' : channel'[i].conn = channel'[j].conn => i = j
    BY <1>5, <2>1
  <2> QED
    BY <1>3, <2>2, <2>3 DEF EventInOnePlace, Settled
<1>8. CASE channel # << >> /\ channel' = Tail(channel)
  <2>1. \A i \in Reports' : i + 1 \in Reports /\ channel'[i] = channel[i + 1] /\ i \in Nat
    BY <1>8, Dequeued DEF IInv, TypeOK
  <2>2. \A i \in Reports' : Settled(channel[i])'
    BY <1>2, <1>4, <2>1
  <2>3. ASSUME NEW i \in Reports', NEW j \in Reports',
               channel'[i].conn = channel'[j].conn
        PROVE  i = j
    <3>1. i + 1 = j + 1
      BY <1>5, <2>1, <2>3
    <3> QED
      BY <2>1, <3>1
  <2> QED
    BY <1>1, <1>3, <2>2, <2>3 DEF EventInOnePlace, Settled
<1>9. CASE channel' = << >>
  <2>1. Reports' = {}
    BY <1>9 DEF Reports
  <2> QED
    BY <1>1, <1>3, <2>1 DEF EventInOnePlace
<1> QED
  BY <1>1, <1>6, <1>7, <1>8, <1>9

\* The transaction is not disturbed by steps that do not write.
LEMMA TransactionFrame ==
    ASSUME TransactionAddsOneRow, UNCHANGED <<processor, handling, dbVars>>
    PROVE  TransactionAddsOneRow'
BY DEF TransactionAddsOneRow, dbVars

\* The invariant holds at the start.
LEMMA InitIInv == Init => IInv
<1> SUFFICES ASSUME Init PROVE IInv
  OBVIOUS
<1>1. Reports = {} /\ rows = {} /\ handling = None /\ tx = None /\ processor = "idle"
  BY DEF Init, Reports
<1> QED
  BY <1>1, InitTypeOK
     DEF IInv, EventInOnePlace, RecordedOnce, TransactionAddsOneRow

\* Every step keeps the invariant.  The steps that write nothing and report nothing go
\* by the two frame lemmas; the others are the report, the receipt of a Disconnected
\* event, the statements of the transaction and the restart.
LEMMA NextIInv == IInv /\ [Next]_vars => IInv'
<1> SUFFICES ASSUME IInv, [Next]_vars PROVE IInv'
  OBVIOUS
<1> DEFINE Rest == EventInOnePlace /\ RecordedOnce /\ TransactionAddsOneRow
<1>a. TypeOK
  BY DEF IInv
<1>b. handling # None => handling \in Event
  BY <1>a DEF TypeOK, ProcessorOK
<1>1. ASSUME Bind \/ BindFails \/ AcceptFails \/ ListenerCancelled \/ DropClientGuard
              \/ DropMainGuard \/ CancelClients \/ CancelAll \/ UNCHANGED vars
              \/ \E c \in Conns : Accept(c)
      PROVE  Rest'
  <2>1. UNCHANGED <<task, sent, channel, processor, handling, dbVars>>
    BY <1>1 DEF Bind, BindFails, Accept, AcceptFails, ListenerCancelled, DropClientGuard,
       DropMainGuard, CancelClients, CancelAll, vars, clientVars, processorVars
  <2> QED
    BY <2>1, ChannelFrame, TransactionFrame DEF IInv, dbVars
<1>2. ASSUME NEW c \in Conns, Admit(c) \/ Refuse(c) \/ ClientGone(c) \/ ClientCancelled(c)
                                \/ PeerGone(c)
      PROVE  Rest'
  <2>1. UNCHANGED <<sent, channel, processor, handling, dbVars>>
    BY <1>2 DEF Admit, Refuse, ClientGone, ClientCancelled, EndClient, PeerGone,
       processorVars
  <2>2. \A d \in Conns : task[d] = "finished" => task'[d] = "finished"
    BY <1>a, <1>2 DEF Admit, Refuse, ClientGone, ClientCancelled, EndClient, PeerGone,
       TypeOK, ClientsOK
  <2> QED
    BY <2>1, <2>2, ChannelFrame, TransactionFrame DEF IInv, dbVars
<1>3. ASSUME Announce
      PROVE  Rest'
  <2>1. UNCHANGED <<task, sent, processor, handling, dbVars>>
    BY <1>3 DEF Announce, clientVars, processorVars
  <2>2. Connected(incoming) \in Event /\ Connected(incoming).kind = "Connected"
    BY <1>3, <1>a DEF Announce, TypeOK, ListenerOK, Connected, Event
  <2>3. channel' = channel \/ channel' = Append(channel, Connected(incoming))
    BY <1>3 DEF Announce, Sent
  <2> QED
    BY <2>1, <2>2, <2>3, ChannelFrame, TransactionFrame DEF IInv, dbVars
<1>4. ASSUME NEW c \in Conns, SendLine(c)
      PROVE  Rest'
  <2>1. UNCHANGED <<task, processor, handling, dbVars>>
    BY <1>4 DEF SendLine, processorVars
  <2>2. \A d \in Conns : task[d] = "finished" => sent'[d] = sent[d]
    BY <1>4, <1>a DEF SendLine, TypeOK, ClientsOK
  <2>3. /\ BytesSent(c, sent[c] + 1) \in Event
        /\ BytesSent(c, sent[c] + 1).kind = "BytesSent"
    BY <1>a DEF TypeOK, ClientsOK, BytesSent, Event
  <2>4. channel' = channel \/ channel' = Append(channel, BytesSent(c, sent[c] + 1))
    BY <1>4 DEF SendLine
  <2> QED
    BY <2>1, <2>2, <2>3, <2>4, ChannelFrame, TransactionFrame DEF IInv, dbVars
<1>5. ASSUME NEW c \in Conns, ReportDisconnect(c)
      PROVE  Rest'
  <2> DEFINE e == Disconnected(c, sent[c])
  <2>1. UNCHANGED <<sent, processor, handling, dbVars>> /\ task[c] = "reporting"
    BY <1>5 DEF ReportDisconnect, processorVars
  <2>2. /\ task'[c] = "finished"
        /\ \A d \in Conns : task[d] = "finished" => task'[d] = "finished"
    BY <1>5, <1>a DEF ReportDisconnect, TypeOK, ClientsOK
  <2>3. e \in Event /\ e.conn = c /\ e.bytes = sent[c]
    BY <1>a DEF TypeOK, ClientsOK, Disconnected, Event
  <2>4. TransactionAddsOneRow'
    BY <2>1, TransactionFrame DEF IInv
  <2>5. CASE channel' = channel
    BY <2>1, <2>2, <2>4, <2>5, ChannelFrame DEF dbVars
  <2>6. CASE channel' = Append(channel, e)
    <3>1. \A i \in Reports : channel[i] \in Event /\ channel[i].conn # c
      BY <1>a, <2>1, ReportsAreEvents DEF IInv, EventInOnePlace, TypeOK
    <3>2. handling # None => handling.conn # c
      BY <2>1 DEF IInv, EventInOnePlace
    <3>3. \A r \in rows : r \in Row /\ r.conn # c
      BY <1>a, <2>1 DEF IInv, RecordedOnce, TypeOK, DatabaseOK
    <3>4. \A i \in Reports' :
             \/ i \in Reports /\ channel'[i] = channel[i]
             \/ i = Len(channel) + 1 /\ channel'[i] = e
      BY <1>a, <2>3, <2>6, Enqueued DEF TypeOK
    <3>5. ASSUME NEW i \in Reports'
          PROVE  /\ task'[channel'[i].conn] = "finished"
                 /\ channel'[i].bytes = sent'[channel'[i].conn]
                 /\ ~BeingRecorded(channel[i].conn)'
                 /\ ~Recorded(channel[i].conn)'
      <4>1. CASE i \in Reports /\ channel'[i] = channel[i]
        BY <2>1, <2>2, <3>1, <4>1 DEF IInv, EventInOnePlace, BeingRecorded, Recorded,
           dbVars, Event
      <4>2. CASE i = Len(channel) + 1 /\ channel'[i] = e
        BY <2>1, <2>2, <2>3, <3>2, <3>3, <4>2 DEF BeingRecorded, Recorded, dbVars
      <4> QED
        BY <3>4, <4>1, <4>2
    <3>6. \A i, j \in Reports' : channel'[i].conn = channel'[j].conn => i = j
      BY <2>3, <3>1, <3>4 DEF IInv, EventInOnePlace
    <3>7. (handling # None =>
             /\ task[handling.conn] = "finished"
             /\ handling.bytes = sent[handling.conn]
             /\ ~Recorded(handling.conn))'
      BY <1>b, <2>1, <2>2 DEF IInv, EventInOnePlace, Recorded, dbVars, Event
    <3>8. RecordedOnce'
      BY <2>1, <2>2, <3>3 DEF IInv, RecordedOnce, dbVars, Row
    <3> QED
      BY <2>4, <3>5, <3>6, <3>7, <3>8 DEF EventInOnePlace
  <2> QED
    BY <1>5, <2>5, <2>6 DEF ReportDisconnect, Sent
<1>6. ASSUME HandleConnected \/ HandleBytesSent
      PROVE  Rest'
  <2>1. UNCHANGED <<task, sent, processor, handling, dbVars>>
    BY <1>6 DEF HandleConnected, HandleBytesSent, clientVars
  <2>2. channel # << >> /\ channel' = Tail(channel)
    BY <1>6 DEF HandleConnected, HandleBytesSent, Receives
  <2> QED
    BY <2>1, <2>2, ChannelFrame, TransactionFrame DEF IInv, dbVars
<1>7. ASSUME HandleDisconnected
      PROVE  Rest'
  <2>1. /\ UNCHANGED <<task, sent, dbVars>>
        /\ processor = "idle" /\ processor' = "inserting"
        /\ channel # << >> /\ channel' = Tail(channel)
        /\ handling' = Head(channel) /\ Head(channel).kind = "Disconnected"
    BY <1>7 DEF HandleDisconnected, Receives, clientVars
  <2>2. /\ \A i \in Reports' : i + 1 \in Reports /\ channel'[i] = channel[i + 1]
                               /\ i \in Nat \ {0}
        /\ handling' = channel[1]
        /\ 1 \in Reports
    BY <1>a, <2>1, Dequeued DEF TypeOK
  <2>3. \A i \in Reports : channel[i] \in Event
    BY <1>a, ReportsAreEvents DEF TypeOK
  <2>4. handling = None /\ tx = None
    BY <1>a, <2>1 DEF TypeOK, WritingOK
  <2>5. \A i \in Reports' : channel'[i].conn # handling'.conn
    <3> SUFFICES ASSUME NEW i \in Reports', channel'[i].conn = handling'.conn PROVE FALSE
      OBVIOUS
    <3>1. i + 1 = 1
      BY <2>2 DEF IInv, EventInOnePlace
    <3> QED
      BY <2>2, <3>1
  <2>6. ASSUME NEW i \in Reports'
        PROVE  /\ task'[channel'[i].conn] = "finished"
               /\ channel'[i].bytes = sent'[channel'[i].conn]
               /\ ~BeingRecorded(channel[i].conn)'
               /\ ~Recorded(channel[i].conn)'
    <3>1. i + 1 \in Reports /\ channel'[i] = channel[i + 1]
      BY <2>2
    <3>2. /\ task[channel[i + 1].conn] = "finished"
          /\ channel[i + 1].bytes = sent[channel[i + 1].conn]
          /\ \A r \in rows : r.conn # channel[i + 1].conn
      BY <3>1 DEF IInv, EventInOnePlace, Recorded
    <3>3. handling'.conn # channel'[i].conn
      BY <2>5
    <3> QED
      BY <2>1, <3>1, <3>2, <3>3 DEF BeingRecorded, Recorded, dbVars
  <2>7. \A i, j \in Reports' : channel'[i].conn = channel'[j].conn => i = j
    <3> SUFFICES ASSUME NEW i \in Reports', NEW j \in Reports',
                        channel'[i].conn = channel'[j].conn
                 PROVE  i = j
      OBVIOUS
    <3>1. i + 1 = j + 1
      BY <2>2 DEF IInv, EventInOnePlace
    <3> QED
      BY <2>2, <3>1
  <2>8. /\ task'[handling'.conn] = "finished"
        /\ handling'.bytes = sent'[handling'.conn]
        /\ ~Recorded(handling.conn)'
    BY <2>1, <2>2 DEF IInv, EventInOnePlace, Recorded, dbVars
  <2>9. RecordedOnce'
    BY <2>1 DEF IInv, RecordedOnce, dbVars
  <2>10. TransactionAddsOneRow'
    BY <2>1, <2>4 DEF IInv, TransactionAddsOneRow, dbVars
  <2> QED
    BY <2>6, <2>7, <2>8, <2>9, <2>10 DEF EventInOnePlace
<1>8. ASSUME InsertRow
      PROVE  Rest'
  <2>1. UNCHANGED <<task, sent, channel, handling, rows, totals>>
    BY <1>8 DEF InsertRow, clientVars
  <2>2. EventInOnePlace' /\ RecordedOnce'
    BY <2>1, ChannelFrame
  <2>3. \A r \in rows : r.id \in Nat /\ r.id < nextId
    BY <1>a DEF IInv, TransactionAddsOneRow, TypeOK, DatabaseOK, Row
  <2>4. nextId' = nextId + 1 /\ nextId \in Nat
    BY <1>8, <1>a DEF InsertRow, TypeOK, DatabaseOK
  <2>5. /\ processor' = "updating"
        /\ tx' = [rows |-> rows \cup {[id |-> nextId, conn |-> handling.conn,
                                       bytes |-> handling.bytes]},
                  totals |-> totals]
    BY <1>8 DEF InsertRow
  <2>6. TransactionAddsOneRow'
    BY <2>1, <2>3, <2>4, <2>5 DEF TransactionAddsOneRow
  <2> QED
    BY <2>2, <2>6
<1>9. ASSUME UpdateTotals
      PROVE  Rest'
  <2>1. UNCHANGED <<task, sent, channel, handling, rows, totals, nextId>>
    BY <1>9 DEF UpdateTotals, clientVars
  <2>2. EventInOnePlace' /\ RecordedOnce'
    BY <2>1, ChannelFrame
  <2>3. tx # None
    BY <1>9, <1>a DEF UpdateTotals, TypeOK, WritingOK
  <2>4. TransactionAddsOneRow'
    BY <1>9, <2>1, <2>3 DEF UpdateTotals, IInv, TransactionAddsOneRow
  <2> QED
    BY <2>2, <2>4
<1>10. ASSUME Commit
      PROVE  Rest'
  <2>1. /\ UNCHANGED <<task, sent, channel, nextId>>
        /\ rows' = tx.rows /\ handling' = None /\ tx' = None /\ processor' = "idle"
    BY <1>10 DEF Commit, clientVars
  <2>2. handling \in Event /\ handling # None /\ tx # None
    BY <1>10, <1>a DEF Commit, TypeOK, WritingOK, ProcessorOK
  <2> DEFINE row == [id |-> nextId - 1, conn |-> handling.conn, bytes |-> handling.bytes]
  <2>3. rows' = rows \cup {row} /\ \A r \in rows : r \in Row /\ r.id < nextId - 1
    BY <1>a, <2>1, <2>2 DEF IInv, TransactionAddsOneRow, TypeOK, DatabaseOK
  <2>4. /\ task[row.conn] = "finished"
        /\ row.bytes = sent[row.conn]
        /\ \A r \in rows : r.conn # row.conn
    BY <2>2 DEF IInv, EventInOnePlace, Recorded
  <2>5. RecordedOnce'
    BY <2>1, <2>3, <2>4 DEF IInv, RecordedOnce
  <2>6. Reports' = Reports
    BY <2>1 DEF Reports
  <2>7. \A i \in Reports : channel[i].conn # row.conn
    BY <2>2 DEF IInv, EventInOnePlace, BeingRecorded
  <2>8. EventInOnePlace'
    BY <2>1, <2>3, <2>6, <2>7 DEF IInv, EventInOnePlace, BeingRecorded, Recorded
  <2>9. \A r \in rows' : r.id < nextId'
    BY <1>a, <2>1, <2>3 DEF TypeOK, DatabaseOK, Row
  <2>10. TransactionAddsOneRow'
    BY <2>1, <2>9 DEF TransactionAddsOneRow
  <2> QED
    BY <2>5, <2>8, <2>10
<1>11. ASSUME InsertFails
      PROVE  Rest'
  <2>1. /\ UNCHANGED <<task, sent, channel, rows, nextId>>
        /\ handling' = None /\ tx' = None /\ processor' = "idle"
    BY <1>11 DEF InsertFails, clientVars
  <2>2. Reports' = Reports
    BY <2>1 DEF Reports
  <2>3. EventInOnePlace' /\ RecordedOnce'
    BY <2>1, <2>2 DEF IInv, EventInOnePlace, RecordedOnce, BeingRecorded, Recorded
  <2>4. TransactionAddsOneRow'
    BY <2>1 DEF IInv, TransactionAddsOneRow
  <2> QED
    BY <2>3, <2>4
<1>12. ASSUME ProcessorCancelled \/ ProcessorChannelClosed
      PROVE  Rest'
  <2>1. /\ UNCHANGED <<task, sent, handling, dbVars>>
        /\ channel' = << >> \/ channel' = channel
        /\ processor' = "stopped" /\ processor = "idle"
    BY <1>12 DEF ProcessorCancelled, ProcessorChannelClosed, clientVars
  <2>2. EventInOnePlace' /\ RecordedOnce'
    BY <2>1, ChannelFrame DEF dbVars
  <2>3. TransactionAddsOneRow'
    BY <2>1 DEF IInv, TransactionAddsOneRow, dbVars
  <2> QED
    BY <2>2, <2>3
<1>13. ASSUME Crash
      PROVE  Rest'
  <2>1. /\ UNCHANGED <<sent, rows, nextId>>
        /\ channel' = << >> /\ handling' = None /\ tx' = None /\ processor' = "idle"
        /\ \A c \in Conns : task[c] = "finished" => task'[c] = "finished"
    BY <1>13 DEF Crash
  <2>2. Reports' = {}
    BY <2>1 DEF Reports
  <2>3. EventInOnePlace'
    BY <2>1, <2>2 DEF EventInOnePlace
  <2>4. RecordedOnce'
    BY <1>a, <2>1 DEF IInv, RecordedOnce, TypeOK, DatabaseOK, Row
  <2>5. TransactionAddsOneRow'
    BY <2>1 DEF IInv, TransactionAddsOneRow
  <2> QED
    BY <2>3, <2>4, <2>5
<1>14. Rest'
  BY <1>1, <1>2, <1>3, <1>4, <1>5, <1>6, <1>7, <1>8, <1>9, <1>10, <1>11, <1>12, <1>13
     DEF Next, Listen, Serve, Process, Environment
<1> QED
  BY <1>a, <1>14, NextTypeOK DEF IInv

\* The inductive invariant holds in every reachable state.
THEOREM InvariantHolds == Spec => []IInv
BY InitIInv, NextIInv, PTL DEF Spec

\* A connection has one row at most, with the final total of its client task, however
\* the tasks interleave and wherever a statement fails or the process dies.
THEOREM ConnectionsRecordedOnce == Spec => []RecordedOnce
<1>1. IInv => RecordedOnce
  BY DEF IInv
<1> QED
  BY <1>1, InvariantHolds, PTL

\* The Disconnected event of a connection is never duplicated on its way.
THEOREM EventNeverDuplicated == Spec => []EventInOnePlace
<1>1. IInv => EventInOnePlace
  BY DEF IInv
<1> QED
  BY <1>1, InvariantHolds, PTL

\* What the processor commits is the committed state and one row, with its totals.
THEOREM TransactionIsOneRow == Spec => []TransactionAddsOneRow
<1>1. IInv => TransactionAddsOneRow
  BY DEF IInv
<1> QED
  BY <1>1, InvariantHolds, PTL

\* Rows become visible in the order of their ids, so an id is a position in the stream.
THEOREM IdsArePositions == Spec => RowsAppearInIdOrder
<1> DEFINE Ordered == \A r \in rows' \ rows : \A s \in rows : s.id < r.id
<1>1. IInv /\ [Next]_vars => [Ordered]_vars
  <2> SUFFICES ASSUME IInv, Next PROVE Ordered
    OBVIOUS
  <2>1. CASE Commit
    <3>1. tx # None /\ rows' = tx.rows
      BY <2>1 DEF Commit, IInv, TypeOK, WritingOK
    <3> QED
      BY <3>1 DEF IInv, TransactionAddsOneRow
  <2>2. CASE ~Commit
    <3>1. rows' = rows
      BY <2>2 DEF Next, Listen, Serve, Process, Environment, Bind, BindFails, AcceptFails,
         Announce, ListenerCancelled, DropClientGuard, DropMainGuard, Accept, Admit, Refuse,
         SendLine, ClientGone, ClientCancelled, EndClient, ReportDisconnect,
         HandleConnected, HandleBytesSent, HandleDisconnected, InsertRow, UpdateTotals,
         InsertFails, ProcessorCancelled, ProcessorChannelClosed, CancelClients,
         CancelAll, Crash, PeerGone, processorVars, dbVars
    <3> QED
      BY <3>1
  <2> QED
    BY <2>1, <2>2
<1>2. Spec => [][Ordered]_vars
  BY <1>1, InvariantHolds, PTL DEF Spec
<1> QED
  BY <1>2 DEF RowsAppearInIdOrder
-----------------------------------------------------------------------------
(* The map of active connections, when no address is used twice *)

\* No address is used by two connections.
AddressesAreOwn == \A c, d \in Conns : AddrOf[c] = AddrOf[d] => c = d

\* Sending an event appends it and moves nothing.
LEMMA Appended ==
    ASSUME ChannelOK, NEW e \in Event, channel' = Append(channel, e)
    PROVE  /\ Len(channel') = Len(channel) + 1 /\ Len(channel) \in Nat
           /\ \A i \in 1..Len(channel) : i \in 1..Len(channel') /\ channel'[i] = channel[i]
           /\ Len(channel) + 1 \in 1..Len(channel') /\ channel'[Len(channel) + 1] = e
           /\ \A i \in 1..Len(channel') : i \in 1..Len(channel) \/ i = Len(channel) + 1
BY AppendProperties DEF ChannelOK

\* Receiving one moves the others one place to the front.
LEMMA Received ==
    ASSUME ChannelOK, channel # << >>, channel' = Tail(channel)
    PROVE  /\ \A i \in 1..Len(channel') :
                 i + 1 \in 1..Len(channel) /\ channel'[i] = channel[i + 1]
           /\ \A i \in 1..Len(channel) :
                 i = 1 \/ (i - 1 \in 1..Len(channel') /\ channel'[i - 1] = channel[i])
           /\ Head(channel) = channel[1] /\ 1 \in 1..Len(channel)
BY HeadTailProperties DEF ChannelOK

\* What stands in the channel are events.
LEMMA ChannelHoldsEvents == ChannelOK => \A i \in 1..Len(channel) : channel[i] \in Event
BY ElementOfSeq DEF ChannelOK

\* No event on its way carries more bytes than its connection has sent.
BytesAreSent == \A i \in 1..Len(channel) : channel[i].bytes <= sent[channel[i].conn]

\* The inductive invariant.
EntriesInv == TypeOK /\ BytesAreSent /\ EntryBytesAreItsOwn

\* A step that lets bytes only grow, and sends no event with too many, keeps this.
LEMMA BytesFrame ==
    ASSUME TypeOK, BytesAreSent, ClientsOK',
           \A c \in Conns : sent[c] <= sent'[c],
           \/ UNCHANGED channel
           \/ \E e \in Event : e.bytes <= sent'[e.conn] /\ channel' = Append(channel, e)
           \/ channel # << >> /\ channel' = Tail(channel)
           \/ channel' = << >>
    PROVE  BytesAreSent'
<1> ChannelOK /\ ClientsOK
  BY DEF TypeOK
<1>1. ASSUME NEW e \in Event, e.bytes <= sent[e.conn] PROVE e.bytes <= sent'[e.conn]
  <2>1. /\ e.conn \in Conns /\ e.bytes \in Nat /\ sent[e.conn] \in Nat
        /\ sent'[e.conn] \in Nat /\ sent[e.conn] <= sent'[e.conn]
    BY DEF Event, ClientsOK
  <2> QED
    BY <1>1, <2>1
<1>2. \A i \in 1..Len(channel) : channel[i] \in Event /\ channel[i].bytes <= sent'[channel[i].conn]
  BY <1>1, ChannelHoldsEvents DEF BytesAreSent
<1>3. CASE UNCHANGED channel
  BY <1>2, <1>3 DEF BytesAreSent
<1>4. ASSUME NEW e \in Event, e.bytes <= sent'[e.conn], channel' = Append(channel, e)
      PROVE  BytesAreSent'
  <2>1. \A i \in 1..Len(channel') : \/ i \in 1..Len(channel) /\ channel'[i] = channel[i]
                                    \/ channel'[i] = e
    BY <1>4, Appended
  <2> QED
    BY <1>2, <1>4, <2>1 DEF BytesAreSent
<1>5. CASE channel # << >> /\ channel' = Tail(channel)
  BY <1>2, <1>5, Received DEF BytesAreSent
<1>6. CASE channel' = << >>
  BY <1>6 DEF BytesAreSent
<1> QED
  BY <1>3, <1>4, <1>5, <1>6

\* An entry of the map keeps its bound while bytes only grow.
LEMMA EntriesFrame ==
    ASSUME TypeOK, EntryBytesAreItsOwn, ClientsOK', UNCHANGED active,
           \A c \in Conns : sent[c] <= sent'[c]
    PROVE  EntryBytesAreItsOwn'
<1> SUFFICES ASSUME NEW a \in Addrs, active[a] # None
             PROVE  AddrOf[active[a].conn] = a /\ active[a].bytes <= sent'[active[a].conn]
  BY DEF EntryBytesAreItsOwn
<1>1. active[a] \in Entry
  BY DEF TypeOK, ProcessorOK
<1>2. /\ active[a].conn \in Conns /\ active[a].bytes \in Nat
      /\ sent[active[a].conn] \in Nat /\ sent'[active[a].conn] \in Nat
      /\ sent[active[a].conn] <= sent'[active[a].conn]
  BY <1>1 DEF Entry, TypeOK, ClientsOK
<1> QED
  BY <1>2 DEF EntryBytesAreItsOwn

\* Every step keeps the bound: bytes only grow, and an update goes to the entry of its
\* own connection, since no other has the address.
LEMMA NextEntriesInv ==
    ASSUME AddressesAreOwn, EntriesInv, [Next]_vars PROVE EntriesInv'
<1> USE DEF EntriesInv
<1>types. TypeOK'
  BY NextTypeOK
<1>bytes. \A c \in Conns : sent[c] \in Nat /\ sent[c] <= sent[c]
  BY DEF TypeOK, ClientsOK
<1>parts. ClientsOK' /\ ChannelOK
  BY <1>types DEF TypeOK
<1>1. ASSUME UNCHANGED <<channel, sent, active>> PROVE EntriesInv'
  BY <1>1, <1>types, <1>bytes, <1>parts, BytesFrame, EntriesFrame
<1>2. CASE Announce
  <2>1. UNCHANGED <<sent, active>>
    BY <1>2 DEF Announce, clientVars, processorVars
  <2>2. /\ incoming \in Conns /\ Connected(incoming) \in Event
        /\ Connected(incoming).bytes <= sent[Connected(incoming).conn]
    BY <1>2, <1>bytes DEF Announce, TypeOK, ListenerOK, Connected, Event
  <2>3. channel' = channel \/ channel' = Append(channel, Connected(incoming))
    BY <1>2 DEF Announce, Sent
  <2> QED
    BY <1>types, <1>bytes, <1>parts, <2>1, <2>2, <2>3, BytesFrame, EntriesFrame
<1>3. ASSUME NEW c \in Conns, SendLine(c) PROVE EntriesInv'
  <2>1. UNCHANGED active /\ sent' = [sent EXCEPT ![c] = @ + 1]
    BY <1>3 DEF SendLine, processorVars
  <2>2. /\ \A d \in Conns : sent[d] <= sent'[d]
        /\ sent'[c] = sent[c] + 1 /\ sent[c] + 1 \in Nat
    BY <1>bytes, <2>1 DEF TypeOK, ClientsOK
  <2>3. /\ BytesSent(c, sent[c] + 1) \in Event
        /\ BytesSent(c, sent[c] + 1).bytes <= sent'[BytesSent(c, sent[c] + 1).conn]
    BY <2>2 DEF BytesSent, Event
  <2>4. channel' = channel \/ channel' = Append(channel, BytesSent(c, sent[c] + 1))
    BY <1>3 DEF SendLine
  <2> QED
    BY <1>types, <1>parts, <2>1, <2>2, <2>3, <2>4, BytesFrame, EntriesFrame
<1>4. ASSUME NEW c \in Conns, ReportDisconnect(c) PROVE EntriesInv'
  <2>1. UNCHANGED <<sent, active>>
    BY <1>4 DEF ReportDisconnect, processorVars
  <2>2. /\ Disconnected(c, sent[c]) \in Event
        /\ Disconnected(c, sent[c]).bytes <= sent[Disconnected(c, sent[c]).conn]
    BY <1>bytes DEF Disconnected, Event
  <2>3. channel' = channel \/ channel' = Append(channel, Disconnected(c, sent[c]))
    BY <1>4 DEF ReportDisconnect, Sent
  <2> QED
    BY <1>types, <1>bytes, <1>parts, <2>1, <2>2, <2>3, BytesFrame, EntriesFrame
<1>5. CASE HandleConnected \/ HandleBytesSent \/ HandleDisconnected
  <2> DEFINE e == Head(channel)
  <2>1. channel # << >> /\ channel' = Tail(channel) /\ UNCHANGED sent
    BY <1>5 DEF HandleConnected, HandleBytesSent, HandleDisconnected, Receives, clientVars
  <2>2. BytesAreSent'
    BY <1>bytes, <1>parts, <2>1, BytesFrame
  <2>3. e \in Event /\ e.conn \in Conns /\ e.bytes <= sent[e.conn]
    BY <1>parts, <2>1, Received, ChannelHoldsEvents DEF BytesAreSent, Event
  <2> HIDE DEF e
  <2>4. /\ active \in [Addrs -> Entry \cup {None}] /\ AddrOf[e.conn] \in Addrs
    BY <2>3, AddrOfIsTotal DEF TypeOK, ProcessorOK
  <2>5. ASSUME NEW a \in Addrs, active'[a] # None
        PROVE  AddrOf[active'[a].conn] = a /\ active'[a].bytes <= sent[active'[a].conn]
    <3>1. CASE a # AddrOf[e.conn]
      <4>1. active'[a] = active[a]
        BY <1>5, <2>4, <3>1 DEF HandleConnected, HandleBytesSent, HandleDisconnected, e
      <4> QED
        BY <2>5, <4>1 DEF EntryBytesAreItsOwn
    <3>2. CASE a = AddrOf[e.conn]
      <4>1. CASE HandleConnected
        <5>1. active'[a] = [conn |-> e.conn, bytes |-> 0]
          BY <2>4, <3>2, <4>1 DEF HandleConnected, e
        <5> QED
          BY <1>bytes, <2>3, <3>2, <5>1
      <4>2. CASE HandleBytesSent
        <5>1. active[a] # None
          BY <2>4, <2>5, <3>2, <4>2 DEF HandleBytesSent, e
        <5>2. active'[a] = [conn |-> active[a].conn, bytes |-> e.bytes]
          BY <2>4, <3>2, <4>2, <5>1 DEF HandleBytesSent, e
        <5>3. active[a].conn = e.conn
          <6>1. AddrOf[active[a].conn] = a /\ active[a].conn \in Conns
            BY <2>4, <5>1 DEF EntryBytesAreItsOwn, Entry
          <6> QED
            BY <2>3, <3>2, <6>1 DEF AddressesAreOwn
        <5> QED
          BY <2>3, <3>2, <5>2, <5>3
      <4>3. CASE HandleDisconnected
        BY <2>4, <2>5, <3>2, <4>3 DEF HandleDisconnected, e
      <4> QED
        BY <1>5, <4>1, <4>2, <4>3
    <3> QED
      BY <3>1, <3>2
  <2>6. EntryBytesAreItsOwn'
    BY <2>1, <2>5 DEF EntryBytesAreItsOwn
  <2> QED
    BY <1>types, <2>2, <2>6
<1>6. CASE ProcessorCancelled
  <2>1. UNCHANGED <<sent, active>> /\ channel' = << >>
    BY <1>6 DEF ProcessorCancelled, clientVars
  <2> QED
    BY <1>types, <1>bytes, <1>parts, <2>1, BytesFrame, EntriesFrame
<1>7. CASE Crash
  <2>1. channel' = << >> /\ \A a \in Addrs : active'[a] = None
    BY <1>7 DEF Crash
  <2> QED
    BY <1>types, <2>1 DEF BytesAreSent, EntryBytesAreItsOwn
<1>8. CASE \/ Bind \/ BindFails \/ AcceptFails \/ ListenerCancelled \/ DropClientGuard
           \/ DropMainGuard \/ InsertRow \/ UpdateTotals \/ Commit \/ InsertFails
           \/ ProcessorChannelClosed \/ CancelClients \/ CancelAll \/ UNCHANGED vars
  <2>1. UNCHANGED <<channel, sent, active>>
    BY <1>8 DEF Bind, BindFails, AcceptFails, ListenerCancelled, DropClientGuard,
       DropMainGuard, InsertRow, UpdateTotals, Commit, InsertFails, ProcessorChannelClosed,
       CancelClients, CancelAll, vars, clientVars, processorVars
  <2> QED
    BY <1>1, <2>1
<1>9. ASSUME NEW c \in Conns,
             Accept(c) \/ Admit(c) \/ Refuse(c) \/ ClientGone(c) \/ ClientCancelled(c)
                \/ PeerGone(c)
      PROVE  EntriesInv'
  <2>1. UNCHANGED <<channel, sent, active>>
    BY <1>9 DEF Accept, Admit, Refuse, ClientGone, ClientCancelled, EndClient, PeerGone,
       clientVars, processorVars
  <2> QED
    BY <1>1, <2>1
<1> QED
  BY <1>2, <1>3, <1>4, <1>5, <1>6, <1>7, <1>8, <1>9
     DEF Next, Listen, Serve, Process, Environment

\* With addresses of their own, an entry of the map shows no more bytes than its own
\* connection has sent, whatever is still queued.
THEOREM EntriesKeepTheirBytes ==
    ASSUME AddressesAreOwn PROVE Spec => []EntryBytesAreItsOwn
<1>1. Init => EntriesInv
  <2> SUFFICES ASSUME Init PROVE EntriesInv
    OBVIOUS
  <2>1. channel = << >> /\ \A a \in Addrs : active[a] = None
    BY DEF Init
  <2> QED
    BY <2>1, InitTypeOK DEF EntriesInv, BytesAreSent, EntryBytesAreItsOwn
<1>2. EntriesInv /\ [Next]_vars => EntriesInv'
  BY NextEntriesInv
<1>3. EntriesInv => EntryBytesAreItsOwn
  BY DEF EntriesInv
<1> QED
  BY <1>1, <1>2, <1>3, PTL DEF Spec

\* A trapped connection is in the map, or its Connected event is still to come: with
\* the listener that announces it, or in the channel.
Announced(c) == \E i \in 1..Len(channel) :
                    channel[i].kind = "Connected" /\ channel[i].conn = c
Listed(c) == active[AddrOf[c]] # None /\ active[AddrOf[c]].conn = c
Underway(c) == \/ incoming = c \/ Announced(c) \/ Listed(c)
               \/ clientsCancelled \/ processor = "stopped"
TrappedUnderway == \A c \in Running : Underway(c)

\* A step that takes nobody in, keeps the map, the listener's connection and the tokens,
\* and at most appends to the channel, keeps it.
LEMMA UnderwayFrame ==
    ASSUME TypeOK, TrappedUnderway,
           Running' \subseteq Running,
           UNCHANGED <<incoming, active, processor>>,
           clientsCancelled => clientsCancelled',
           \/ UNCHANGED channel
           \/ \E e \in Event : channel' = Append(channel, e)
    PROVE  TrappedUnderway'
<1>1. \A c \in Conns : Announced(c) => Announced(c)'
  BY Appended DEF Announced, TypeOK
<1>2. \A c \in Conns : Listed(c) => Listed(c)'
  BY DEF Listed
<1>3. Running \subseteq Conns
  BY DEF Running
<1> QED
  BY <1>1, <1>2, <1>3 DEF TrappedUnderway, Underway

\* Every step keeps it: an entry is only removed by the Disconnected event of its own
\* connection, which is sent when that connection is no longer trapped.
LEMMA NextUnderway ==
    ASSUME AddressesAreOwn, IInv, TrappedUnderway, [Next]_vars PROVE TrappedUnderway'
<1> TypeOK /\ EventInOnePlace /\ ListenerOK /\ ChannelOK /\ ClientsOK /\ ProcessorOK
  BY DEF IInv, TypeOK
<1>1. CASE Announce
  <2>1. incoming \in Conns /\ Connected(incoming) \in Event
    BY <1>1 DEF Announce, ListenerOK, Connected, Event
  <2>2. UNCHANGED <<task, active, processor, clientsCancelled>>
    BY <1>1 DEF Announce, clientVars, processorVars, tokenVars
  <2>3. CASE processor = "stopped"
    BY <2>2, <2>3 DEF TrappedUnderway, Underway
  <2>4. CASE processor # "stopped"
    <3>1. channel' = Append(channel, Connected(incoming))
      BY <1>1, <2>4 DEF Announce, Sent, ReceiverAlive
    <3>2. \A c \in Conns : Announced(c) => Announced(c)'
      BY <2>1, <3>1, Appended DEF Announced
    <3>3. \A c \in Conns : c = incoming => Announced(c)'
      <4>1. \E i \in 1..Len(channel') : channel'[i] = Connected(incoming)
        BY <2>1, <3>1, Appended
      <4> QED
        BY <4>1 DEF Announced, Connected
    <3>4. \A c \in Conns : Listed(c) => Listed(c)'
      BY <2>2 DEF Listed
    <3>5. ASSUME NEW c \in Running' PROVE Underway(c)'
      <4>1. c \in Running /\ c \in Conns
        BY <2>2 DEF Running
      <4> QED
        BY <2>2, <3>2, <3>3, <3>4, <4>1 DEF TrappedUnderway, Underway
    <3> QED
      BY <3>5 DEF TrappedUnderway
  <2> QED
    BY <2>3, <2>4
<1>2. ASSUME NEW c \in Conns, SendLine(c) PROVE TrappedUnderway'
  <2>1. /\ UNCHANGED <<incoming, active, processor, clientsCancelled>>
        /\ Running' \subseteq Running
    BY <1>2 DEF SendLine, listenerVars, processorVars, tokenVars, Running
  <2>2. BytesSent(c, sent[c] + 1) \in Event
    BY DEF ClientsOK, BytesSent, Event
  <2>3. channel' = channel \/ channel' = Append(channel, BytesSent(c, sent[c] + 1))
    BY <1>2 DEF SendLine
  <2> QED
    BY <2>1, <2>2, <2>3, UnderwayFrame
<1>3. ASSUME NEW c \in Conns, ReportDisconnect(c) PROVE TrappedUnderway'
  <2>1. /\ UNCHANGED <<incoming, active, processor, clientsCancelled>>
        /\ Running' \subseteq Running
    BY <1>3 DEF ReportDisconnect, listenerVars, processorVars, tokenVars, Running, ClientsOK
  <2>2. Disconnected(c, sent[c]) \in Event
    BY DEF ClientsOK, Disconnected, Event
  <2>3. channel' = channel \/ channel' = Append(channel, Disconnected(c, sent[c]))
    BY <1>3 DEF ReportDisconnect, Sent
  <2> QED
    BY <2>1, <2>2, <2>3, UnderwayFrame
<1>4. ASSUME NEW c \in Conns, ClientGone(c) \/ ClientCancelled(c) \/ PeerGone(c)
      PROVE  TrappedUnderway'
  <2>1. /\ UNCHANGED <<incoming, active, processor, clientsCancelled, channel>>
        /\ Running' \subseteq Running
    BY <1>4 DEF ClientGone, ClientCancelled, EndClient, PeerGone, listenerVars,
       processorVars, tokenVars, Running, ClientsOK
  <2> QED
    BY <2>1, UnderwayFrame
<1>5. ASSUME NEW c \in Conns, Accept(c) \/ Admit(c) \/ Refuse(c) PROVE TrappedUnderway'
  <2>1. UNCHANGED <<channel, active, processor, clientsCancelled>>
    BY <1>5 DEF Accept, Admit, Refuse, processorVars, tokenVars
  <2>2. \A d \in Running : incoming # d
    BY <1>5, NoneIsNoValue DEF Accept, Admit, Refuse, Listening, Running, ListenerOK
  <2>3. \A d \in Running' : d \in Running \/ d = incoming'
    BY <1>5 DEF Accept, Admit, Refuse, clientVars, listenerVars, Running, ClientsOK
  <2>4. \A d \in Conns : (Announced(d) => Announced(d)') /\ (Listed(d) => Listed(d)')
    BY <2>1 DEF Announced, Listed
  <2> QED
    BY <2>1, <2>2, <2>3, <2>4 DEF TrappedUnderway, Underway, Running
<1>6. CASE HandleConnected \/ HandleBytesSent \/ HandleDisconnected
  <2> DEFINE e == Head(channel)
  <2>1. /\ channel # << >> /\ channel' = Tail(channel)
        /\ UNCHANGED <<task, incoming, clientsCancelled>>
        /\ processor # "stopped"
    BY <1>6 DEF HandleConnected, HandleBytesSent, HandleDisconnected, Receives,
       listenerVars, clientVars, tokenVars
  <2>2. /\ e \in Event /\ e.conn \in Conns /\ e = channel[1] /\ 1 \in 1..Len(channel)
        /\ AddrOf[e.conn] \in Addrs
        /\ active \in [Addrs -> Entry \cup {None}]
    BY <2>1, Received, ChannelHoldsEvents, AddrOfIsTotal DEF Event, ProcessorOK
  <2>3. \A c \in Conns : \/ Announced(c) => Announced(c)'
                         \/ c = e.conn /\ e.kind = "Connected"
    BY <2>1, <2>2, Received DEF Announced
  <2> HIDE DEF e
  <2>4. ASSUME NEW c \in Running, Listed(c) PROVE Listed(c)'
    <3>0. c \in Conns /\ AddrOf[c] \in Addrs /\ task[c] = "running"
      BY AddrOfIsTotal DEF Running
    <3>1. CASE c # e.conn
      <4>1. AddrOf[c] # AddrOf[e.conn]
        BY <2>2, <3>0, <3>1 DEF AddressesAreOwn
      <4>2. active'[AddrOf[c]] = active[AddrOf[c]]
        BY <1>6, <2>2, <3>0, <4>1
           DEF HandleConnected, HandleBytesSent, HandleDisconnected, e
      <4> QED
        BY <2>4, <4>2 DEF Listed
    <3>2. CASE c = e.conn
      <4>1. CASE HandleConnected
        <5>1. active'[AddrOf[c]] = [conn |-> c, bytes |-> 0]
          BY <2>2, <3>2, <4>1 DEF HandleConnected, e
        <5>2. [conn |-> c, bytes |-> 0] \in Entry
          BY <3>0 DEF Entry
        <5> QED
          BY <5>1, <5>2, NoneIsNoValue DEF Listed
      <4>2. CASE HandleBytesSent
        <5>1. active'[AddrOf[c]] = [conn |-> c, bytes |-> e.bytes]
          BY <2>2, <2>4, <3>2, <4>2 DEF HandleBytesSent, Listed, e
        <5>2. [conn |-> c, bytes |-> e.bytes] \in Entry
          BY <2>2, <3>0 DEF Entry, Event
        <5> QED
          BY <5>1, <5>2, NoneIsNoValue DEF Listed
      <4>3. CASE HandleDisconnected
        <5>1. 1 \in Reports
          BY <2>2, <4>3 DEF HandleDisconnected, Receives, Reports, e
        <5>2. task[e.conn] = "finished"
          BY <2>2, <5>1 DEF EventInOnePlace
        <5> QED
          BY <3>0, <3>2, <5>2
      <4> QED
        BY <1>6, <4>1, <4>2, <4>3
    <3> QED
      BY <3>1, <3>2
  <2>5. ASSUME NEW c \in Conns, c = e.conn, e.kind = "Connected" PROVE Listed(c)'
    <3>1. HandleConnected
      BY <1>6, <2>5 DEF HandleBytesSent, HandleDisconnected, Receives, e
    <3>2. active'[AddrOf[c]] = [conn |-> c, bytes |-> 0]
      BY <2>2, <2>5, <3>1 DEF HandleConnected, e
    <3>3. [conn |-> c, bytes |-> 0] \in Entry
      BY DEF Entry
    <3> QED
      BY <3>2, <3>3, NoneIsNoValue DEF Listed
  <2>6. ASSUME NEW c \in Running' PROVE Underway(c)'
    <3>1. c \in Running /\ c \in Conns
      BY <2>1 DEF Running
    <3>2. /\ incoming = c => incoming' = c
          /\ clientsCancelled => clientsCancelled'
          /\ processor = "stopped" => processor' = "stopped"
      BY <2>1
    <3>3. Underway(c)
      BY <3>1 DEF TrappedUnderway
    <3> QED
      BY <2>3, <2>4, <2>5, <3>1, <3>2, <3>3 DEF Underway
  <2> QED
    BY <2>6 DEF TrappedUnderway
<1>7. CASE ListenerCancelled \/ DropClientGuard \/ DropMainGuard \/ CancelClients \/ CancelAll
  <2>1. clientsCancelled'
    BY <1>7 DEF ListenerCancelled, DropClientGuard, DropMainGuard, CancelClients,
       CancelAll, tokenVars
  <2> QED
    BY <2>1 DEF TrappedUnderway, Underway
<1>8. CASE ProcessorCancelled \/ ProcessorChannelClosed
  <2>1. processor' = "stopped"
    BY <1>8 DEF ProcessorCancelled, ProcessorChannelClosed
  <2> QED
    BY <2>1 DEF TrappedUnderway, Underway
<1>9. CASE Crash
  <2>1. Running' = {}
    BY <1>9 DEF Crash, Running
  <2> QED
    BY <2>1 DEF TrappedUnderway
<1>10. CASE InsertRow \/ UpdateTotals \/ Commit \/ InsertFails
  <2>1. /\ UNCHANGED <<task, incoming, active, channel, clientsCancelled>>
        /\ processor # "stopped"
    BY <1>10 DEF InsertRow, UpdateTotals, Commit, InsertFails, clientVars, listenerVars,
       tokenVars
  <2>2. \A c \in Conns : (Announced(c) => Announced(c)') /\ (Listed(c) => Listed(c)')
    BY <2>1 DEF Announced, Listed
  <2> QED
    BY <2>1, <2>2 DEF TrappedUnderway, Underway, Running
<1>11. CASE Bind \/ BindFails \/ AcceptFails \/ UNCHANGED vars
  <2>1. /\ UNCHANGED <<incoming, active, processor, clientsCancelled, channel>>
        /\ Running' \subseteq Running
    BY <1>11 DEF Bind, BindFails, AcceptFails, vars, listenerVars, clientVars,
       processorVars, tokenVars, Running
  <2> QED
    BY <2>1, UnderwayFrame
<1> QED
  BY <1>1, <1>2, <1>3, <1>4, <1>5, <1>6, <1>7, <1>8, <1>9, <1>10, <1>11
     DEF Next, Listen, Serve, Process, Environment

\* With addresses of their own, every trapped client is in the map once the events it
\* caused have been processed, whichever updates were dropped and restarts in between.
THEOREM TheTrappedAreListed ==
    ASSUME AddressesAreOwn PROVE Spec => []TrappedAreListed
<1>1. Init => TrappedUnderway
  BY DEF Init, TrappedUnderway, Running
<1>2. IInv /\ TrappedUnderway /\ [Next]_vars => TrappedUnderway'
  BY NextUnderway
<1>3. IInv /\ TrappedUnderway => TrappedAreListed
  <2> SUFFICES ASSUME IInv, TrappedUnderway, Quiet, NEW c \in Running \ gone
               PROVE  active[AddrOf[c]] # None /\ active[AddrOf[c]].conn = c
    BY DEF TrappedAreListed
  <2>1. Underway(c) /\ c \in Conns
    BY DEF TrappedUnderway, Running
  <2>2. incoming # c
    BY <2>1 DEF Quiet, Senders
  <2>3. ~Announced(c)
    <3>1. Len(channel) = 0
      BY DEF Quiet
    <3> QED
      BY <3>1 DEF Announced
  <2> QED
    BY <2>1, <2>2, <2>3 DEF Quiet, Underway, Listed
<1> QED
  BY <1>1, <1>2, <1>3, InvariantHolds, PTL DEF Spec

-----------------------------------------------------------------------------
(* What is kept until it is written *)

\* The event processor stops on the main token, or cancels it as it stops.
StoppedIsCancelled == processor = "stopped" => mainCancelled

\* The connection is still on its way to its row after the step, if it was before.
Kept(c) ==
    /\ Unsettled(c) => Unsettled(c)' \/ Recorded(c)'
    /\ c \in Running => c \in Running' \/ Unsettled(c)'

\* A step that leaves the places of the event, and the client tasks, keeps everything.
LEMMA KeptInPlace == ASSUME UNCHANGED <<task, channel, handling>>, NEW c \in Conns
                     PROVE  Kept(c)
BY DEF Kept, Unsettled, Queued, Reports, BeingRecorded, Running

\* So does one that queues another event and leaves the trapped and the reporting.
LEMMA KeptBehind ==
    ASSUME ChannelOK, NEW e \in Event, channel' \in {channel, Append(channel, e)},
           UNCHANGED handling, NEW c \in Conns,
           task[c] \in {"running", "reporting"} => task'[c] = task[c]
    PROVE  Kept(c)
<1>1. ASSUME Queued(c) PROVE Queued(c)'
  <2>1. PICK i \in Reports : channel[i].conn = c
    BY <1>1 DEF Queued
  <2>2. i \in Reports' /\ channel'[i] = channel[i]
    <3>1. CASE channel' = channel
      BY <2>1, <3>1 DEF Reports
    <3>2. CASE channel' = Append(channel, e)
      BY <3>2, <2>1, Enqueued
    <3> QED
      BY <3>1, <3>2
  <2> QED
    BY <2>1, <2>2 DEF Queued
<1> QED
  BY <1>1 DEF Kept, Unsettled, BeingRecorded, Running

\* What is received is the processor's; every other report moves up by one position.
LEMMA KeptByReceiver ==
    ASSUME ChannelOK, NEW k, Receives(k), UNCHANGED task, handling = None,
           IF k = "Disconnected" THEN handling' = Head(channel) ELSE handling' = handling,
           None \notin Event, NEW c \in Conns
    PROVE  Kept(c)
<1>1. channel # << >> /\ channel' = Tail(channel) /\ Head(channel).kind = k
  BY DEF Receives
<1>2. Head(channel) \in Event
  BY ReceivedType
<1>3. ASSUME Queued(c) PROVE Queued(c)' \/ BeingRecorded(c)'
  <2>1. PICK i \in Reports : channel[i].conn = c
    BY <1>3 DEF Queued
  <2>2. CASE i = 1
    <3>1. Head(channel) = channel[1] /\ channel[1].kind = "Disconnected"
      BY <1>1, <2>1, <2>2, HeadTailProperties DEF Reports, ChannelOK
    <3>2. handling' = channel[1] /\ handling' # None
      BY <1>1, <1>2, <3>1
    <3> QED
      BY <2>1, <2>2, <3>2 DEF BeingRecorded
  <2>3. CASE i # 1
    <3>1. i - 1 \in Reports' /\ channel'[i - 1] = channel[i]
      BY <1>1, <2>1, <2>3, Dequeued
    <3> QED
      BY <2>1, <3>1 DEF Queued
  <2> QED
    BY <2>2, <2>3
<1>4. ~BeingRecorded(c)
  BY DEF BeingRecorded
<1> QED
  BY <1>3, <1>4 DEF Kept, Unsettled, Running

\* One step: the process runs on, and no statement fails.
LEMMA StepKeeps ==
    ASSUME IInv, StoppedIsCancelled, [Next]_vars, ~DbMayFail,
           ~mainCancelled', crashes' = crashes, NEW c \in Conns
    PROVE  Kept(c)
<1> USE NoneIsNoValue
<1>a. TypeOK /\ ChannelOK /\ ClientsOK
  BY DEF IInv, TypeOK
<1>1. CASE Listen
  <2>1. CASE Bind \/ BindFails \/ AcceptFails \/ ListenerCancelled \/ DropClientGuard
             \/ DropMainGuard \/ \E d \in Conns : Accept(d)
    <3>1. UNCHANGED <<task, channel, handling>>
      BY <2>1 DEF Bind, BindFails, AcceptFails, ListenerCancelled, DropClientGuard,
         DropMainGuard, Accept, clientVars, processorVars
    <3> QED
      BY <3>1, KeptInPlace
  <2>2. CASE Announce
    <3>1. Connected(incoming) \in Event
      BY <1>a, <2>2 DEF Announce, TypeOK, ListenerOK, Connected, Event
    <3>2. channel' \in {channel, Append(channel, Connected(incoming))}
      BY <2>2 DEF Announce, Sent
    <3>3. UNCHANGED <<task, handling>>
      BY <2>2 DEF Announce, clientVars, processorVars
    <3> QED
      BY <1>a, <3>1, <3>2, <3>3, KeptBehind
  <2>3. ASSUME NEW d \in Conns, Admit(d) \/ Refuse(d) PROVE Kept(c)
    <3>1. UNCHANGED <<channel, handling>>
      BY <2>3 DEF Admit, Refuse, processorVars
    <3>2. task[d] = "new" /\ \E t \in TaskStates : task' = [task EXCEPT ![d] = t]
      BY <2>3 DEF Admit, Refuse, TaskStates
    <3>3. task[c] \in {"running", "reporting"} => task'[c] = task[c]
      BY <1>a, <3>2 DEF ClientsOK
    <3>4. Connected(c) \in Event
      BY DEF Connected, Event
    <3> QED
      BY <1>a, <3>1, <3>3, <3>4, KeptBehind
  <2> QED
    BY <1>1, <2>1, <2>2, <2>3 DEF Listen
<1>2. CASE Serve
  <2> PICK d \in Conns : SendLine(d) \/ ClientGone(d) \/ ClientCancelled(d) \/ ReportDisconnect(d)
    BY <1>2 DEF Serve
  <2>1. CASE SendLine(d)
    <3>1. BytesSent(d, sent[d] + 1) \in Event
      BY <1>a DEF BytesSent, Event, ClientsOK
    <3>2. channel' \in {channel, Append(channel, BytesSent(d, sent[d] + 1))}
      BY <2>1 DEF SendLine
    <3>3. UNCHANGED <<task, handling>>
      BY <2>1 DEF SendLine, processorVars
    <3> QED
      BY <1>a, <3>1, <3>2, <3>3, KeptBehind
  <2>2. CASE ClientGone(d) \/ ClientCancelled(d)
    <3>1. task[d] = "running" /\ task' = [task EXCEPT ![d] = "reporting"]
      BY <2>2 DEF ClientGone, ClientCancelled, EndClient
    <3>2. UNCHANGED <<channel, handling>>
      BY <2>2 DEF ClientGone, ClientCancelled, EndClient, processorVars
    <3>3. CASE c = d
      BY <1>a, <3>1, <3>3 DEF Kept, Unsettled, ClientsOK
    <3>4. CASE c # d
      <4>1. task'[c] = task[c]
        BY <1>a, <3>1, <3>4 DEF ClientsOK
      <4>2. Connected(c) \in Event
        BY DEF Connected, Event
      <4> QED
        BY <1>a, <3>2, <4>1, <4>2, KeptBehind
    <3> QED
      BY <3>3, <3>4
  <2>3. CASE ReportDisconnect(d)
    <3> DEFINE e == Disconnected(d, sent[d])
    <3>1. ReceiverAlive
      BY <2>3 DEF ReportDisconnect, ReceiverAlive, StoppedIsCancelled, tokenVars
    <3>2. /\ task[d] = "reporting" /\ task' = [task EXCEPT ![d] = "finished"]
          /\ channel' = Append(channel, e)
          /\ UNCHANGED handling
      BY <2>3, <3>1 DEF ReportDisconnect, Sent, processorVars
    <3>3. e \in Event /\ e.kind = "Disconnected" /\ e.conn = d
      BY <1>a DEF Disconnected, Event, ClientsOK
    <3> HIDE DEF e
    <3>4. CASE c = d
      <4>1. Len(channel') = Len(channel) + 1 /\ channel'[Len(channel) + 1] = e
        BY <1>a, <3>2, <3>3, AppendProperties DEF ChannelOK
      <4>2. Len(channel) \in Nat
        BY <1>a DEF ChannelOK
      <4>3. Len(channel) + 1 \in Reports'
        BY <3>3, <4>1, <4>2 DEF Reports
      <4>4. Queued(c)'
        BY <3>3, <3>4, <4>1, <4>3 DEF Queued
      <4> QED
        BY <3>2, <3>4, <4>4 DEF Kept, Unsettled, Running
    <3>5. CASE c # d
      <4>1. task'[c] = task[c]
        BY <1>a, <3>2, <3>5 DEF ClientsOK
      <4> QED
        BY <1>a, <3>2, <3>3, <4>1, KeptBehind
    <3> QED
      BY <3>4, <3>5
  <2> QED
    BY <2>1, <2>2, <2>3
<1>3. CASE Process
  <2>1. CASE HandleConnected \/ HandleBytesSent
    <3>1. PICK k \in {"Connected", "BytesSent"} : Receives(k)
      BY <2>1 DEF HandleConnected, HandleBytesSent
    <3>2. UNCHANGED <<task, handling>> /\ processor = "idle"
      BY <2>1 DEF HandleConnected, HandleBytesSent, Receives, clientVars
    <3>3. handling = None
      BY <1>a, <3>2 DEF TypeOK, WritingOK
    <3> QED
      BY <1>a, <3>1, <3>2, <3>3, KeptByReceiver
  <2>2. CASE HandleDisconnected
    <3>1. Receives("Disconnected") /\ processor = "idle" /\ UNCHANGED task
      BY <2>2 DEF HandleDisconnected, Receives, clientVars
    <3>2. handling' = Head(channel)
      BY <2>2 DEF HandleDisconnected
    <3>3. handling = None
      BY <1>a, <3>1 DEF TypeOK, WritingOK
    <3> QED
      BY <1>a, <3>1, <3>2, <3>3, KeptByReceiver
  <2>3. CASE InsertRow \/ UpdateTotals
    <3>1. UNCHANGED <<task, channel, handling>>
      BY <2>3 DEF InsertRow, UpdateTotals, clientVars
    <3> QED
      BY <3>1, KeptInPlace
  <2>4. CASE Commit
    <3>1. UNCHANGED <<task, channel>> /\ rows' = tx.rows /\ processor = "committing"
      BY <2>4 DEF Commit, clientVars
    <3> DEFINE row == [id |-> nextId - 1, conn |-> handling.conn, bytes |-> handling.bytes]
    <3>2. row \in rows' /\ row.conn = handling.conn
      BY <1>a, <3>1 DEF IInv, TransactionAddsOneRow, TypeOK, WritingOK
    <3>3. BeingRecorded(c) => Recorded(c)'
      BY <3>2 DEF BeingRecorded, Recorded
    <3>4. Queued(c) => Queued(c)'
      BY <3>1 DEF Queued, Reports
    <3> QED
      BY <3>1, <3>3, <3>4 DEF Kept, Unsettled, Running
  <2>5. ~InsertFails
    BY DEF InsertFails
  <2>6. ~ProcessorCancelled /\ ~ProcessorChannelClosed
    BY DEF ProcessorCancelled, ProcessorChannelClosed, tokenVars
  <2> QED
    BY <1>3, <2>1, <2>2, <2>3, <2>4, <2>5, <2>6 DEF Process
<1>4. CASE Environment
  <2>1. ~Crash /\ ~CancelAll
    BY <1>a DEF Crash, CancelAll, TypeOK, TokensOK
  <2>2. UNCHANGED <<task, channel, handling>>
    BY <1>4, <2>1 DEF Environment, CancelClients, PeerGone, clientVars, processorVars
  <2> QED
    BY <2>2, KeptInPlace
<1>5. CASE UNCHANGED vars
  <2>1. UNCHANGED <<task, channel, handling>>
    BY <1>5 DEF vars, clientVars, processorVars
  <2> QED
    BY <2>1, KeptInPlace
<1> QED
  BY <1>1, <1>2, <1>3, <1>4, <1>5 DEF Next

\* The processor stops, and a restart starts it again with a new token.
LEMMA NextStoppedIsCancelled ==
    ASSUME TypeOK, StoppedIsCancelled, [Next]_vars
    PROVE  StoppedIsCancelled'
<1>1. CASE Listen \/ UNCHANGED vars
  BY <1>1 DEF Listen, Bind, BindFails, AcceptFails, Announce, ListenerCancelled,
     DropClientGuard, DropMainGuard, Accept, Admit, Refuse, vars, processorVars, tokenVars,
     StoppedIsCancelled
<1>2. CASE Serve
  BY <1>2 DEF Serve, SendLine, ClientGone, ClientCancelled, EndClient, ReportDisconnect,
     processorVars, tokenVars, StoppedIsCancelled
<1>3. CASE Process
  <2>1. CASE ProcessorCancelled \/ ProcessorChannelClosed
    BY <2>1 DEF ProcessorCancelled, ProcessorChannelClosed, tokenVars, StoppedIsCancelled
  <2>2. CASE \/ HandleConnected \/ HandleBytesSent \/ HandleDisconnected
             \/ InsertRow \/ UpdateTotals \/ Commit \/ InsertFails
    <3>1. processor' # "stopped"
      BY <2>2 DEF HandleConnected, HandleBytesSent, HandleDisconnected, InsertRow,
         UpdateTotals, Commit, InsertFails, Receives
    <3> QED
      BY <3>1 DEF StoppedIsCancelled
  <2> QED
    BY <1>3, <2>1, <2>2 DEF Process
<1>4. CASE Environment
  BY <1>4 DEF Environment, CancelClients, CancelAll, Crash, PeerGone, processorVars,
     tokenVars, StoppedIsCancelled
<1> QED
  BY <1>1, <1>2, <1>3, <1>4 DEF Next

\* While no statement fails, and until the process dies or is shut down, a Disconnected
\* event is somewhere until its row is written, and a client that is no longer served has
\* such an event: BytesSent updates may be dropped for want of room, this one never is
\* (client.rs:237-254, events.rs:135).
THEOREM NothingIsLost ==
    ASSUME ~DbMayFail
    PROVE  Spec => NothingLostInOperation
<1> DEFINE Keeps == ~mainCancelled' /\ crashes' = crashes =>
              \A c \in Conns :
                  /\ Unsettled(c) => Unsettled(c)' \/ Recorded(c)'
                  /\ c \in Running => c \in Running' \/ Unsettled(c)'
<1>1. Init => StoppedIsCancelled
  BY DEF Init, StoppedIsCancelled
<1>2. IInv /\ StoppedIsCancelled /\ [Next]_vars => StoppedIsCancelled'
  BY NextStoppedIsCancelled DEF IInv
<1>3. IInv /\ StoppedIsCancelled /\ [Next]_vars => [Keeps]_vars
  BY StepKeeps DEF Kept
<1> QED
  BY <1>1, <1>2, <1>3, InvariantHolds, PTL DEF Spec, NothingLostInOperation

-----------------------------------------------------------------------------
(* The totals *)

\* What is inductive: that there are finitely many rows to count is part of it.
RowsCounted == IsFiniteSet(rows) /\ TotalsMatchRows

BytesOf(someRows) == [r \in someRows |-> r.bytes]

\* The totals never count a connection that has no row, nor miss one that has, and their
\* bytes are those of the rows: whatever statement fails and wherever the process dies,
\* the two are committed together.
THEOREM TotalsCountTheRows == Spec => []TotalsMatchRows
<1>1. Init => RowsCounted
  <2> SUFFICES ASSUME Init PROVE RowsCounted
    OBVIOUS
  <2>1. SumFunction([r \in {} |-> r.bytes]) = 0
    BY SumOfNothing DEF SumFunction
  <2> QED
    BY <2>1, FS_EmptySet DEF Init, RowsCounted, TotalsMatchRows
<1>2. IInv /\ RowsCounted /\ [Next]_vars => RowsCounted'
  <2> SUFFICES ASSUME IInv, RowsCounted, [Next]_vars PROVE RowsCounted'
    OBVIOUS
  <2>1. CASE Commit
    <3> DEFINE row == [id |-> nextId - 1, conn |-> handling.conn, bytes |-> handling.bytes]
    <3>1. processor = "committing" /\ rows' = tx.rows /\ totals' = tx.totals
      BY <2>1 DEF Commit
    <3>2. tx.rows = rows \cup {row} /\ \A r \in rows : r.id < nextId - 1
      BY <3>1 DEF IInv, TypeOK, WritingOK, TransactionAddsOneRow
    <3>3. /\ totals'.connections = totals.connections + 1
          /\ totals'.bytes = totals.bytes + handling.bytes
      BY <3>1 DEF IInv, TransactionAddsOneRow
    <3>4. row \notin rows
      BY <3>2 DEF IInv, TypeOK, DatabaseOK
    <3>5. row.bytes = handling.bytes /\ row.bytes \in Nat
      BY <3>1 DEF IInv, TypeOK, WritingOK, ProcessorOK, Event
    <3>6. \A r \in rows : r.bytes \in Nat
      BY DEF IInv, TypeOK, DatabaseOK, Row
    <3>7. IsFiniteSet(rows) /\ rows' = rows \cup {row}
      BY <3>1, <3>2 DEF RowsCounted
    <3> HIDE DEF row, IInv
    <3>8. /\ IsFiniteSet(rows')
          /\ Cardinality(rows') = Cardinality(rows) + 1
      BY <3>4, <3>7, FS_AddElement
    <3>9. SumFunction(BytesOf(rows')) = SumFunction(BytesOf(rows)) + row.bytes
      <4>1. BytesOf(rows) \in [rows -> Nat] /\ BytesOf(rows') \in [rows \cup {row} -> Nat]
        BY <3>5, <3>6, <3>7 DEF BytesOf
      <4>2. BytesOf(rows')[row] = row.bytes
        BY <3>7 DEF BytesOf
      <4>3. \A r \in rows : BytesOf(rows')[r] = BytesOf(rows)[r]
        BY <3>7 DEF BytesOf
      <4> HIDE DEF BytesOf
      <4> QED
        BY <3>4, <3>7, <4>1, <4>2, <4>3, SumOfLarger
    <3> QED
      BY <3>3, <3>5, <3>8, <3>9 DEF RowsCounted, TotalsMatchRows, BytesOf
  <2>2. CASE \/ Listen \/ Serve \/ Environment \/ HandleConnected \/ HandleBytesSent
             \/ HandleDisconnected \/ InsertRow \/ UpdateTotals \/ InsertFails
             \/ ProcessorCancelled \/ ProcessorChannelClosed \/ UNCHANGED vars
    <3>1. UNCHANGED <<rows, totals>>
      <4>1. CASE Listen \/ UNCHANGED vars
        BY <4>1 DEF Listen, Bind, BindFails, AcceptFails, Announce, ListenerCancelled,
           DropClientGuard, DropMainGuard, Accept, Admit, Refuse, vars, processorVars, dbVars
      <4>2. CASE Serve
        BY <4>2 DEF Serve, SendLine, ClientGone, ClientCancelled, EndClient,
           ReportDisconnect, processorVars, dbVars
      <4>3. CASE Environment
        BY <4>3 DEF Environment, CancelClients, CancelAll, Crash, PeerGone,
           processorVars, dbVars
      <4>4. CASE \/ HandleConnected \/ HandleBytesSent \/ HandleDisconnected \/ InsertRow
                 \/ UpdateTotals \/ InsertFails \/ ProcessorCancelled
                 \/ ProcessorChannelClosed
        BY <4>4 DEF HandleConnected, HandleBytesSent, HandleDisconnected, InsertRow,
           UpdateTotals, InsertFails, ProcessorCancelled, ProcessorChannelClosed, dbVars
      <4> QED
        BY <2>2, <4>1, <4>2, <4>3, <4>4
    <3> QED
      BY <3>1 DEF RowsCounted, TotalsMatchRows
  <2> QED
    BY <2>1, <2>2 DEF Next, Process
<1>3. RowsCounted => TotalsMatchRows
  BY DEF RowsCounted
<1> QED
  BY <1>1, <1>2, <1>3, InvariantHolds, PTL DEF Spec
=============================================================================
