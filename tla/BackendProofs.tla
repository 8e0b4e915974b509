--------------------------- MODULE BackendProofs ---------------------------
(***************************************************************************)
(* The refinements, and what they carry over.  Tarpit implements           *)
(* ConnectionLedger; the process adds to Tarpit nothing but what Tarpit    *)
(* allows its environment, so the theorems about Tarpit hold of it, and it *)
(* implements the ledger as well; and it reports a failure only when there *)
(* was one.                                                                *)
(***************************************************************************)
EXTENDS Backend, TarpitProofs

-----------------------------------------------------------------------------
(* The tarpit implements the ledger: the initial states map to initial     *)
(* states, and every step maps to a step of the ledger or to a stutter.    *)

\* What the refinement needs to know of a state of the tarpit.
RInv == IInv /\ PermitsAccounted

\* The ledger counts with the same operator.
LEMMA SameCardinality == \A S : Ledger!Cardinality(S) = Cardinality(S)
BY Zenon DEF Ledger!Cardinality, Cardinality, Ledger!IsFiniteSet, IsFiniteSet

\* Where a connection stands in the ledger follows from its task alone, except that a
\* finished task leaves an event that is recorded, unsettled or lost.
LEMMA PhaseByTask ==
    ASSUME RInv, NEW c \in Conns
    PROVE  /\ task[c] = "new" => LedgerPhase(c) = "outside"
           /\ task[c] = "refused" => LedgerPhase(c) = "refused"
           /\ task[c] = "running" <=> LedgerPhase(c) = "trapped"
           /\ task[c] = "reporting" => LedgerPhase(c) = "ended"
           /\ task[c] \in {"finished", "killed"} =>
                 LedgerPhase(c) = IF Recorded(c) THEN "recorded"
                                  ELSE IF Unsettled(c) THEN "ended" ELSE "lost"
           /\ Unsettled(c) => LedgerPhase(c) = "ended"
<1>1. task[c] \in TaskStates
  BY DEF RInv, IInv, TypeOK, ClientsOK
<1>2. Recorded(c) => task[c] = "finished"
  BY DEF RInv, IInv, RecordedOnce, Recorded
<1>3. task[c] = "reporting" => Unsettled(c)
  BY DEF Unsettled
<1>4. Unsettled(c) => task[c] \in {"reporting", "finished"} /\ ~Recorded(c)
  BY <1>2 DEF RInv, IInv, EventInOnePlace, Unsettled, Queued, BeingRecorded
<1> QED
  BY <1>1, <1>2, <1>3, <1>4 DEF LedgerPhase, TaskStates

\* A step that changes none of the three facts a phase is made of keeps the phase.
LEMMA PhaseKept ==
    ASSUME NEW c \in Conns,
           task'[c] = task[c], Recorded(c)' = Recorded(c), Unsettled(c)' = Unsettled(c)
    PROVE  LedgerPhase(c)' = LedgerPhase(c)
BY DEF LedgerPhase

\* An event that is not a Disconnected may come and go without anyone's event with it.
LEMMA QueuedKept ==
    ASSUME ChannelOK,
           \/ UNCHANGED channel
           \/ \E e \in Event : e.kind # "Disconnected" /\ channel' = Append(channel, e)
           \/ channel # << >> /\ Head(channel).kind # "Disconnected"
                /\ channel' = Tail(channel)
    PROVE  \A c \in Conns : Queued(c)' <=> Queued(c)
<1>1. CASE UNCHANGED channel
  BY <1>1 DEF Queued, Reports
<1>2. ASSUME NEW e \in Event, e.kind # "Disconnected", channel' = Append(channel, e)
      PROVE  \A c \in Conns : Queued(c)' <=> Queued(c)
  <2>1. \A i \in Reports : i \in Reports' /\ channel'[i] = channel[i]
    BY <1>2, Enqueued
  <2>2. \A i \in Reports' : i \in Reports
    BY <1>2, Enqueued
  <2> QED
    BY <2>1, <2>2 DEF Queued
<1>3. ASSUME channel # << >>, Head(channel).kind # "Disconnected", channel' = Tail(channel)
      PROVE  \A c \in Conns : Queued(c)' <=> Queued(c)
  <2>1. \A i \in Reports' : i + 1 \in Reports /\ channel'[i] = channel[i + 1]
    BY <1>3, Dequeued
  <2>2. 1 \notin Reports
    BY <1>3, Dequeued DEF Reports
  <2>3. \A i \in Reports : i - 1 \in Reports' /\ channel'[i - 1] = channel[i]
    BY <1>3, <2>2, Dequeued
  <2> QED
    BY <2>1, <2>3 DEF Queued
<1> QED
  BY <1>1, <1>2, <1>3

-----------------------------------------------------------------------------
(* The initial states, and the four kinds of steps *)

\* The initial states of the tarpit are initial states of the ledger.
LEMMA InitRefines == Init => Ledger!Init
<1> SUFFICES ASSUME Init PROVE Ledger!Init
  OBVIOUS
<1>1. \A c \in Conns : LedgerPhase(c) = "outside"
  BY DEF Init, LedgerPhase
<1> QED
  BY <1>1 DEF Init, Ledger!Init

Phase == [c \in Conns |-> LedgerPhase(c)]
Book == {[conn |-> r.conn, bytes |-> r.bytes] : r \in rows}

\* A step that settles nothing and moves no client stutters in the ledger.
LEMMA Stutters ==
    ASSUME UNCHANGED <<sent, rows, totals>>,
           \A c \in Conns : LedgerPhase(c)' = LedgerPhase(c)
    PROVE  UNCHANGED Ledger!ledgerVars
<1>1. Phase' = Phase
  BY DEF Phase
<1> QED
  BY <1>1 DEF Phase, Ledger!ledgerVars

\* One connection moves and the books stay as they are.
LEMMA Moves ==
    ASSUME UNCHANGED <<rows, totals>>,
           NEW c \in Conns, NEW to,
           LedgerPhase(c)' = to,
           \A d \in Conns \ {c} : LedgerPhase(d)' = LedgerPhase(d)
    PROVE  /\ Phase' = [Phase EXCEPT ![c] = to]
           /\ Book' = Book
<1>1. \A d \in Conns : LedgerPhase(d)' = IF d = c THEN to ELSE LedgerPhase(d)
  OBVIOUS
<1> QED
  BY <1>1 DEF Phase, Book

\* The events of some connections are lost, and nothing else.
LEMMA Loses ==
    ASSUME UNCHANGED <<sent, rows, totals>>,
           NEW L \in SUBSET Conns,
           \A c \in L : LedgerPhase(c) \in {"trapped", "ended"} /\ LedgerPhase(c)' = "lost",
           \A c \in Conns \ L : LedgerPhase(c)' = LedgerPhase(c)
    PROVE  Ledger!Next
<1>1. Phase' = [c \in Conns |-> IF c \in L THEN "lost" ELSE Phase[c]]
  BY DEF Phase
<1>2. Ledger!Lose(L)
  BY <1>1 DEF Phase, Ledger!Lose
<1> QED
  BY <1>2 DEF Ledger!Next

-----------------------------------------------------------------------------
(* The steps *)

\* Every step of the tarpit is a step of the ledger or leaves it unchanged.
LEMMA StepRefines ==
    RInv /\ RInv' /\ [Next]_vars => [Ledger!Next]_(Ledger!ledgerVars)
<1> SUFFICES ASSUME RInv, RInv', [Next]_vars
             PROVE  Ledger!Next \/ UNCHANGED Ledger!ledgerVars
  OBVIOUS
<1>a. TypeOK /\ ChannelOK /\ task \in [Conns -> TaskStates]
  BY DEF RInv, IInv, TypeOK, ClientsOK
<1>b. \A c \in Conns : Recorded(c) => task[c] = "finished"
  BY DEF RInv, IInv, RecordedOnce, Recorded
<1>c. Ledger!Trapped = Running
  BY PhaseByTask DEF Ledger!Trapped, Running
<1>1. ASSUME Bind \/ BindFails \/ AcceptFails \/ ListenerCancelled \/ DropClientGuard
              \/ DropMainGuard \/ InsertRow \/ UpdateTotals \/ CancelClients \/ CancelAll
              \/ UNCHANGED vars \/ \E c \in Conns : PeerGone(c) \/ Accept(c)
      PROVE  UNCHANGED Ledger!ledgerVars
  <2>1. UNCHANGED <<task, sent, channel, handling, rows, totals>>
    BY <1>1 DEF Bind, BindFails, Accept, AcceptFails, ListenerCancelled, DropClientGuard,
       DropMainGuard, InsertRow, UpdateTotals, CancelClients, CancelAll, PeerGone, vars, clientVars, processorVars,
       dbVars
  <2>2. \A c \in Conns : Recorded(c)' = Recorded(c) /\ Unsettled(c)' = Unsettled(c)
    BY <2>1 DEF Recorded, Unsettled, Queued, Reports, BeingRecorded
  <2>3. \A c \in Conns : LedgerPhase(c)' = LedgerPhase(c)
    BY <2>1, <2>2, PhaseKept
  <2> QED
    BY <2>1, <2>3, Stutters
<1>2. ASSUME NEW c \in Conns, Admit(c) \/ Refuse(c) \/ EndClient(c)
      PROVE  Ledger!Next
  <2>1. UNCHANGED <<sent, channel, handling, rows, totals>>
    BY <1>2 DEF Admit, Refuse, EndClient, processorVars, dbVars
  <2>2. \A d \in Conns \ {c} : task'[d] = task[d]
    BY <1>a, <1>2 DEF Admit, Refuse, EndClient
  <2>3. \A d \in Conns : Recorded(d)' = Recorded(d) /\ Queued(d)' = Queued(d)
                            /\ BeingRecorded(d)' = BeingRecorded(d)
    BY <2>1 DEF Recorded, Queued, Reports, BeingRecorded
  <2>4. \A d \in Conns \ {c} : LedgerPhase(d)' = LedgerPhase(d)
    BY <2>2, <2>3, PhaseKept DEF Unsettled
  <2>5. CASE Admit(c)
    <3>1. task[c] = "new" /\ task'[c] = "running"
      BY <1>a, <2>5 DEF Admit
    <3>2. LedgerPhase(c) = "outside" /\ LedgerPhase(c)' = "trapped"
      BY <3>1, PhaseByTask DEF LedgerPhase
    <3>3. Phase' = [Phase EXCEPT ![c] = "trapped"] /\ Book' = Book
      BY <2>1, <2>4, <3>2, Moves
    <3>4. Cardinality(Ledger!Trapped) < MaxClients
      BY <1>c, <2>5, RunningFinite, MaxClientsPositive
         DEF Admit, RInv, PermitsAccounted, IInv, TypeOK, ClientsOK
    <3>5. Ledger!Move(c, "outside", "trapped")
      BY <3>2, <3>3 DEF Ledger!Move, Phase
    <3>6. Ledger!Enter(c)
      BY <2>1, <3>3, <3>4, <3>5, SameCardinality DEF Ledger!Enter, Book
    <3> QED
      BY <3>6 DEF Ledger!Next
  <2>6. CASE Refuse(c)
    <3>1. task[c] = "new" /\ task'[c] = "refused"
      BY <1>a, <2>6 DEF Refuse
    <3>2. LedgerPhase(c) = "outside" /\ LedgerPhase(c)' = "refused"
      BY <3>1, PhaseByTask DEF LedgerPhase
    <3>3. Phase' = [Phase EXCEPT ![c] = "refused"] /\ Book' = Book
      BY <2>1, <2>4, <3>2, Moves
    <3>4. Cardinality(Ledger!Trapped) = MaxClients \/ SocketsMayFail
      BY <1>c, <2>6, RunningFinite DEF Refuse, RInv, PermitsAccounted
    <3>5. Ledger!Move(c, "outside", "refused")
      BY <3>2, <3>3 DEF Ledger!Move, Phase
    <3>6. Ledger!TurnAway(c)
      BY <2>1, <3>3, <3>4, <3>5, SameCardinality DEF Ledger!TurnAway, Book
    <3> QED
      BY <3>6 DEF Ledger!Next
  <2>7. CASE EndClient(c)
    <3>1. task[c] = "running" /\ task'[c] = "reporting"
      BY <1>a, <2>7 DEF EndClient
    <3>2. LedgerPhase(c) = "trapped"
      BY <3>1, PhaseByTask
    <3>3. LedgerPhase(c)' = "ended"
      BY <1>b, <2>3, <3>1 DEF LedgerPhase, Unsettled
    <3>4. Phase' = [Phase EXCEPT ![c] = "ended"] /\ Book' = Book
      BY <2>1, <2>4, <3>3, Moves
    <3>5. Ledger!Leave(c)
      BY <2>1, <3>2, <3>4 DEF Ledger!Leave, Ledger!Move, Phase, Book
    <3> QED
      BY <3>5 DEF Ledger!Next
  <2> QED
    BY <1>2, <2>5, <2>6, <2>7
<1>3. ASSUME Announce \/ HandleConnected \/ HandleBytesSent
      PROVE  UNCHANGED Ledger!ledgerVars
  <2>1. UNCHANGED <<task, sent, handling, rows, totals>>
    BY <1>3 DEF Announce, HandleConnected, HandleBytesSent, clientVars, processorVars,
       dbVars
  <2>2. \A c \in Conns : Queued(c)' <=> Queued(c)
    <3>1. Announce => Connected(incoming) \in Event
      BY <1>a DEF TypeOK, ListenerOK, Announce, Connected, Event
    <3>2. Connected(incoming).kind # "Disconnected"
      BY DEF Connected
    <3>3. Announce => channel' = channel \/ channel' = Append(channel, Connected(incoming))
      BY DEF Announce, Sent
    <3>4. HandleConnected \/ HandleBytesSent =>
             channel # << >> /\ Head(channel).kind # "Disconnected" /\ channel' = Tail(channel)
      BY DEF HandleConnected, HandleBytesSent, Receives
    <3> QED
      BY <1>3, <1>a, <3>1, <3>2, <3>3, <3>4, QueuedKept
  <2>3. \A c \in Conns : Recorded(c)' = Recorded(c) /\ Unsettled(c)' = Unsettled(c)
    BY <2>1, <2>2 DEF Recorded, Unsettled, BeingRecorded
  <2>4. \A c \in Conns : LedgerPhase(c)' = LedgerPhase(c)
    BY <2>1, <2>3, PhaseKept
  <2> QED
    BY <2>1, <2>4, Stutters
<1>4. ASSUME NEW c \in Conns, SendLine(c)
      PROVE  Ledger!Next
  <2>1. /\ UNCHANGED <<task, handling, rows, totals>>
        /\ task[c] = "running"
        /\ sent' = [sent EXCEPT ![c] = @ + 1]
    BY <1>4 DEF SendLine, processorVars, dbVars
  <2>2. \A d \in Conns : Queued(d)' <=> Queued(d)
    <3>1. /\ BytesSent(c, sent[c] + 1) \in Event
          /\ BytesSent(c, sent[c] + 1).kind # "Disconnected"
      BY <1>a DEF TypeOK, ClientsOK, BytesSent, Event
    <3>2. channel' = channel \/ channel' = Append(channel, BytesSent(c, sent[c] + 1))
      BY <1>4 DEF SendLine
    <3> QED
      BY <1>a, <3>1, <3>2, QueuedKept
  <2>3. \A d \in Conns : Recorded(d)' = Recorded(d) /\ Unsettled(d)' = Unsettled(d)
    BY <2>1, <2>2 DEF Recorded, Unsettled, BeingRecorded
  <2>4. \A d \in Conns : LedgerPhase(d)' = LedgerPhase(d)
    BY <2>1, <2>3, PhaseKept
  <2>5. Phase' = Phase /\ Book' = Book /\ LedgerPhase(c) = "trapped"
    BY <2>1, <2>4, PhaseByTask DEF Phase, Book
  <2>6. Ledger!Serve(c)
    BY <2>1, <2>5 DEF Ledger!Serve, Phase, Book
  <2> QED
    BY <2>6 DEF Ledger!Next
<1>5. ASSUME NEW c \in Conns, ReportDisconnect(c)
      PROVE  Ledger!Next \/ UNCHANGED Ledger!ledgerVars
  <2> DEFINE e == Disconnected(c, sent[c])
  <2>1. /\ UNCHANGED <<sent, handling, rows, totals>>
        /\ task[c] = "reporting" /\ task'[c] = "finished"
        /\ \A d \in Conns \ {c} : task'[d] = task[d]
    BY <1>5, <1>a DEF ReportDisconnect, processorVars, dbVars
  <2>2. LedgerPhase(c) = "ended" /\ ~Recorded(c) /\ ~Queued(c) /\ ~BeingRecorded(c)
    BY <1>b, <2>1, PhaseByTask
       DEF RInv, IInv, EventInOnePlace, Queued, BeingRecorded
  <2>3. \A d \in Conns : Recorded(d)' = Recorded(d) /\ BeingRecorded(d)' = BeingRecorded(d)
    BY <2>1 DEF Recorded, BeingRecorded
  <2>4. CASE channel' = channel
    <3>1. \A d \in Conns : Queued(d)' = Queued(d)
      BY <2>4 DEF Queued, Reports
    <3>2. LedgerPhase(c)' = "lost"
      BY <2>1, <2>2, <2>3, <3>1 DEF LedgerPhase, Unsettled
    <3>3. \A d \in Conns \ {c} : LedgerPhase(d)' = LedgerPhase(d)
      BY <2>1, <2>3, <3>1, PhaseKept DEF Unsettled
    <3> QED
      BY <2>1, <2>2, <3>2, <3>3, Loses
  <2>5. CASE channel' = Append(channel, e)
    <3>1. e \in Event /\ e.conn = c /\ e.kind = "Disconnected"
      BY <1>a DEF TypeOK, ClientsOK, Disconnected, Event
    <3>2. /\ \A i \in Reports : i \in Reports' /\ channel'[i] = channel[i]
          /\ \A i \in Reports' : i \in Reports \/ channel'[i] = e
      BY <1>a, <2>5, <3>1, Enqueued
    <3>3. Len(channel) + 1 \in Reports' /\ channel'[Len(channel) + 1] = e
      BY <1>a, <2>5, <3>1, AppendProperties DEF Reports, ChannelOK
    <3>4. Queued(c)' /\ \A d \in Conns \ {c} : Queued(d)' = Queued(d)
      BY <3>1, <3>2, <3>3 DEF Queued
    <3>5. LedgerPhase(c)' = "ended"
      BY <2>1, <2>2, <2>3, <3>4 DEF LedgerPhase, Unsettled
    <3>6. \A d \in Conns \ {c} : LedgerPhase(d)' = LedgerPhase(d)
      BY <2>1, <2>3, <3>4, PhaseKept DEF Unsettled
    <3> QED
      BY <2>1, <2>2, <3>5, <3>6, Stutters
  <2> QED
    BY <1>5, <2>4, <2>5 DEF ReportDisconnect, Sent
<1>6. ASSUME HandleDisconnected
      PROVE  UNCHANGED Ledger!ledgerVars
  <2>1. /\ UNCHANGED <<task, sent, rows, totals>>
        /\ handling = None /\ handling' = Head(channel)
        /\ channel # << >> /\ channel' = Tail(channel)
        /\ Head(channel).kind = "Disconnected"
    BY <1>6, <1>a DEF HandleDisconnected, Receives, clientVars, dbVars, TypeOK, WritingOK
  <2>2. /\ handling' = channel[1] /\ 1 \in Reports
        /\ \A i \in Reports' : i + 1 \in Reports /\ channel'[i] = channel[i + 1]
        /\ \A i \in Reports : i = 1 \/ (i - 1 \in Reports' /\ channel'[i - 1] = channel[i])
    BY <1>a, <2>1, Dequeued
  <2>3. handling' # None
    BY <1>a, <2>2, ReportsAreEvents, NoneIsNoValue
  <2>4. \A c \in Conns : Queued(c) <=> Queued(c)' \/ channel[1].conn = c
    BY <2>2 DEF Queued
  <2>5. \A c \in Conns : Recorded(c)' = Recorded(c) /\ Unsettled(c)' = Unsettled(c)
    BY <2>1, <2>2, <2>3, <2>4 DEF Recorded, Unsettled, BeingRecorded
  <2>6. \A c \in Conns : LedgerPhase(c)' = LedgerPhase(c)
    BY <2>1, <2>5, PhaseKept
  <2> QED
    BY <2>1, <2>6, Stutters
<1>7. ASSUME Commit
      PROVE  Ledger!Next
  <2>1. /\ UNCHANGED <<task, sent, channel>>
        /\ rows' = tx.rows /\ totals' = tx.totals /\ handling' = None
        /\ processor = "committing"
    BY <1>7 DEF Commit, clientVars
  <2>2. handling \in Event /\ handling # None /\ tx # None
    BY <1>a, <2>1 DEF TypeOK, WritingOK, ProcessorOK
  <2>a. PICK c \in Conns : c = handling.conn
    BY <2>2 DEF Event
  <2>3. /\ rows' = rows \cup {[id |-> nextId - 1, conn |-> c, bytes |-> handling.bytes]}
        /\ totals' = [connections |-> totals.connections + 1,
                      bytes |-> totals.bytes + handling.bytes]
    BY <2>1, <2>2, <2>a DEF RInv, IInv, TransactionAddsOneRow
  <2>4. /\ BeingRecorded(c) /\ ~Recorded(c)
        /\ handling.bytes = sent[c] /\ task[c] = "finished"
    BY <2>2, <2>a DEF RInv, IInv, EventInOnePlace, BeingRecorded
  <2>5. LedgerPhase(c) = "ended"
    BY <2>4, PhaseByTask DEF Unsettled
  <2>b. PICK row : /\ row = [id |-> nextId - 1, conn |-> c, bytes |-> handling.bytes]
                   /\ row.conn = c /\ row.bytes = sent[c]
                   /\ rows' = rows \cup {row}
    BY <2>3, <2>4
  <2>6. Recorded(c)' /\ \A d \in Conns \ {c} : Recorded(d)' = Recorded(d)
    <3>1. Recorded(c)'
      BY <2>b DEF Recorded
    <3>2. ASSUME NEW d \in Conns \ {c} PROVE Recorded(d)' = Recorded(d)
      BY <2>b DEF Recorded
    <3> QED
      BY <3>1, <3>2
  <2>7. LedgerPhase(c)' = "recorded"
    BY <2>1, <2>4, <2>6 DEF LedgerPhase
  <2>8. \A d \in Conns \ {c} : Queued(d)' = Queued(d) /\ ~BeingRecorded(d)
                                  /\ ~BeingRecorded(d)'
    BY <2>1, <2>a DEF Queued, Reports, BeingRecorded
  <2>9. \A d \in Conns \ {c} : LedgerPhase(d)' = LedgerPhase(d)
    BY <2>1, <2>6, <2>8, PhaseKept DEF Unsettled
  <2>10. Phase' = [Phase EXCEPT ![c] = "recorded"]
    BY <2>4, <2>7, <2>9 DEF Phase
  <2>11. Book' = Book \cup {[conn |-> c, bytes |-> sent[c]]}
    BY <2>b DEF Book
  <2>12. Ledger!Record(c)
    BY <2>1, <2>3, <2>4, <2>5, <2>10, <2>11 DEF Ledger!Record, Ledger!Move, Phase, Book
  <2> QED
    BY <2>4, <2>12 DEF Ledger!Next
<1>8. ASSUME InsertFails
      PROVE  Ledger!Next
  <2>1. /\ UNCHANGED <<task, sent, channel, rows, totals>> /\ handling' = None
        /\ processor \in {"inserting", "updating", "committing"}
    BY <1>8 DEF InsertFails, clientVars
  <2>2. handling \in Event /\ handling # None
    BY <1>a, <2>1 DEF TypeOK, WritingOK, ProcessorOK
  <2>a. PICK c \in Conns : c = handling.conn
    BY <2>2 DEF Event
  <2>3. /\ BeingRecorded(c) /\ ~Recorded(c) /\ task[c] = "finished"
        /\ ~Queued(c)
    BY <2>2, <2>a DEF RInv, IInv, EventInOnePlace, BeingRecorded, Queued
  <2>4. LedgerPhase(c) = "ended"
    BY <2>3, PhaseByTask DEF Unsettled
  <2>5. \A d \in Conns : Recorded(d)' = Recorded(d) /\ Queued(d)' = Queued(d)
                            /\ ~BeingRecorded(d)'
    BY <2>1 DEF Recorded, Queued, Reports, BeingRecorded
  <2>6. LedgerPhase(c)' = "lost"
    BY <2>1, <2>3, <2>5 DEF LedgerPhase, Unsettled
  <2>7. \A d \in Conns \ {c} : ~BeingRecorded(d)
    BY <2>a DEF BeingRecorded
  <2>8. \A d \in Conns \ {c} : LedgerPhase(d)' = LedgerPhase(d)
    BY <2>1, <2>5, <2>7, PhaseKept DEF Unsettled
  <2> QED
    BY <2>1, <2>3, <2>4, <2>6, <2>8, Loses
<1>9. ASSUME ProcessorCancelled \/ ProcessorChannelClosed
      PROVE  Ledger!Next
  <2> DEFINE L == {c \in Conns : Queued(c)}
  <2>1. /\ UNCHANGED <<task, sent, handling, rows, totals>> /\ handling = None
        /\ channel' = << >>
    BY <1>9, <1>a DEF ProcessorCancelled, ProcessorChannelClosed, clientVars, dbVars,
       TypeOK, WritingOK
  <2>2. \A c \in Conns : /\ ~Queued(c)' /\ ~BeingRecorded(c) /\ ~BeingRecorded(c)'
                         /\ Recorded(c)' = Recorded(c)
    BY <2>1 DEF Queued, Reports, BeingRecorded, Recorded
  <2>3. ASSUME NEW c \in L
        PROVE  LedgerPhase(c) = "ended" /\ LedgerPhase(c)' = "lost"
    <3>1. task[c] = "finished" /\ ~Recorded(c)
      BY <2>3 DEF RInv, IInv, EventInOnePlace, Queued
    <3> QED
      BY <2>1, <2>2, <3>1, PhaseByTask DEF LedgerPhase, Unsettled
  <2>4. \A c \in Conns \ L : LedgerPhase(c)' = LedgerPhase(c)
    BY <2>1, <2>2, PhaseKept DEF Unsettled
  <2> QED
    BY <2>1, <2>3, <2>4, Loses
<1>10. ASSUME Crash
       PROVE  Ledger!Next
  <2> DEFINE L == {c \in Conns : task[c] = "running" \/ Unsettled(c)}
  <2>1. /\ UNCHANGED <<sent, rows, totals>> /\ channel' = << >> /\ handling' = None
        /\ task' = [c \in Conns |-> IF task[c] \in {"running", "reporting"}
                                    THEN "killed" ELSE task[c]]
    BY <1>10 DEF Crash
  <2>2. \A c \in Conns : Recorded(c)' = Recorded(c) /\ ~Queued(c)' /\ ~BeingRecorded(c)'
    BY <2>1 DEF Queued, Reports, BeingRecorded, Recorded
  <2>3. ASSUME NEW c \in L
        PROVE  LedgerPhase(c) \in {"trapped", "ended"} /\ LedgerPhase(c)' = "lost"
    <3>1. LedgerPhase(c) \in {"trapped", "ended"}
      BY PhaseByTask
    <3>2. task[c] \in {"running", "reporting", "finished"} /\ ~Recorded(c)
      BY <1>b DEF RInv, IInv, EventInOnePlace, Unsettled, Queued, BeingRecorded
    <3>3. task'[c] \in {"killed", "finished"}
      BY <2>1, <3>2
    <3> QED
      BY <2>2, <3>1, <3>2, <3>3 DEF LedgerPhase, Unsettled
  <2>4. ASSUME NEW c \in Conns \ L
        PROVE  LedgerPhase(c)' = LedgerPhase(c)
    <3>1. task'[c] = task[c] /\ task[c] # "reporting"
      BY <2>1 DEF Unsettled
    <3> QED
      BY <2>2, <3>1, PhaseKept DEF Unsettled
  <2> QED
    BY <2>1, <2>3, <2>4, Loses
<1> QED
  BY <1>1, <1>2, <1>3, <1>4, <1>5, <1>6, <1>7, <1>8, <1>9, <1>10
     DEF Next, Listen, Serve, Process, Environment, ClientGone, ClientCancelled

\* The tarpit implements the ledger for all values of the constants: at most MaxClients
\* are trapped, nobody is turned away while a slot is free, and what has ended enters the
\* books at most once, in one step with the totals.
THEOREM TarpitImplementsLedger == Spec => ImplementsLedger
<1>1. Spec => []RInv
  <2>1. RInv <=> IInv /\ PermitsAccounted
    BY DEF RInv
  <2> QED
    BY <2>1, InvariantHolds, PermitsNeverLost, PTL
<1>2. Spec => Ledger!Init /\ [][Ledger!Next]_(Ledger!ledgerVars)
  BY <1>1, InitRefines, StepRefines, PTL DEF Spec
<1> QED
  BY <1>2 DEF ImplementsLedger, Ledger!Spec

-----------------------------------------------------------------------------
(* The process implements the tarpit *)

\* Cancelling the main token is what CancelAll does; a second time it changes nothing.
LEMMA CancelMainIsAllowed ==
    ASSUME CancelMain PROVE [Next]_vars
<1>1. CASE ~mainCancelled
  BY <1>1 DEF CancelMain, CancelAll, Next, Environment
<1>2. CASE mainCancelled /\ ~clientsCancelled
  <2>1. CancelClients \/ mainCancelled' # mainCancelled
    BY <1>2, Zenon DEF CancelMain, CancelClients
  <2> QED
    BY <1>2, <2>1 DEF CancelMain, Next, Environment
<1>3. CASE mainCancelled /\ clientsCancelled
  BY <1>3 DEF CancelMain, vars, tokenVars
<1> QED
  BY <1>1, <1>2, <1>3

\* What start_tasks does after its select is to cancel the clients' token.
LEMMA DrainingIsAllowed ==
    ASSUME NEW why, StartDraining(why) PROVE [Next]_vars
<1>1. CASE ~clientsCancelled
  BY <1>1 DEF StartDraining, CancelClients, Next, Environment
<1>2. CASE clientsCancelled
  <2>1. clientsCancelled' = clientsCancelled
    BY <1>2 DEF StartDraining
  <2> QED
    BY <2>1 DEF StartDraining, vars, tokenVars
<1> QED
  BY <1>1, <1>2

\* A step of one of Tarpit's tasks is a step of Tarpit.
LEMMA TaskStepIsAllowed ==
    ASSUME TaskStep PROVE Next
BY DEF TaskStep, Next, Listen, Process, Environment

\* Every step of the process is a step of the tarpit or leaves the tarpit alone.
LEMMA BackendStep == [BackendNext]_allVars => [Next]_vars
<1> SUFFICES ASSUME [BackendNext]_allVars PROVE [Next]_vars
  OBVIOUS
<1>1. CASE TaskStep
  BY <1>1, TaskStepIsAllowed
<1>2. CASE ServerFails \/ ServerCancelled \/ SignalArrives \/ Exit
  BY <1>2 DEF ServerFails, ServerCancelled, SignalArrives, Exit
<1>3. CASE DropServerGuard \/ EndDraining
  <2>1. CancelMain
    BY <1>3 DEF DropServerGuard, EndDraining
  <2> QED
    BY <2>1, CancelMainIsAllowed
<1>4. CASE SeeFailure \/ SeeSignal \/ RegistrationFails
  <2>1. PICK why : StartDraining(why)
    BY <1>4 DEF SeeFailure, SeeSignal, RegistrationFails
  <2> QED
    BY <2>1, DrainingIsAllowed
<1>5. CASE UNCHANGED allVars
  BY <1>5 DEF allVars
<1> QED
  BY <1>1, <1>2, <1>3, <1>4, <1>5 DEF BackendNext

\* The process behaves like the tarpit: supervising it only ever cancels its tokens
\* (main.rs:288-343).
THEOREM ProcessImplementsTarpit == BackendSpec => ImplementsTarpit
<1>1. BackendInit => Init
  BY DEF BackendInit
<1> QED
  BY <1>1, BackendStep, PTL DEF BackendSpec, Spec, ImplementsTarpit

\* So no connection is recorded twice, or with a total that is not final, in any run of
\* the process, whatever fails and whenever it is told to stop.
THEOREM ProcessRecordsOnce == BackendSpec => []RecordedOnce
BY ProcessImplementsTarpit, ConnectionsRecordedOnce DEF ImplementsTarpit

\* And in any run of the process the ledger's promises are kept: nobody is turned away while
\* a slot is free, and what has ended enters the books at most once, in one step with the
\* totals (main.rs:288-343).
THEOREM ProcessImplementsLedger == BackendSpec => ImplementsLedger
BY ProcessImplementsTarpit, TarpitImplementsLedger DEF ImplementsTarpit

\* Type correctness of the process: the variables of the tarpit by refinement, those of the
\* supervisor by induction.
THEOREM ProcessTypeCorrect == BackendSpec => []BackendTypeOK
<1> DEFINE SupervisorOK ==
        /\ server \in ServerStates
        /\ supervisor \in SupervisorStates
        /\ signalled \in BOOLEAN
        /\ reason \in {"none", "failure", "signal", "unexpected"}
        /\ failed \in SUBSET {"server", "listener", "processor"}
<1>1. BackendInit => SupervisorOK
  BY DEF BackendInit, ServerStates, SupervisorStates
<1>2. SupervisorOK /\ [BackendNext]_allVars => SupervisorOK'
  <2> SUFFICES ASSUME SupervisorOK, [BackendNext]_allVars PROVE SupervisorOK'
    OBVIOUS
  <2>1. CASE TaskStep
    <3>1. /\ failed' \in {failed, failed \cup {"listener"}, failed \cup {"processor"}}
          /\ UNCHANGED <<server, supervisor, signalled, reason>>
      BY <2>1 DEF TaskStep
    <3> QED
      BY <3>1
  <2>2. CASE ServerFails \/ ServerCancelled \/ DropServerGuard
    BY <2>2 DEF ServerFails, ServerCancelled, DropServerGuard, ServerStates
  <2>3. CASE \/ SignalArrives \/ SeeFailure \/ SeeSignal \/ RegistrationFails
             \/ EndDraining \/ Exit
    BY <2>3 DEF SignalArrives, SeeFailure, SeeSignal, RegistrationFails, StartDraining,
                EndDraining, Exit, SupervisorStates
  <2>4. CASE UNCHANGED allVars
    BY <2>4 DEF allVars, backendVars
  <2> QED
    BY <2>1, <2>2, <2>3, <2>4 DEF BackendNext
<1>3. SupervisorOK /\ TypeOK => BackendTypeOK
  BY DEF BackendTypeOK
<1>4. BackendSpec => []TypeOK
  BY ProcessImplementsTarpit, TypeCorrect DEF ImplementsTarpit
<1> QED
  BY <1>1, <1>2, <1>3, <1>4, PTL DEF BackendSpec

-----------------------------------------------------------------------------
(* The exit status *)

\* While start_tasks waits and no task has stopped on its own, nothing has cancelled a
\* token: the three tasks are in their loops.
NothingStopped ==
    /\ clientsCancelled = FALSE
    /\ mainCancelled = FALSE
    /\ listener \in {"binding", "accepting", "admitting", "announcing"}
    /\ server = "serving"

\* The inductive invariant behind FailureHasACause.
CauseInv ==
    /\ supervisor = "selecting" /\ failed = {} => NothingStopped
    /\ FailureHasACause

\* The cause of a failure stays on record, through every step of the process.
LEMMA NextCauseInv == CauseInv /\ [BackendNext]_allVars => CauseInv'
<1> SUFFICES ASSUME CauseInv, [BackendNext]_allVars PROVE CauseInv'
  OBVIOUS
<1> USE DEF CauseInv, FailureHasACause
<1>1. ASSUME TaskStep PROVE CauseInv'
  <2>1. failed \subseteq failed' /\ UNCHANGED <<server, supervisor, signalled, reason>>
    BY <1>1 DEF TaskStep
  <2>2. FailureHasACause'
    BY <2>1
  <2>3. ASSUME NothingStopped, failed' = {} PROVE NothingStopped'
    <3>1. \/ Bind \/ Announce
          \/ \E c \in Conns : Accept(c) \/ Admit(c) \/ Refuse(c)
          \/ UNCHANGED <<listener, clientsCancelled, mainCancelled>>
      <4>1. ASSUME ListenerCancelled \/ DropClientGuard \/ DropMainGuard PROVE FALSE
        BY <2>3, <4>1 DEF NothingStopped, ListenerCancelled, DropClientGuard,
                          DropMainGuard
      <4>2. ASSUME ProcessorChannelClosed \/ ProcessorCancelled PROVE FALSE
        BY <2>3, <4>2 DEF NothingStopped, ProcessorChannelClosed, ProcessorCancelled
      <4>3. ASSUME NEW c \in Conns,
                   SendLine(c) \/ ClientGone(c) \/ ClientCancelled(c)
                      \/ ReportDisconnect(c) \/ PeerGone(c)
            PROVE  UNCHANGED <<listener, clientsCancelled, mainCancelled>>
        BY <4>3 DEF SendLine, ClientGone, ClientCancelled, EndClient, ReportDisconnect,
                    PeerGone, listenerVars, tokenVars
      <4>4. ASSUME \/ HandleConnected \/ HandleBytesSent \/ HandleDisconnected
                   \/ InsertRow \/ UpdateTotals \/ Commit \/ InsertFails
            PROVE  UNCHANGED <<listener, clientsCancelled, mainCancelled>>
        BY <4>4 DEF HandleConnected, HandleBytesSent, HandleDisconnected, InsertRow,
                    UpdateTotals, Commit, InsertFails, listenerVars, tokenVars
      <4>5. ~(TasksFail /\ (BindFails \/ AcceptFails) /\ failed' = failed \cup {"listener"})
        BY <2>3
      <4> QED
        BY <1>1, <4>1, <4>2, <4>3, <4>4, <4>5 DEF TaskStep, Serve
    <3>2. UNCHANGED <<clientsCancelled, mainCancelled>>
      BY <3>1 DEF Bind, Announce, Accept, Admit, Refuse, tokenVars
    <3>3. listener' \in {"binding", "accepting", "admitting", "announcing"}
      BY <2>3, <3>1 DEF NothingStopped, Bind, Announce, Accept, Admit, Refuse
    <3> QED
      BY <2>1, <2>3, <3>2, <3>3 DEF NothingStopped
  <2> QED
    BY <2>1, <2>2, <2>3
<1>2. ASSUME ServerFails PROVE CauseInv'
  BY <1>2 DEF ServerFails
<1>3. ASSUME ServerCancelled \/ DropServerGuard PROVE CauseInv'
  BY <1>3 DEF ServerCancelled, DropServerGuard, NothingStopped
<1>4. ASSUME SignalArrives PROVE CauseInv'
  BY <1>4 DEF SignalArrives, NothingStopped, vars, listenerVars, tokenVars
<1>5. ASSUME SeeFailure PROVE CauseInv'
  BY <1>5 DEF SeeFailure, StartDraining, NothingStopped
<1>6. ASSUME SeeSignal \/ RegistrationFails PROVE CauseInv'
  BY <1>6 DEF SeeSignal, RegistrationFails, StartDraining
<1>7. ASSUME EndDraining \/ Exit PROVE CauseInv'
  BY <1>7 DEF EndDraining, Exit
<1>8. ASSUME UNCHANGED allVars PROVE CauseInv'
  BY <1>8 DEF allVars, vars, backendVars, listenerVars, tokenVars, NothingStopped
<1> QED
  BY <1>1, <1>2, <1>3, <1>4, <1>5, <1>6, <1>7, <1>8 DEF BackendNext

\* start_tasks reports a failure only when a task has stopped on its own
\* (main.rs:291-296).
THEOREM FailuresAreReal == BackendSpec => []FailureHasACause
<1>1. BackendInit => CauseInv
  BY DEF BackendInit, Init, CauseInv, NothingStopped, FailureHasACause
<1>2. CauseInv => FailureHasACause
  BY DEF CauseInv
<1> QED
  BY <1>1, <1>2, NextCauseInv, PTL DEF BackendSpec
=============================================================================
