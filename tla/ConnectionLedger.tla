-------------------------- MODULE ConnectionLedger --------------------------
(***************************************************************************)
(* What the tarpit promises, without its tasks, channel and database       *)
(* statements: it traps at most MaxClients connections at a time, turns a  *)
(* peer away only when it is full, and enters a connection that has ended  *)
(* into its books at most once, in one step with the totals and with       *)
(* everything that was sent to it.  A connection may go unrecorded (the    *)
(* database refuses, the process stops), but never partly recorded.        *)
(***************************************************************************)
EXTENDS Integers, FiniteSets

CONSTANTS Conns, MaxClients, SocketsMayFail

VARIABLES
    phase,   \* how far each connection has come
    lines,   \* lines sent to each connection
    book,    \* the connections recorded, with the lines sent to them
    totals   \* the all-time totals

ledgerVars == <<phase, lines, book, totals>>

Phases == {"outside", "refused", "trapped", "ended", "recorded", "lost"}

Trapped == {c \in Conns : phase[c] = "trapped"}

Init ==
    /\ phase = [c \in Conns |-> "outside"]
    /\ lines = [c \in Conns |-> 0]
    /\ book = {}
    /\ totals = [connections |-> 0, bytes |-> 0]

Move(c, from, to) ==
    /\ phase[c] = from
    /\ phase' = [phase EXCEPT ![c] = to]

Enter(c) ==
    /\ Cardinality(Trapped) < MaxClients
    /\ Move(c, "outside", "trapped")
    /\ UNCHANGED <<lines, book, totals>>

TurnAway(c) ==
    /\ Cardinality(Trapped) = MaxClients \/ SocketsMayFail
    /\ Move(c, "outside", "refused")
    /\ UNCHANGED <<lines, book, totals>>

Serve(c) ==
    /\ phase[c] = "trapped"
    /\ lines' = [lines EXCEPT ![c] = @ + 1]
    /\ UNCHANGED <<phase, book, totals>>

Leave(c) ==
    /\ Move(c, "trapped", "ended")
    /\ UNCHANGED <<lines, book, totals>>

Record(c) ==
    /\ Move(c, "ended", "recorded")
    /\ book' = book \cup {[conn |-> c, bytes |-> lines[c]]}
    /\ totals' = [connections |-> totals.connections + 1,
                  bytes |-> totals.bytes + lines[c]]
    /\ UNCHANGED lines

\* The events of these connections are gone: a failed statement, a restart, a shutdown.
Lose(gone) ==
    /\ \A c \in gone : phase[c] \in {"trapped", "ended"}
    /\ phase' = [c \in Conns |-> IF c \in gone THEN "lost" ELSE phase[c]]
    /\ UNCHANGED <<lines, book, totals>>

Next ==
    \/ \E c \in Conns :
          Enter(c) \/ TurnAway(c) \/ Serve(c) \/ Leave(c) \/ Record(c)
    \/ \E gone \in SUBSET Conns : Lose(gone)

Spec == Init /\ [][Next]_ledgerVars
=============================================================================
