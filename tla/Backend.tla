------------------------------ MODULE Backend ------------------------------
(***************************************************************************)
(* The process: start_tasks, which supervises three tasks - the web        *)
(* server, the listener and the event processor - waits for a signal or    *)
(* for one of them to stop, or finds that it cannot wait for signals, and  *)
(* then shuts the others down.  The listener and the event processor are   *)
(* those of Tarpit.                                                        *)
(*                                                                         *)
(* A task holds a drop guard of the main token, so that its end cancels    *)
(* everything.  The clients' token is a child of the main token: main.rs   *)
(* cancels it first and lets the clients drain.                            *)
(***************************************************************************)
EXTENDS Tarpit

CONSTANTS
    TimeoutsFire,   \* whether the 10 s timeouts of the shutdown may run out
    TasksFail,      \* whether the web server and the listener may fail on their own
    HandlersFail    \* whether the signal handlers may fail to register

ASSUME BackendFlags == {TimeoutsFire, TasksFail, HandlersFail} \subseteq BOOLEAN

VARIABLES
    server,       \* where the web server task is
    supervisor,   \* where start_tasks is
    signalled,    \* SIGTERM or SIGINT has arrived
    reason,       \* the Shutdown that start_tasks will return
    failed        \* history: the tasks that stopped on their own

backendVars == <<server, supervisor, signalled, reason, failed>>
allVars == <<vars, backendVars>>

ServerStates == {"serving", "returned", "stopped"}
SupervisorStates == {"selecting", "draining", "joining", "exited"}

BackendInit ==
    /\ Init
    /\ server = "serving"
    /\ supervisor = "selecting"
    /\ signalled = FALSE
    /\ reason = "none"
    /\ failed = {}

Up == supervisor # "exited"

-----------------------------------------------------------------------------
(* The tasks of Tarpit run until the process exits.  A failure of the      *)
(* listener, or a processor that finds its channel closed, is remembered.  *)

TaskStep ==
    /\ Up
    /\ \/ /\ Bind \/ Announce \/ ListenerCancelled \/ DropClientGuard \/ DropMainGuard
          /\ UNCHANGED failed
       \/ /\ TasksFail
          /\ BindFails \/ AcceptFails
          /\ failed' = failed \cup {"listener"}
       \/ /\ \E c \in Conns : Accept(c) \/ Admit(c) \/ Refuse(c) \/ PeerGone(c)
          /\ UNCHANGED failed
       \/ Serve /\ UNCHANGED failed
       \/ /\ HandleConnected \/ HandleBytesSent \/ HandleDisconnected \/ InsertRow
             \/ UpdateTotals \/ Commit \/ InsertFails \/ ProcessorCancelled
          /\ UNCHANGED failed
       \/ ProcessorChannelClosed /\ failed' = failed \cup {"processor"}
    /\ UNCHANGED <<server, supervisor, signalled, reason>>

-----------------------------------------------------------------------------
(* The web server task *)

\* The address cannot be bound, or serving ends with an error.
ServerFails ==
    /\ Up
    /\ TasksFail
    /\ server = "serving"
    /\ server' = "returned"
    /\ failed' = failed \cup {"server"}
    /\ UNCHANGED <<vars, supervisor, signalled, reason>>

\* Mutant: the server's graceful shutdown waits for the signal itself.
ServerCancelledBySignal ==
    /\ Up
    /\ server = "serving"
    /\ signalled \/ mainCancelled
    /\ server' = "returned"
    /\ UNCHANGED <<vars, supervisor, signalled, reason, failed>>

\* Graceful shutdown: the server stops accepting and its open requests end.
ServerCancelled ==
    /\ Up
    /\ server = "serving"
    /\ mainCancelled
    /\ server' = "returned"
    /\ UNCHANGED <<vars, supervisor, signalled, reason, failed>>

\* Mutant: the clients' token is not a child of the main token.
CancelMainOnly ==
    /\ mainCancelled' = TRUE
    /\ UNCHANGED <<listenerVars, clientVars, channel, processorVars, clientsCancelled,
                   crashes>>

CancelMain ==
    /\ mainCancelled' = TRUE
    /\ clientsCancelled' = TRUE
    /\ UNCHANGED <<listenerVars, clientVars, channel, processorVars, crashes>>

\* Mutant: the web server task holds no guard.
DropNoServerGuard ==
    /\ Up
    /\ server = "returned"
    /\ server' = "stopped"
    /\ UNCHANGED <<vars, supervisor, signalled, reason, failed>>

DropServerGuard ==
    /\ Up
    /\ server = "returned"
    /\ server' = "stopped"
    /\ CancelMain
    /\ UNCHANGED <<supervisor, signalled, reason, failed>>

-----------------------------------------------------------------------------
(* start_tasks *)

\* While start_tasks waits for one: nothing looks at those that come later.
SignalArrives ==
    /\ supervisor = "selecting"
    /\ ~signalled
    /\ signalled' = TRUE
    /\ UNCHANGED <<vars, server, supervisor, reason, failed>>

\* What start_tasks does right after the select: it cancels the clients' token.
StartDraining(why) ==
    /\ supervisor = "selecting"
    /\ supervisor' = "draining"
    /\ reason' = why
    /\ clientsCancelled' = TRUE
    /\ UNCHANGED <<listenerVars, clientVars, channel, processorVars, mainCancelled, crashes>>
    /\ UNCHANGED <<server, signalled, failed>>

\* The select is biased: a cancelled main token is seen before a signal.
SeeFailure == mainCancelled /\ StartDraining("failure")
SeeSignal == ~mainCancelled /\ signalled /\ StartDraining("signal")

\* The first poll of the select, which the tasks may run ahead of, cannot register a handler,
\* and start_tasks will return UnexpectedError.  No signal has arrived: without a handler it
\* would have ended the process at once.
RegistrationFails ==
    /\ HandlersFail
    /\ ~mainCancelled /\ ~signalled
    /\ StartDraining("unexpected")

\* Every tracked client task has ended, or the timeout has: the main token is cancelled.
EndDraining ==
    /\ supervisor = "draining"
    /\ Running = {} \/ TimeoutsFire
    /\ supervisor' = "joining"
    /\ CancelMain
    /\ UNCHANGED <<server, signalled, reason, failed>>

AllStopped == server = "stopped" /\ listener = "stopped" /\ processor = "stopped"

\* Every task has ended, or the timeout has: start_tasks returns, and with the runtime
\* goes whatever still runs.
Exit ==
    /\ supervisor = "joining"
    /\ AllStopped \/ TimeoutsFire
    /\ supervisor' = "exited"
    /\ UNCHANGED <<vars, server, signalled, reason, failed>>

-----------------------------------------------------------------------------
BackendNext ==
    \/ TaskStep
    \/ ServerFails \/ ServerCancelled \/ DropServerGuard
    \/ SignalArrives \/ SeeFailure \/ SeeSignal \/ RegistrationFails
    \/ EndDraining \/ Exit

BackendFairness ==
    /\ WF_allVars(TaskStep /\ (Bind \/ BindFails))
    /\ WF_allVars(TaskStep /\ (Announce \/ \E c \in Conns : Admit(c) \/ Refuse(c)))
    /\ WF_allVars(TaskStep /\ ListenerCancelled)
    /\ WF_allVars(TaskStep /\ (DropClientGuard \/ DropMainGuard))
    /\ \A c \in Conns : WF_allVars(TaskStep /\ (ClientGone(c) \/ ClientCancelled(c)))
    /\ \A c \in Conns : WF_allVars(TaskStep /\ ReportDisconnect(c))
    /\ WF_allVars(TaskStep /\ Process)
    /\ WF_allVars(ServerCancelled)
    /\ WF_allVars(DropServerGuard)
    /\ WF_allVars(\/ SeeFailure \/ SeeSignal
                  \/ Running = {} /\ EndDraining
                  \/ AllStopped /\ Exit)

BackendSpec == BackendInit /\ [][BackendNext]_allVars
BackendFairSpec == BackendSpec /\ BackendFairness

-----------------------------------------------------------------------------
(* Properties *)

\* Every variable has its type.
BackendTypeOK ==
    /\ TypeOK
    /\ server \in ServerStates
    /\ supervisor \in SupervisorStates
    /\ signalled \in BOOLEAN
    /\ reason \in {"none", "failure", "signal", "unexpected"}
    /\ failed \in SUBSET {"server", "listener", "processor"}

\* The supervisor, the guards and the web server do nothing to the tarpit but what Tarpit
\* allows its environment: they cancel tokens, and the main one never without its child.
\* So what is proved of Tarpit holds of the process (main.rs:219-220, 288-343).
ImplementsTarpit == Spec

\* The process exits with a failure only if a task did stop on its own: the tokens that
\* the shutdown itself cancels are never taken for one (main.rs:291-296, "we only cancel
\* it ourselves after this select, so here it means a task stopped on its own").
FailureHasACause == reason = "failure" => failed # {}

\* A signal, a task that stops on its own, and a handler that cannot be registered each end
\* in the exit of the process, with no help from the timeouts: the cancellation reaches
\* every task and none waits for another (main.rs:164-165, 216-218, 288-343).
ShutdownCompletes ==
    signalled \/ failed # {} \/ reason = "unexpected" ~> supervisor = "exited"

\* A client whose task has ended is in the database when the process exits after a signal
\* (README.md:13, "All connections are logged with geolocation data").  It does not hold:
\* the processor is cancelled while Disconnected events are still on their way.
LoggedAtExit ==
    supervisor = "exited" /\ failed = {} =>
        \A c \in Conns : task[c] = "finished" => Recorded(c)

\* After an orderly exit no client task is left for the runtime to kill (main.rs:164-165,
\* "ensures all tasks are gracefully shutdown in case of error, CTRL+c or SIGTERM").  It
\* does not hold: the listener may admit a client after the drain has ended.
NoTaskLeftAtExit == supervisor = "exited" => Running = {}
=============================================================================
