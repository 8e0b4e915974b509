---------------------------- MODULE WebSocketHook ----------------------------
(***************************************************************************)
(* The effect of useWebSocket: one socket, a retry timer that replaces it  *)
(* when it closes, a timer that resets the backoff and a watchdog that     *)
(* closes a socket nothing comes from.  The three timers and the variable  *)
(* socket belong to the effect, not to a socket; a handler that sets one   *)
(* again loses track of a timer that is still pending.                     *)
(*                                                                         *)
(* A timer fires after an arbitrary time.  A socket that has been closed   *)
(* gives its name to a later one, so that the hook may run forever.        *)
(***************************************************************************)
EXTENDS Integers, FiniteSets

CONSTANTS
    Sockets,            \* names of web sockets
    BaseBackoff,        \* BASE_BACKOFF_MS (500)
    MaxBackoff,         \* MAX_BACKOFF_MS (30000)
    MaxNudges,          \* bound: online and visibility events that find the retry timer
                        \* fired but not forgotten
    NoSocket            \* no socket

ASSUME HookConstants ==
    /\ IsFiniteSet(Sockets) /\ Sockets # {}
    /\ NoSocket \notin Sockets
    /\ BaseBackoff \in Nat \ {0}
    /\ MaxBackoff \in Nat /\ BaseBackoff <= MaxBackoff
    /\ MaxNudges \in Nat

VARIABLES
    readyState,     \* of each socket; "dead" is OPEN with nothing behind it, "deferred"
                    \* CONNECTING with a close to follow
    socket,         \* the last one dialled
    retryTimer,     \* none, pending, or fired and not forgotten
    lostRetries,    \* pending retry timers that retryTimer no longer holds
    stableTimer,    \* the socket whose stable timer it holds
    stable,         \* the sockets with a pending stable timer
    watchdog,       \* the socket whose watchdog is pending
    backoff,
    status,
    isDisposed,
    nudges

retryVars == <<retryTimer, lostRetries, backoff>>
openVars == <<stableTimer, stable, watchdog, status>>
lifeVars == <<isDisposed, nudges>>
hookVars == <<readyState, socket, retryVars, openVars, lifeVars>>

ReadyStates == {"closed", "connecting", "deferred", "open", "dead", "closing"}
Busy(w) == readyState[w] # "closed"
Alive(w) == readyState[w] \in {"open", "dead"}

\* connect: the new WebSocket.
Connect ==
    \E w \in Sockets \ stable :
        /\ ~Busy(w)
        /\ readyState' = [readyState EXCEPT ![w] = "connecting"]
        /\ socket' = w

\* closeSocket: a socket that is still connecting is closed once it is open.
AfterClose(state) ==
    CASE state = "connecting" -> "deferred"
      [] state \in {"open", "dead"} -> "closing"
      [] OTHER -> state

HookInit ==
    /\ socket \in Sockets
    /\ readyState = [w \in Sockets |-> IF w = socket THEN "connecting" ELSE "closed"]
    /\ retryTimer = "none"
    /\ lostRetries = 0
    /\ stableTimer = NoSocket
    /\ stable = {}
    /\ watchdog = NoSocket
    /\ backoff = BaseBackoff
    /\ status = "connecting"
    /\ isDisposed = FALSE
    /\ nudges = 0

-----------------------------------------------------------------------------
(* Handlers of a socket *)

Open(w) ==
    /\ ~isDisposed
    /\ readyState[w] = "connecting"
    /\ readyState' = [readyState EXCEPT ![w] = "open"]
    /\ watchdog' = w
    /\ status' = "live"
    /\ stableTimer' = w
    /\ stable' = stable \cup {w}
    /\ UNCHANGED <<socket, retryVars, lifeVars>>

\* After the cleanup the handler does nothing but the close that was deferred.
OpenDisposed(w) ==
    /\ isDisposed
    /\ readyState[w] \in {"connecting", "deferred"}
    /\ readyState' = [readyState EXCEPT
                         ![w] = IF @ = "deferred" THEN "closing" ELSE "open"]
    /\ UNCHANGED <<socket, retryVars, openVars, lifeVars>>

\* Mutant: a frame does not arm the watchdog of its own socket again.
MessageDisarms(w) ==
    /\ ~isDisposed
    /\ readyState[w] = "open"
    /\ watchdog' = NoSocket
    /\ UNCHANGED <<readyState, socket, retryVars, stableTimer, stable, status, lifeVars>>

\* Any frame arms the watchdog again, for the socket it came from.
Message(w) ==
    /\ ~isDisposed
    /\ readyState[w] = "open"
    /\ watchdog' = w
    /\ UNCHANGED <<readyState, socket, retryVars, stableTimer, stable, status, lifeVars>>

\* The path to the server is gone, and the browser does not know.
Die(w) ==
    /\ readyState[w] = "open"
    /\ readyState' = [readyState EXCEPT ![w] = "dead"]
    /\ UNCHANGED <<socket, retryVars, openVars, lifeVars>>

\* Mutant: the pending stable timer is not cleared.
CloseEventKeepsStable(w) ==
    /\ readyState[w] \in ReadyStates \ {"closed", "dead"}
    /\ readyState' = [readyState EXCEPT ![w] = "closed"]
    /\ watchdog' = NoSocket
    /\ UNCHANGED <<stableTimer, stable>>
    /\ IF isDisposed
       THEN UNCHANGED <<status, retryTimer, lostRetries>>
       ELSE /\ status' = IF status = "connecting" THEN "connecting" ELSE "reconnecting"
            /\ retryTimer' = "pending"
            /\ lostRetries' = IF retryTimer = "pending" THEN lostRetries + 1 ELSE lostRetries
    /\ UNCHANGED <<socket, backoff, lifeVars>>

\* Mutant: the hook does not dial again when the first connection fails.
CloseEventGivesUp(w) ==
    /\ readyState[w] \in ReadyStates \ {"closed", "dead"}
    /\ readyState' = [readyState EXCEPT ![w] = "closed"]
    /\ stable' = stable \ {stableTimer}
    /\ stableTimer' = NoSocket
    /\ watchdog' = NoSocket
    /\ IF isDisposed \/ status = "connecting"
       THEN UNCHANGED <<status, retryTimer, lostRetries>>
       ELSE /\ status' = "reconnecting"
            /\ retryTimer' = "pending"
            /\ lostRetries' = IF retryTimer = "pending" THEN lostRetries + 1 ELSE lostRetries
    /\ UNCHANGED <<socket, backoff, lifeVars>>

\* The close event clears the timers, whichever socket they were set for, and starts the
\* wait for the next dial.
CloseEvent(w) ==
    /\ readyState[w] \in ReadyStates \ {"closed", "dead"}
    /\ readyState' = [readyState EXCEPT ![w] = "closed"]
    /\ stable' = stable \ {stableTimer}
    /\ stableTimer' = NoSocket
    /\ watchdog' = NoSocket
    /\ IF isDisposed
       THEN UNCHANGED <<status, retryTimer, lostRetries>>
       ELSE /\ status' = IF status = "connecting" THEN "connecting" ELSE "reconnecting"
            /\ retryTimer' = "pending"
            /\ lostRetries' = IF retryTimer = "pending" THEN lostRetries + 1 ELSE lostRetries
    /\ UNCHANGED <<socket, backoff, lifeVars>>

-----------------------------------------------------------------------------
(* Timers *)

Doubled == IF 2 * backoff < MaxBackoff THEN 2 * backoff ELSE MaxBackoff

\* The callback does not reset retryTimer.
RetryFires ==
    /\ retryTimer = "pending"
    /\ retryTimer' = "fired"
    /\ backoff' = Doubled
    /\ Connect
    /\ UNCHANGED <<lostRetries, openVars, lifeVars>>

LostRetryFires ==
    /\ lostRetries > 0
    /\ lostRetries' = lostRetries - 1
    /\ backoff' = Doubled
    /\ Connect
    /\ UNCHANGED <<retryTimer, openVars, lifeVars>>

StableFires(w) ==
    /\ w \in stable
    /\ backoff' = BaseBackoff
    /\ stable' = stable \ {w}
    /\ stableTimer' = IF stableTimer = w THEN NoSocket ELSE stableTimer
    /\ UNCHANGED <<readyState, socket, retryTimer, lostRetries, watchdog, status, lifeVars>>

\* Mutant: the watchdog only looks whether the socket it guards still connects.
WatchdogFiresInVain ==
    /\ watchdog # NoSocket
    /\ readyState' = [readyState EXCEPT
                         ![watchdog] = IF @ = "connecting" THEN "deferred" ELSE @]
    /\ watchdog' = NoSocket
    /\ UNCHANGED <<socket, retryVars, stableTimer, stable, status, lifeVars>>

WatchdogFires ==
    /\ watchdog # NoSocket
    /\ readyState' = [readyState EXCEPT ![watchdog] = AfterClose(@)]
    /\ watchdog' = NoSocket
    /\ UNCHANGED <<socket, retryVars, stableTimer, stable, status, lifeVars>>

-----------------------------------------------------------------------------
(* The window *)

\* retryNow does nothing while retryTimer is null; a timer that has fired is not null.
Nudge ==
    /\ retryTimer # "none"
    /\ nudges' = IF retryTimer = "fired" THEN nudges + 1 ELSE nudges
    /\ nudges' <= MaxNudges

\* Mutant: the pending timer is forgotten without being cleared.
RetryNowKeepsTimer ==
    /\ ~isDisposed
    /\ Nudge
    /\ lostRetries' = IF retryTimer = "pending" THEN lostRetries + 1 ELSE lostRetries
    /\ retryTimer' = "none"
    /\ Connect
    /\ UNCHANGED <<backoff, openVars, isDisposed>>

\* The browser is online or the tab visible again.
RetryNow ==
    /\ ~isDisposed
    /\ Nudge
    /\ retryTimer' = "none"
    /\ Connect
    /\ UNCHANGED <<lostRetries, backoff, openVars, isDisposed>>

\* Mutant: the cleanup forgets the pending retry.
DisposeKeepsRetry ==
    /\ ~isDisposed
    /\ isDisposed' = TRUE
    /\ stable' = stable \ {stableTimer}
    /\ stableTimer' = NoSocket
    /\ watchdog' = NoSocket
    /\ readyState' = [readyState EXCEPT ![socket] = AfterClose(@)]
    /\ UNCHANGED <<socket, retryTimer, lostRetries, backoff, status, nudges>>

\* The cleanup of the effect.
Dispose ==
    /\ ~isDisposed
    /\ isDisposed' = TRUE
    /\ retryTimer' = "none"
    /\ stable' = stable \ {stableTimer}
    /\ stableTimer' = NoSocket
    /\ watchdog' = NoSocket
    /\ readyState' = [readyState EXCEPT ![socket] = AfterClose(@)]
    /\ UNCHANGED <<socket, lostRetries, backoff, status, nudges>>

-----------------------------------------------------------------------------
Timers == RetryFires \/ LostRetryFires \/ WatchdogFires

HookNext ==
    \/ Timers
    \/ RetryNow
    \/ Dispose
    \/ \E w \in Sockets : \/ Open(w) \/ OpenDisposed(w) \/ Message(w) \/ Die(w)
                          \/ CloseEvent(w) \/ StableFires(w)

\* A timer fires in the end, and the browser answers a dial and a close in the end, with
\* either event.
HookFairness ==
    /\ WF_hookVars(RetryFires) /\ WF_hookVars(LostRetryFires) /\ WF_hookVars(WatchdogFires)
    /\ \A w \in Sockets :
          WF_hookVars(/\ readyState[w] \in {"connecting", "deferred", "closing"}
                      /\ Open(w) \/ OpenDisposed(w) \/ CloseEvent(w))

HookSpec == HookInit /\ [][HookNext]_hookVars
HookFairSpec == HookSpec /\ HookFairness

-----------------------------------------------------------------------------
(* Properties *)

\* Every variable has its type.
HookTypeOK ==
    /\ readyState \in [Sockets -> ReadyStates]
    /\ socket \in Sockets
    /\ retryTimer \in {"none", "pending", "fired"}
    /\ lostRetries \in Nat
    /\ stableTimer \in Sockets \cup {NoSocket}
    /\ stable \in SUBSET Sockets
    /\ watchdog \in Sockets \cup {NoSocket}
    /\ backoff \in BaseBackoff..MaxBackoff
    /\ status \in {"connecting", "live", "reconnecting"}
    /\ isDisposed \in BOOLEAN
    /\ nudges \in Nat

\* The hook never gives up: until its cleanup there is a socket, or a timer that dials
\* (use-web-sockets.ts:159-163).
NeverGivesUp ==
    ~isDisposed => retryTimer = "pending" \/ lostRetries > 0 \/ \E w \in Sockets : Busy(w)

\* There is one socket at most: two would feed one reducer (use-web-sockets.test.ts:393,
\* "ignores online events while connected").
OneSocket == \A v, w \in Sockets : Busy(v) /\ Busy(w) => v = w

\* A timer that is pending is one the hook can still clear, and belongs to the socket that
\* is up.  So the backoff is only reset by a connection that proves stable
\* (use-web-sockets.ts:104, "an accept-then-drop loop must keep growing the backoff").
TimersOfTheSocket ==
    /\ lostRetries = 0
    /\ \A w \in stable : w = stableTimer /\ (Alive(w) \/ readyState[w] = "closing")

\* An open socket is guarded, so that a half-dead one does not go unnoticed
\* (use-web-sockets.ts:24, "a half-dead connection never fires close on its own").
OpenIsGuarded == ~isDisposed => \A w \in Sockets : Alive(w) => watchdog = w

\* As long as no event finds a retry timer that has fired and was not forgotten, there is
\* one socket at a time, and the timers are its own.
OneAtATime == nudges = 0 => OneSocket /\ TimersOfTheSocket
GuardedUnlessNudged == nudges = 0 => OpenIsGuarded

\* Until then a half-dead socket is replaced in the end (use-web-sockets.ts:89-92, and
\* use-web-sockets.test.ts:249).
DeadIsReplaced ==
    \A w \in Sockets :
        nudges = 0 /\ readyState[w] = "dead"
            ~> nudges > 0 \/ isDisposed \/ readyState[socket] = "connecting"

\* Until then, and once the cleanup has run, every socket is closed in the end, and none
\* is dialled again (use-web-sockets.test.ts:297, 318, 334).
CleanupIsFinal == isDisposed /\ nudges = 0 ~> [](\A w \in Sockets : ~Busy(w))
=============================================================================
