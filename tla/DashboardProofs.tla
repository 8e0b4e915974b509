--------------------------- MODULE DashboardProofs ---------------------------
(***************************************************************************)
(* For any number of sockets and nudges: the hook never gives up, and it   *)
(* keeps one socket with timers of its own for as long as no event finds a *)
(* retry timer that has fired.  For any number of ranges and fetches: when *)
(* all is quiet, the statistics are those of the range the buttons show,   *)
(* and not from before a gap of the web socket.                            *)
(***************************************************************************)
EXTENDS Dashboard, TLAPS

(* The hook *)

\* Until such an event whatever is up is the last socket dialled, a retry is only pending
\* when nothing is up, and the timers that are pending are the socket's own.
Orderly ==
    nudges = 0 =>
        /\ \A w \in Sockets : Busy(w) => w = socket
        /\ lostRetries = 0
        /\ retryTimer = "pending" => \A w \in Sockets : ~Busy(w)
        /\ \A w \in stable : w = stableTimer /\ readyState[w] \in {"open", "dead", "closing"}
        /\ ~isDisposed => \A w \in Sockets : Alive(w) => watchdog = w

HookInv == HookTypeOK /\ Orderly /\ NeverGivesUp

-----------------------------------------------------------------------------
\* Closing a socket leaves it busy, and not alive.
LEMMA AfterCloseState ==
    ASSUME NEW state \in ReadyStates
    PROVE  /\ AfterClose(state) \in ReadyStates
           /\ AfterClose(state) = "closed" <=> state = "closed"
           /\ AfterClose(state) \notin {"open", "dead"}
           /\ state \in {"open", "dead", "closing"} => AfterClose(state) = "closing"
BY DEF AfterClose, ReadyStates

\* A dial makes the new socket busy and leaves the others alone.
LEMMA ConnectState ==
    ASSUME HookTypeOK, Connect
    PROVE  \E w \in Sockets \ stable :
              /\ socket' = w /\ ~Busy(w)
              /\ readyState' \in [Sockets -> ReadyStates]
              /\ readyState'[w] = "connecting"
              /\ \A v \in Sockets \ {w} : readyState'[v] = readyState[v]
<1>1. PICK w \in Sockets \ stable :
          ~Busy(w) /\ readyState' = [readyState EXCEPT ![w] = "connecting"] /\ socket' = w
  BY DEF Connect
<1> QED
  BY <1>1 DEF HookTypeOK, ReadyStates

\* Doubling stops at the longest backoff.
LEMMA DoubledIsBackoff ==
    ASSUME backoff \in BaseBackoff..MaxBackoff
    PROVE  Doubled \in BaseBackoff..MaxBackoff
BY HookConstants DEF Doubled

\* The hook begins with its first dial.
LEMMA HookInvInit == HookInit => HookInv
<1> SUFFICES ASSUME HookInit PROVE HookInv
  OBVIOUS
<1>1. HookTypeOK
  <2>1. isDisposed \in BOOLEAN
    BY DEF HookInit
  <2> QED
    BY <2>1, HookConstants DEF HookInit, HookTypeOK, ReadyStates
<1>2. Orderly
  BY DEF HookInit, Orderly, Busy, Alive
<1>3. NeverGivesUp
  BY DEF HookInit, NeverGivesUp, Busy
<1> QED
  BY <1>1, <1>2, <1>3 DEF HookInv

\* Every timer, event of a socket and nudge keeps the invariant.
LEMMA HookInvStep == HookInv /\ [HookNext]_hookVars => HookInv'
<1> SUFFICES ASSUME HookInv, [HookNext]_hookVars PROVE HookInv'
  OBVIOUS
<1> USE HookConstants DEF HookInv, retryVars, openVars, lifeVars
<1>1. CASE RetryFires \/ LostRetryFires \/ RetryNow
  <2>1. Connect
    BY <1>1 DEF RetryFires, LostRetryFires, RetryNow
  <2>2. PICK w \in Sockets \ stable :
            /\ socket' = w /\ ~Busy(w)
            /\ readyState' \in [Sockets -> ReadyStates]
            /\ readyState'[w] = "connecting"
            /\ \A v \in Sockets \ {w} : readyState'[v] = readyState[v]
    BY <2>1, ConnectState
  <2>3. HookTypeOK'
    <3>1. isDisposed' \in BOOLEAN
      BY <1>1 DEF HookTypeOK, RetryFires, LostRetryFires, RetryNow
    <3> QED
      BY <1>1, <2>2, <3>1, DoubledIsBackoff
         DEF HookTypeOK, RetryFires, LostRetryFires, RetryNow, Nudge
  <2>4. Orderly'
    <3> SUFFICES ASSUME nudges' = 0 PROVE Orderly'
      BY DEF Orderly
    <3>1. nudges = 0 /\ lostRetries = 0 /\ retryTimer = "pending"
      BY <1>1 DEF HookTypeOK, Orderly, RetryFires, LostRetryFires, RetryNow, Nudge
    <3>2. \A v \in Sockets : readyState[v] = "closed"
      BY <3>1 DEF Orderly, Busy
    <3>3. stable = {} /\ stable' = {}
      BY <1>1, <3>1, <3>2 DEF Orderly, HookTypeOK, RetryFires, LostRetryFires, RetryNow
    <3>4. lostRetries' = 0 /\ retryTimer' # "pending"
      BY <1>1, <3>1 DEF RetryFires, LostRetryFires, RetryNow
    <3> QED
      BY <2>2, <3>2, <3>3, <3>4 DEF Orderly, Busy, Alive
  <2>5. NeverGivesUp'
    BY <2>2 DEF NeverGivesUp, Busy
  <2> QED
    BY <2>3, <2>4, <2>5
<1>2. CASE WatchdogFires
  <2>1. \A w \in Sockets : /\ readyState'[w] \in ReadyStates
                           /\ readyState'[w] = "closed" <=> readyState[w] = "closed"
                           /\ readyState[w] \in {"open", "dead", "closing"}
                                => readyState'[w] \in {"open", "dead", "closing"}
                           /\ readyState'[w] \in {"open", "dead"}
                                => w # watchdog /\ readyState'[w] = readyState[w]
    BY <1>2, AfterCloseState DEF WatchdogFires, HookTypeOK, ReadyStates
  <2>2. HookTypeOK'
    BY <1>2, <2>1 DEF HookTypeOK, WatchdogFires
  <2>3. Orderly'
    BY <1>2, <2>1 DEF Orderly, HookTypeOK, WatchdogFires, Busy, Alive
  <2>4. NeverGivesUp'
    BY <1>2, <2>1 DEF NeverGivesUp, WatchdogFires, Busy
  <2> QED
    BY <2>2, <2>3, <2>4
<1>3. CASE Dispose
  <2>1. \A w \in Sockets : /\ readyState'[w] \in ReadyStates
                           /\ readyState'[w] = "closed" <=> readyState[w] = "closed"
                           /\ readyState[w] \in {"open", "dead", "closing"}
                                => readyState'[w] \in {"open", "dead", "closing"}
    BY <1>3, AfterCloseState DEF Dispose, HookTypeOK, ReadyStates
  <2>2. HookTypeOK'
    <3>1. isDisposed' \in BOOLEAN
      BY <1>3 DEF Dispose
    <3> QED
      BY <1>3, <2>1, <3>1 DEF HookTypeOK, Dispose
  <2>3. Orderly'
    BY <1>3, <2>1 DEF Orderly, HookTypeOK, Dispose, Busy
  <2>4. NeverGivesUp'
    BY <1>3 DEF NeverGivesUp, Dispose
  <2> QED
    BY <2>2, <2>3, <2>4
<1>4. ASSUME NEW w \in Sockets, Open(w) \/ OpenDisposed(w) PROVE HookInv'
  <2>1. HookTypeOK'
    BY <1>4 DEF HookTypeOK, Open, OpenDisposed, ReadyStates
  <2>2. Orderly'
    BY <1>4 DEF Orderly, HookTypeOK, Open, OpenDisposed, Busy, Alive
  <2>3. NeverGivesUp'
    BY <1>4 DEF NeverGivesUp, HookTypeOK, Open, OpenDisposed, Busy
  <2> QED
    BY <2>1, <2>2, <2>3
<1>5. ASSUME NEW w \in Sockets, Message(w) \/ Die(w) PROVE HookInv'
  <2>1. HookTypeOK'
    BY <1>5 DEF HookTypeOK, Message, Die, ReadyStates
  <2>2. Orderly'
    BY <1>5 DEF Orderly, HookTypeOK, Message, Die, Busy, Alive
  <2>3. NeverGivesUp'
    BY <1>5 DEF NeverGivesUp, HookTypeOK, Message, Die, Busy
  <2> QED
    BY <2>1, <2>2, <2>3
<1>6. ASSUME NEW w \in Sockets, CloseEvent(w) PROVE HookInv'
  <2>1. HookTypeOK'
    BY <1>6 DEF HookTypeOK, CloseEvent, ReadyStates
  <2>2. Orderly'
    <3> SUFFICES ASSUME nudges' = 0 PROVE Orderly'
      BY DEF Orderly
    <3>1. nudges = 0 /\ socket' = socket /\ Busy(w)
      BY <1>6 DEF CloseEvent, Busy
    <3>2. w = socket /\ retryTimer # "pending" /\ lostRetries = 0
      BY <3>1 DEF Orderly
    <3>3. \A v \in Sockets : readyState'[v] = "closed"
      BY <1>6, <3>1, <3>2 DEF Orderly, HookTypeOK, CloseEvent, Busy
    <3>4. stable' = {}
      BY <1>6, <3>1 DEF Orderly, CloseEvent
    <3>5. lostRetries' = 0
      BY <1>6, <3>2 DEF CloseEvent
    <3> QED
      BY <3>3, <3>4, <3>5 DEF Orderly, Busy, Alive
  <2>3. NeverGivesUp'
    BY <1>6 DEF NeverGivesUp, HookTypeOK, CloseEvent, Busy
  <2> QED
    BY <2>1, <2>2, <2>3
<1>7. ASSUME NEW w \in Sockets, StableFires(w) PROVE HookInv'
  <2>1. HookTypeOK'
    BY <1>7 DEF HookTypeOK, StableFires
  <2>2. Orderly'
    BY <1>7 DEF Orderly, HookTypeOK, StableFires, Busy, Alive
  <2>3. NeverGivesUp'
    BY <1>7 DEF NeverGivesUp, StableFires, Busy
  <2> QED
    BY <2>1, <2>2, <2>3
<1>8. CASE UNCHANGED hookVars
  BY <1>8 DEF hookVars, HookTypeOK, Orderly, NeverGivesUp, Busy, Alive
<1> QED
  BY <1>1, <1>2, <1>3, <1>4, <1>5, <1>6, <1>7, <1>8 DEF HookNext, Timers

\* The invariant of the hook, types included, holds in every reachable state.
THEOREM HookInvHolds == HookSpec => []HookInv
<1> QED
  BY HookInvInit, HookInvStep, PTL DEF HookSpec

\* Until the cleanup there is a socket, or a timer that dials.
THEOREM HookNeverGivesUp == HookSpec => []NeverGivesUp
<1>1. HookInv => NeverGivesUp
  BY DEF HookInv
<1> QED
  BY <1>1, HookInvHolds, PTL

\* There is one socket at a time, and the pending timers are its own.
THEOREM SocketsNeverOverlap == HookSpec => []OneAtATime
<1>1. HookInv => OneAtATime
  BY DEF HookInv, HookTypeOK, Orderly, OneAtATime, OneSocket, TimersOfTheSocket, Alive
<1> QED
  BY <1>1, HookInvHolds, PTL

\* An open socket has its watchdog, so that a half-dead one is noticed.
THEOREM OpenSocketsAreGuarded == HookSpec => []GuardedUnlessNudged
<1>1. HookInv => GuardedUnlessNudged
  BY DEF HookInv, Orderly, GuardedUnlessNudged, OpenIsGuarded
<1> QED
  BY <1>1, HookInvHolds, PTL

-----------------------------------------------------------------------------
(* The statistics *)
Phase(f) == fetch[f].phase

\* Only the newest fetch may still deliver, and it fetches the range its effect was bound to.
NewestDelivers ==
    /\ \A f \in Controllers : Phase(f) = "waiting" => f = current
    /\ Phase(current) # "aborted"
    /\ Phase(current) = "waiting" => fetch[current].data.range = bound

\* What claims to be under way is: the newest fetch, or the one that the button began.
FlagsAreTrue ==
    /\ isLoading /\ bound = selected => Phase(current) # "idle"
    /\ isRefreshing => \E f \in Controllers : Phase(f) # "idle" /\ fetch[f].refresh

\* The outcome of the newest fetch stays.
OutcomeStays == Phase(current) = "idle" => hasError \/ shown.range = bound

\* While the socket is live, and known to be, the newest fetch has begun after the gap.
FreshWhileLive ==
    status = "live" /\ isLive =>
        /\ Phase(current) = "waiting" => fetch[current].data.fresh
        /\ Phase(current) = "idle" => hasError \/ shown.fresh

DashboardInv ==
    /\ SelectorTypeOK
    /\ NewestDelivers /\ FlagsAreTrue /\ OutcomeStays
    /\ FreshWhileLive

-----------------------------------------------------------------------------
(* The fetches *)

\* The first render begins the one fetch that is under way.
LEMMA DashboardInvInit == DashboardInit => DashboardInv
<1> SUFFICES ASSUME SelectorInit PROVE DashboardInv
  BY DEF DashboardInit
<1>1. /\ current \in Controllers /\ DefaultRange \in Ranges
      /\ Begun(DefaultRange, FALSE) \in Fetch /\ Idle \in Fetch /\ NoData \in Data
  BY SelectorConstants DEF SelectorInit, Begun, Idle, NoData, Fetch, Data
<1>2. SelectorTypeOK
  <2>1. {isLoading, hasError, isRefreshing, autoRefresh, isLive} \subseteq BOOLEAN
    BY DEF SelectorInit
  <2> QED
    BY <1>1, <2>1 DEF SelectorInit, SelectorTypeOK
<1>3. \A f \in Controllers : IF f = current THEN fetch[f] = Begun(DefaultRange, FALSE)
                             ELSE fetch[f] = Idle
  BY DEF SelectorInit
<1>4. NewestDelivers /\ FlagsAreTrue /\ OutcomeStays /\ FreshWhileLive
  BY <1>1, <1>3 DEF SelectorInit, NewestDelivers, FlagsAreTrue, OutcomeStays, FreshWhileLive,
                    Phase, Begun, Idle
<1> QED
  BY <1>2, <1>4 DEF DashboardInv

\* What doFetch leaves: one waiting fetch, of the range, and every other one as it was or
\* aborted.
LEMMA FetchBegins ==
    ASSUME SelectorTypeOK, NewestDelivers,
           NEW range \in Ranges, NEW f \in Controllers, NEW refresh \in BOOLEAN,
           DoFetch(range, f, refresh)
    PROVE  /\ current' = f /\ Phase(f) = "idle"
           /\ fetch' \in [Controllers -> Fetch]
           /\ fetch'[f] = Begun(range, refresh)
           /\ \A g \in Controllers \ {f} :
                 /\ fetch'[g].phase # "waiting"
                 /\ fetch'[g].phase = "idle" <=> fetch[g].phase = "idle"
                 /\ fetch'[g].refresh = fetch[g].refresh
<1>1. Begun(range, refresh) \in Fetch
  BY DEF Begun, Fetch, Data
<1>2. \A g \in Controllers : fetch[g] \in Fetch
  BY DEF SelectorTypeOK
<1>3. \A x \in Fetch : /\ [x EXCEPT !.phase = "aborted"] \in Fetch
                       /\ [x EXCEPT !.phase = "aborted"].phase = "aborted"
                       /\ [x EXCEPT !.phase = "aborted"].refresh = x.refresh
  BY DEF Fetch
<1>4. ASSUME NEW g \in Controllers \ {f}
      PROVE  IF g = current /\ fetch[g].phase = "waiting"
             THEN fetch'[g] = [fetch[g] EXCEPT !.phase = "aborted"]
             ELSE fetch'[g] = fetch[g]
  BY DEF DoFetch
<1>5. fetch'[f] = Begun(range, refresh) /\ current' = f /\ Phase(f) = "idle"
  BY DEF DoFetch, Phase
<1>6. ASSUME NEW g \in Controllers \ {f}
      PROVE  /\ fetch'[g] \in Fetch
             /\ fetch'[g].phase # "waiting"
             /\ fetch'[g].phase = "idle" <=> fetch[g].phase = "idle"
             /\ fetch'[g].refresh = fetch[g].refresh
  <2>1. CASE g = current /\ fetch[g].phase = "waiting"
    BY <1>2, <1>3, <1>4, <2>1
  <2>2. CASE ~(g = current /\ fetch[g].phase = "waiting")
    BY <1>2, <1>4, <2>2 DEF NewestDelivers, Phase
  <2> QED
    BY <2>1, <2>2
<1>7. fetch' \in [Controllers -> Fetch]
  <2>1. fetch' = [g \in Controllers |-> fetch'[g]]
    BY DEF DoFetch
  <2>2. \A g \in Controllers : fetch'[g] \in Fetch
    BY <1>1, <1>5, <1>6
  <2> QED
    BY <2>1, <2>2
<1> QED
  BY <1>5, <1>6, <1>7

\* Every step that begins a fetch of the range its handler is bound to, in whatever it
\* does to the flags besides.
LEMMA BeginStep ==
    ASSUME DashboardInv, NEW f \in Controllers, NEW refresh \in BOOLEAN,
           DoFetch(bound', f, refresh), bound' \in Ranges, selected' = selected,
           UNCHANGED <<isLoading, hasError, autoRefresh, shown>>, isLive' \in BOOLEAN,
           isRefreshing' = isRefreshing \/ (isRefreshing' = TRUE /\ refresh)
    PROVE  DashboardInv'
<1> USE DEF DashboardInv
<1>1. /\ current' = f /\ Phase(f) = "idle"
      /\ fetch' \in [Controllers -> Fetch]
      /\ fetch'[f] = Begun(bound', refresh)
      /\ \A g \in Controllers \ {f} :
            /\ fetch'[g].phase # "waiting"
            /\ fetch'[g].phase = "idle" <=> fetch[g].phase = "idle"
            /\ fetch'[g].refresh = fetch[g].refresh
  BY FetchBegins
<1>2. /\ fetch'[f].phase = "waiting" /\ fetch'[f].refresh = refresh
      /\ fetch'[f].data.range = bound' /\ fetch'[f].data.fresh = TRUE
  BY <1>1 DEF Begun
<1>3. isRefreshing' \in BOOLEAN
  BY DEF SelectorTypeOK
<1>4. SelectorTypeOK'
  BY <1>1, <1>3 DEF SelectorTypeOK
<1>5. NewestDelivers'
  BY <1>1, <1>2 DEF NewestDelivers, Phase
<1>6. FlagsAreTrue'
  <2>1. Phase(current)' # "idle"
    BY <1>1, <1>2 DEF Phase
  <2>2. ASSUME isRefreshing'
        PROVE  \E g \in Controllers : fetch'[g].phase # "idle" /\ fetch'[g].refresh
    <3>1. CASE isRefreshing
      <4>1. PICK g \in Controllers : Phase(g) # "idle" /\ fetch[g].refresh
        BY <3>1 DEF FlagsAreTrue
      <4> QED
        BY <1>1, <4>1 DEF Phase
    <3>2. CASE ~isRefreshing
      BY <1>2, <2>2, <3>2
    <3> QED
      BY <3>1, <3>2
  <2> QED
    BY <2>1, <2>2 DEF FlagsAreTrue, Phase
<1>7. OutcomeStays' /\ FreshWhileLive'
  BY <1>1, <1>2 DEF OutcomeStays, FreshWhileLive, Phase
<1> QED
  BY <1>4, <1>5, <1>6, <1>7

\* Every way a fetch ends: with data, with an error, or aborted.
LEMMA EndStep ==
    ASSUME DashboardInv, NEW f \in Controllers, Deliver(f) \/ Fail(f) \/ Aborted(f),
           UNCHANGED status
    PROVE  DashboardInv'
<1> USE DEF DashboardInv
<1>1. /\ Phase(f) \in {"waiting", "aborted"}
      /\ fetch' = [fetch EXCEPT ![f] = Idle]
      /\ isRefreshing' = (isRefreshing /\ ~fetch[f].refresh)
      /\ isLoading' = (isLoading /\ f # current)
      /\ UNCHANGED <<selected, bound, autoRefresh, current, isLive>>
  BY DEF Deliver, Fail, Aborted, Ended, Phase
<1>2. /\ fetch'[f].phase = "idle" /\ \A g \in Controllers \ {f} : fetch'[g] = fetch[g]
      /\ fetch' \in [Controllers -> Fetch]
  BY <1>1 DEF SelectorTypeOK, Idle, NoData, Fetch, Data
<1>3. fetch[f].data \in Data /\ shown' \in Data
  BY <1>1 DEF SelectorTypeOK, Fetch, Deliver, Fail, Aborted
<1>4. hasError' \in BOOLEAN /\ isLoading' \in BOOLEAN /\ isRefreshing' \in BOOLEAN
  BY <1>1 DEF SelectorTypeOK, Deliver, Fail, Aborted
<1>5. SelectorTypeOK'
  BY <1>1, <1>2, <1>3, <1>4 DEF SelectorTypeOK
<1>6. NewestDelivers'
  BY <1>1, <1>2 DEF NewestDelivers, Phase, SelectorTypeOK
<1>7. FlagsAreTrue'
  <2>1. ASSUME isLoading', bound' = selected' PROVE Phase(current)' # "idle"
    BY <1>1, <1>2, <2>1 DEF FlagsAreTrue, Phase, SelectorTypeOK
  <2>2. ASSUME isRefreshing'
        PROVE  \E g \in Controllers : fetch'[g].phase # "idle" /\ fetch'[g].refresh
    <3>1. PICK g \in Controllers : Phase(g) # "idle" /\ fetch[g].refresh
      BY <1>1, <2>2 DEF FlagsAreTrue
    <3>2. g # f
      BY <1>1, <2>2, <3>1
    <3> QED
      BY <1>2, <3>1, <3>2 DEF Phase
  <2> QED
    BY <2>1, <2>2 DEF FlagsAreTrue, Phase
<1>8. OutcomeStays' /\ FreshWhileLive'
  <2>1. CASE Deliver(f)
    <3>1. f = current /\ shown' = fetch[f].data /\ hasError' = FALSE
      BY <2>1 DEF Deliver, NewestDelivers, Phase
    <3> QED
      BY <1>1, <1>2, <2>1, <3>1 DEF Deliver, NewestDelivers, OutcomeStays, FreshWhileLive, Phase
  <2>2. CASE Fail(f)
    <3>1. f = current /\ hasError' = TRUE
      BY <2>2 DEF Fail, NewestDelivers, Phase
    <3> QED
      BY <1>1, <1>2, <3>1 DEF OutcomeStays, FreshWhileLive, Phase
  <2>3. CASE Aborted(f)
    <3>1. f # current /\ UNCHANGED <<hasError, shown>>
      BY <2>3 DEF Aborted, NewestDelivers, Phase
    <3> QED
      BY <1>1, <1>2, <3>1 DEF OutcomeStays, FreshWhileLive, Phase, SelectorTypeOK
  <2> QED
    BY <2>1, <2>2, <2>3
<1> QED
  BY <1>5, <1>6, <1>7, <1>8

-----------------------------------------------------------------------------
(* The dashboard *)

\* The hook sets its status to live in Open alone.
LEMMA HookStepStatus ==
    ASSUME HookStep
    PROVE  (status' = "live" => status = "live") /\ UNCHANGED selectorVars
<1>1. CASE Timers \/ RetryNow
  BY <1>1 DEF HookStep, Timers, RetryFires, LostRetryFires, WatchdogFires, RetryNow, openVars
<1>2. CASE \E w \in Sockets : Message(w) \/ Die(w) \/ CloseEvent(w) \/ StableFires(w)
  BY <1>2 DEF HookStep, Message, Die, CloseEvent, StableFires, openVars
<1> QED
  BY <1>1, <1>2 DEF HookStep

\* A socket that opens after a gap dates everything that was fetched before.
LEMMA OpensStep ==
    ASSUME DashboardInv, NEW w \in Sockets, Opens(w) PROVE DashboardInv'
<1> USE DEF DashboardInv
<1>1. UNCHANGED <<selected, bound, isLoading, hasError, isRefreshing, autoRefresh, current,
                  isLive>>
  BY DEF Opens, flagVars
<1>2. CASE status = "live"
  <2>1. UNCHANGED <<fetch, shown>>
    BY <1>2 DEF Opens
  <2> QED
    BY <1>1, <1>2, <2>1 DEF SelectorTypeOK, NewestDelivers, FlagsAreTrue, OutcomeStays,
                            FreshWhileLive, Phase
<1>3. CASE status # "live"
  <2>1. /\ ~isLive
        /\ fetch' = [f \in Controllers |-> [fetch[f] EXCEPT !.data = Outdated(@)]]
        /\ shown' = Outdated(shown)
    BY <1>3 DEF Opens, SelectorTypeOK
  <2>2. \A d \in Data : Outdated(d) \in Data /\ Outdated(d).range = d.range
    BY DEF Outdated, Data
  <2>3. \A x \in Fetch : LET y == [x EXCEPT !.data = Outdated(@)]
                         IN y \in Fetch /\ y.phase = x.phase /\ y.refresh = x.refresh
                                        /\ y.data.range = x.data.range
    BY <2>2 DEF Fetch
  <2>4. /\ fetch' \in [Controllers -> Fetch] /\ shown' \in Data
        /\ shown'.range = shown.range
        /\ \A f \in Controllers : /\ fetch'[f].phase = fetch[f].phase
                                  /\ fetch'[f].refresh = fetch[f].refresh
                                  /\ fetch'[f].data.range = fetch[f].data.range
    BY <2>1, <2>2, <2>3 DEF SelectorTypeOK
  <2>5. SelectorTypeOK' /\ FreshWhileLive'
    BY <1>1, <2>1, <2>4 DEF SelectorTypeOK, FreshWhileLive
  <2>6. NewestDelivers' /\ FlagsAreTrue' /\ OutcomeStays'
    BY <1>1, <2>4 DEF NewestDelivers, FlagsAreTrue, OutcomeStays, Phase, SelectorTypeOK
  <2> QED
    BY <2>5, <2>6
<1> QED
  BY <1>2, <1>3

\* Every step of the hook, of the selector and of React keeps the invariant.
LEMMA DashboardInvStep == DashboardInv /\ [DashboardNext]_dashboardVars => DashboardInv'
<1> SUFFICES ASSUME DashboardInv, [DashboardNext]_dashboardVars PROVE DashboardInv'
  OBVIOUS
<1>0. /\ selected \in Ranges /\ bound \in Ranges /\ isLive \in BOOLEAN
      /\ isRefreshing \in BOOLEAN /\ autoRefresh \in BOOLEAN
  BY DEF DashboardInv, SelectorTypeOK
<1>1. CASE HookStep
  BY <1>1, HookStepStatus DEF selectorVars, flagVars, DashboardInv, SelectorTypeOK,
     NewestDelivers, FlagsAreTrue, OutcomeStays, FreshWhileLive, Phase
<1>2. CASE SelectorStep /\ UNCHANGED hookVars
  <2>1. status' = status
    BY <1>2 DEF hookVars, openVars
  <2>2. ASSUME NEW r \in Ranges, Select(r) PROVE DashboardInv'
    BY <2>1, <2>2 DEF Select, DashboardInv, SelectorTypeOK, NewestDelivers, FlagsAreTrue,
                      OutcomeStays, FreshWhileLive, Phase
  <2>3. CASE ToggleAutoRefresh
    BY <2>1, <2>3 DEF ToggleAutoRefresh, flagVars, DashboardInv, SelectorTypeOK,
                      NewestDelivers, FlagsAreTrue, OutcomeStays, FreshWhileLive, Phase
  <2>4. ASSUME NEW f \in Controllers, SelectedEffect(f) \/ Refresh(f) \/ IntervalTick(f)
        PROVE  DashboardInv'
    <3>1. PICK refresh \in BOOLEAN :
              /\ DoFetch(bound', f, refresh)
              /\ isRefreshing' = isRefreshing \/ (isRefreshing' = TRUE /\ refresh)
      BY <2>4 DEF SelectedEffect, Refresh, IntervalTick, flagVars
    <3>2. /\ bound' \in Ranges /\ selected' = selected /\ isLive' \in BOOLEAN
          /\ UNCHANGED <<isLoading, hasError, autoRefresh, shown>>
      BY <1>0, <2>4 DEF SelectedEffect, Refresh, IntervalTick, flagVars
    <3> QED
      BY <3>1, <3>2, BeginStep
  <2>5. ASSUME NEW f \in Controllers, Deliver(f) \/ Fail(f) \/ Aborted(f)
        PROVE  DashboardInv'
    BY <2>1, <2>5, EndStep
  <2> QED
    BY <1>2, <2>2, <2>3, <2>4, <2>5 DEF SelectorStep
<1>3. ASSUME NEW w \in Sockets, Opens(w) PROVE DashboardInv'
  BY <1>3, OpensStep
<1>4. ASSUME NEW f \in Controllers, Render(f) PROVE DashboardInv'
  <2>1. CASE status = "live"
    BY <1>0, <1>4, <2>1, BeginStep DEF Render, LiveEffect, flagVars
  <2>2. CASE status # "live"
    <3>1. /\ isLive' = FALSE
          /\ UNCHANGED <<selected, bound, isLoading, hasError, isRefreshing, autoRefresh,
                         current, fetch, shown>>
      BY <1>4, <2>2 DEF Render, LiveEffect, flagVars
    <3> QED
      BY <3>1 DEF DashboardInv, SelectorTypeOK, NewestDelivers, FlagsAreTrue, OutcomeStays,
                  FreshWhileLive, Phase
  <2> QED
    BY <2>1, <2>2
<1>5. ASSUME NEW f \in Controllers, BecomeVisible(f) PROVE DashboardInv'
  BY <1>0, <1>5, BeginStep DEF BecomeVisible, RefetchWhenVisible, flagVars
<1>6. CASE UNCHANGED dashboardVars
  BY <1>6 DEF dashboardVars, hookVars, openVars, selectorVars, flagVars, DashboardInv,
     SelectorTypeOK, NewestDelivers, FlagsAreTrue, OutcomeStays, FreshWhileLive, Phase
<1> QED
  BY <1>1, <1>2, <1>3, <1>4, <1>5, <1>6 DEF DashboardNext

\* The invariant of the dashboard, types included, holds in every reachable state.
THEOREM DashboardInvHolds == DashboardSpec => []DashboardInv
<1> QED
  BY DashboardInvInit, DashboardInvStep, PTL DEF DashboardSpec

\* When all is quiet, nothing claims to be loading, and what is shown is of the range the
\* buttons show, or an error says that it is not.
THEOREM ShownIsSelected == DashboardSpec => []SettledShowsSelected
<1>1. DashboardInv => SettledShowsSelected
  BY DEF DashboardInv, SelectorTypeOK, FlagsAreTrue, OutcomeStays, SettledShowsSelected,
         Settled, Phase
<1> QED
  BY <1>1, DashboardInvHolds, PTL

\* And once the web socket is back it is not from before the gap.
THEOREM ShownIsFresh == DashboardSpec => []RecoveredIsFresh
<1>1. DashboardInv => RecoveredIsFresh
  BY DEF DashboardInv, SelectorTypeOK, FreshWhileLive, RecoveredIsFresh, Settled, Phase
<1> QED
  BY <1>1, DashboardInvHolds, PTL

-----------------------------------------------------------------------------
(* The hook within the dashboard *)

\* The dashboard runs the hook unchanged, so that what is proved of the hook holds of it.
THEOREM HookWithinDashboard == DashboardSpec => HookSpec /\ []NeverGivesUp
<1>1. DashboardInit => HookInit
  BY DEF DashboardInit
<1>2. [DashboardNext]_dashboardVars => [HookNext]_hookVars
  <2> SUFFICES ASSUME [DashboardNext]_dashboardVars PROVE [HookNext]_hookVars
    OBVIOUS
  <2>1. CASE HookStep
    BY <2>1 DEF HookStep, HookNext
  <2>2. ASSUME NEW w \in Sockets, Opens(w) PROVE HookNext
    BY <2>2 DEF Opens, HookNext
  <2>3. ASSUME NEW f \in Controllers, BecomeVisible(f) PROVE [HookNext]_hookVars
    BY <2>3 DEF BecomeVisible, HookNext
  <2>4. ASSUME NEW f \in Controllers, Render(f) PROVE UNCHANGED hookVars
    BY <2>4 DEF Render
  <2>5. CASE UNCHANGED dashboardVars
    BY <2>5 DEF dashboardVars
  <2> QED
    BY <2>1, <2>2, <2>3, <2>4, <2>5 DEF DashboardNext
<1>3. DashboardSpec => HookSpec
  BY <1>1, <1>2, PTL DEF DashboardSpec, HookSpec
<1> QED
  BY <1>3, HookNeverGivesUp, PTL
=============================================================================
