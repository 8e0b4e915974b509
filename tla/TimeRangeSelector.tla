-------------------------- MODULE TimeRangeSelector --------------------------
(***************************************************************************)
(* The component that fetches the statistics: a fetch starts when a range  *)
(* is chosen, on a button, on a timer, when the tab becomes visible and    *)
(* when the web socket recovers, and each one aborts the one before.  An   *)
(* abort rejects whatever the fetch awaits; an answer and the code after   *)
(* its await are one step, as the browser runs nothing in between.         *)
(*                                                                         *)
(* A fetch is known by its AbortController; a controller of a finished     *)
(* fetch serves again as the name of a later one.                          *)
(***************************************************************************)
EXTENDS Integers, FiniteSets

CONSTANTS
    Ranges,         \* time ranges to choose from
    DefaultRange,   \* the range of the first fetch ("24h")
    Controllers,    \* names of AbortControllers
    NoRange         \* no data yet

ASSUME SelectorConstants ==
    /\ DefaultRange \in Ranges
    /\ IsFiniteSet(Controllers) /\ Controllers # {}
    /\ NoRange \notin Ranges

VARIABLES
    selected,       \* the range chosen
    bound,          \* the range the effects and handlers were last bound to
    isLoading, hasError, isRefreshing,
    autoRefresh,    \* whether refreshSeconds is set
    current,        \* abortReference
    fetch,          \* each controller's fetch
    shown,          \* what onData was last called with
    isLive          \* the property isLive, as rendered

flagVars == <<isLoading, hasError, isRefreshing>>
selectorVars == <<selected, bound, flagVars, autoRefresh, current, fetch, shown, isLive>>

\* fresh: begun since the web socket was last down.
Data == [range : Ranges \cup {NoRange}, fresh : BOOLEAN]
Fetch == [phase : {"idle", "waiting", "aborted"}, data : Data, refresh : BOOLEAN]

NoData == [range |-> NoRange, fresh |-> FALSE]
Idle == [phase |-> "idle", data |-> NoData, refresh |-> FALSE]
Begun(range, refresh) ==
    [phase |-> "waiting", data |-> [range |-> range, fresh |-> TRUE], refresh |-> refresh]

\* Mutant: the fetch before is not aborted.
DoFetchBeside(range, f, refresh) ==
    /\ fetch[f].phase = "idle"
    /\ current' = f
    /\ fetch' = [fetch EXCEPT ![f] = Begun(range, refresh)]

\* doFetch: abort the fetch before, and begin one.
DoFetch(range, f, refresh) ==
    /\ fetch[f].phase = "idle"
    /\ current' = f
    /\ fetch' = [g \in Controllers |->
                    IF g = f THEN Begun(range, refresh)
                    ELSE IF g = current /\ fetch[g].phase = "waiting"
                         THEN [fetch[g] EXCEPT !.phase = "aborted"]
                         ELSE fetch[g]]

\* The first render: its effects have run, the first fetch is on its way.
SelectorInit ==
    /\ selected = DefaultRange
    /\ bound = DefaultRange
    /\ isLoading = TRUE
    /\ hasError = FALSE
    /\ isRefreshing = FALSE
    /\ autoRefresh = FALSE
    /\ current \in Controllers
    /\ fetch = [f \in Controllers |-> IF f = current THEN Begun(DefaultRange, FALSE) ELSE Idle]
    /\ shown = NoData
    /\ isLive = FALSE

-----------------------------------------------------------------------------
(* What starts a fetch *)

\* handleChange: the range is compared with the one the handler was rendered with.
Select(r) ==
    /\ r # bound
    /\ selected' = r
    /\ isLoading' = TRUE
    /\ UNCHANGED <<bound, hasError, isRefreshing, autoRefresh, current, fetch, shown, isLive>>

\* The effects of the render with the new range; until then every handler has the old one.
SelectedEffect(f) ==
    /\ bound # selected
    /\ bound' = selected
    /\ DoFetch(selected, f, FALSE)
    /\ UNCHANGED <<selected, flagVars, autoRefresh, shown, isLive>>

\* The button, and the one that offers to retry after an error.
Refresh(f) ==
    /\ ~isRefreshing \/ (hasError /\ ~isLoading)
    /\ isRefreshing' = TRUE
    /\ DoFetch(bound, f, TRUE)
    /\ UNCHANGED <<selected, bound, isLoading, hasError, autoRefresh, shown, isLive>>

ToggleAutoRefresh ==
    /\ autoRefresh' = ~autoRefresh
    /\ UNCHANGED <<selected, bound, flagVars, current, fetch, shown, isLive>>

IntervalTick(f) ==
    /\ autoRefresh
    /\ DoFetch(bound, f, FALSE)
    /\ UNCHANGED <<selected, bound, flagVars, autoRefresh, shown, isLive>>

RefetchWhenVisible(f) ==
    /\ DoFetch(bound, f, FALSE)
    /\ UNCHANGED <<selected, bound, flagVars, autoRefresh, shown, isLive>>

\* Mutant: the recovery of the socket is not noticed.
LiveEffectIgnored(live, f) ==
    /\ live # isLive
    /\ isLive' = live
    /\ f = current
    /\ UNCHANGED <<current, fetch>>
    /\ UNCHANGED <<selected, bound, flagVars, autoRefresh, shown>>

\* The effects of a render with another isLive: the statistics are fetched again when the
\* web socket has recovered.
LiveEffect(live, f) ==
    /\ live # isLive
    /\ isLive' = live
    /\ IF live THEN DoFetch(bound, f, FALSE) ELSE f = current /\ UNCHANGED <<current, fetch>>
    /\ UNCHANGED <<selected, bound, flagVars, autoRefresh, shown>>

-----------------------------------------------------------------------------
(* How a fetch ends *)

\* refresh waits for its own fetch, aborted or not.
Ended(f) ==
    /\ fetch' = [fetch EXCEPT ![f] = Idle]
    /\ isRefreshing' = (isRefreshing /\ ~fetch[f].refresh)

\* The data is shown; the flags belong to the newest fetch.
Deliver(f) ==
    /\ fetch[f].phase = "waiting"
    /\ Ended(f)
    /\ shown' = fetch[f].data
    /\ isLoading' = (isLoading /\ f # current)
    /\ hasError' = (hasError /\ f # current)
    /\ UNCHANGED <<selected, bound, autoRefresh, current, isLive>>

Fail(f) ==
    /\ fetch[f].phase = "waiting"
    /\ Ended(f)
    /\ isLoading' = (isLoading /\ f # current)
    /\ hasError' = (hasError \/ f = current)
    /\ UNCHANGED <<selected, bound, autoRefresh, current, shown, isLive>>

\* An AbortError: the catch returns, the finally finds a newer controller.
Aborted(f) ==
    /\ fetch[f].phase = "aborted"
    /\ Ended(f)
    /\ isLoading' = (isLoading /\ f # current)
    /\ UNCHANGED <<selected, bound, hasError, autoRefresh, current, shown, isLive>>

-----------------------------------------------------------------------------
\* All steps but those that depend on the web socket and on the tab.
SelectorStep ==
    \/ \E r \in Ranges : Select(r)
    \/ ToggleAutoRefresh
    \/ \E f \in Controllers : \/ SelectedEffect(f) \/ Refresh(f) \/ IntervalTick(f)
                              \/ Deliver(f) \/ Fail(f) \/ Aborted(f)

-----------------------------------------------------------------------------
(* Properties *)

SelectorTypeOK ==
    /\ {selected, bound} \subseteq Ranges
    /\ {isLoading, hasError, isRefreshing, autoRefresh, isLive} \subseteq BOOLEAN
    /\ current \in Controllers
    /\ fetch \in [Controllers -> Fetch]
    /\ shown \in Data

Settled == bound = selected /\ \A f \in Controllers : fetch[f].phase = "idle"

\* When all is quiet nothing claims to be loading, and the data is that of the range the
\* buttons show, or an error says that it is not: however fetches overtook one another
\* (time-range-selector.tsx:120, "only the newest fetch owns the loading state").
SettledShowsSelected ==
    Settled => ~isLoading /\ ~isRefreshing /\ (hasError \/ shown.range = selected)
=============================================================================
