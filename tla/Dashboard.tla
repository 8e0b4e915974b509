------------------------------ MODULE Dashboard ------------------------------
(***************************************************************************)
(* App: the hook that keeps the web socket and the component that fetches  *)
(* the statistics.  The status of the hook is rendered into the property   *)
(* isLive, whose effect fetches the statistics again after a gap; and both *)
(* listen to the visibility of the tab.  App is mounted as long as the     *)
(* page, so nothing is disposed of here.                                   *)
(***************************************************************************)
EXTENDS WebSocketHook, TimeRangeSelector

dashboardVars == <<hookVars, selectorVars>>

DashboardInit == HookInit /\ SelectorInit

\* Everything fetched so far may miss what happened during the gap.
Outdated(data) == [data EXCEPT !.fresh = FALSE]

\* A socket opens.  The status before it has been rendered: a dial takes longer than that.
Opens(w) ==
    /\ isLive = (status = "live")
    /\ Open(w)
    /\ IF status = "live"
       THEN UNCHANGED <<fetch, shown>>
       ELSE /\ fetch' = [f \in Controllers |-> [fetch[f] EXCEPT !.data = Outdated(@)]]
            /\ shown' = Outdated(shown)
    /\ UNCHANGED <<selected, bound, flagVars, autoRefresh, current, isLive>>

HookStep ==
    /\ \/ Timers \/ RetryNow
       \/ \E w \in Sockets : Message(w) \/ Die(w) \/ CloseEvent(w) \/ StableFires(w)
    /\ UNCHANGED selectorVars

\* App is rendered with another status.
Render(f) == LiveEffect(status = "live", f) /\ UNCHANGED hookVars

\* The tab becomes visible: both listeners run.
BecomeVisible(f) ==
    /\ RefetchWhenVisible(f)
    /\ IF retryTimer = "none" THEN UNCHANGED hookVars ELSE RetryNow

DashboardNext ==
    \/ HookStep
    \/ SelectorStep /\ UNCHANGED hookVars
    \/ \E w \in Sockets : Opens(w)
    \/ \E f \in Controllers : Render(f) \/ BecomeVisible(f)

DashboardSpec == DashboardInit /\ [][DashboardNext]_dashboardVars

-----------------------------------------------------------------------------
(* Properties *)

\* Once the socket is back and all is quiet the statistics are not those from before the
\* gap, or an error is shown (time-range-selector.tsx:137-138, "a fetch is stale after any
\* gap: refetch when the socket recovers").
RecoveredIsFresh ==
    Settled /\ status = "live" /\ isLive => hasError \/ shown.fresh
=============================================================================
