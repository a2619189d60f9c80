------------------------------- MODULE Alerts -------------------------------
(* The alerts tab: the query its filters make (AlertsComponent.tsx), the      *)
(* requests for it (useAlerts.ts), which the effect, the refresh button, the  *)
(* auto-refresh timer (useAutoRefresh.ts) and "Load more" send side by side,  *)
(* and what the browser session keeps of the user's choices.                  *)
EXTENDS Naturals, FiniteSets, FiniteSetsExt

CONSTANT MaxFetches      \* bound: requests under way at once

ASSUME AlertsConstants == MaxFetches \in Nat \ {0}

VARIABLES
    query,        \* the "VLM verified" toggle, and whether filters narrow the list
    buckets,      \* vlmFiltersRef: the narrowing kept for each side of the toggle
    slots,        \* requests under way
    alertRows,    \* where the alerts shown come from
    full,         \* lastBatchSize >= maxResults
    alertsLoading,
    loadingMore,
    alertsError,
    auto,         \* isEnabled of the auto-refresh, and what the session storage holds
    chain         \* its timers: off, set, or waiting for the request of a slot

queryVars == <<query, buckets>>
alertVars == <<slots, alertRows, full, alertsLoading, loadingMore, alertsError>>
refreshVars == <<auto, chain>>
alertsVars == <<queryVars, alertVars, refreshVars>>

Slot == 1 .. MaxFetches
Query == [vlm : BOOLEAN, narrow : BOOLEAN]
\* Of the query of a request only its side of the toggle is looked at later.
Fetch == [kind : {"effect", "plain", "sensors", "more"}, vlm : BOOLEAN]
NoFetch == [kind |-> "none"]

Off == [at |-> "off", of |-> 0]
TimerSet == [at |-> "timer", of |-> 0]
Awaits(i) == [at |-> "refresh", of |-> i]

AlertsTypeOK ==
    /\ query \in Query /\ buckets \in [BOOLEAN -> BOOLEAN]
    /\ slots \in [Slot -> Fetch \cup {NoFetch}]
    /\ alertRows \subseteq [vlm : BOOLEAN, part : {"base", "older"}]
    /\ {full, alertsLoading, loadingMore, alertsError} \subseteq BOOLEAN
    /\ auto \in [enabled : BOOLEAN, hydrated : BOOLEAN, loaded : BOOLEAN, stored : BOOLEAN, chosen : BOOLEAN]
    /\ chain \in {Off, TimerSet} \cup {Awaits(i) : i \in Slot}

-----------------------------------------------------------------------------
(* Requests. Starting one clears the error and shows the spinner.            *)

FreeSlots(s) == {i \in Slot : s[i] = NoFetch}
FirstFree(s) == Min(FreeSlots(s))

WithFetch(s, kind, q) == [s EXCEPT ![FirstFree(s)] = [kind |-> kind, vlm |-> q.vlm]]

\* The cleanup of the effect aborts its own request, and no other.
WithoutEffect == [i \in Slot |-> IF slots[i].kind = "effect" THEN NoFetch ELSE slots[i]]

Fetches(s, kind, q) ==
    /\ FreeSlots(s) # {}
    /\ slots' = WithFetch(s, kind, q)
    /\ alertsLoading' = TRUE /\ alertsError' = FALSE

AlertsInit ==
    /\ query = [vlm |-> TRUE, narrow |-> FALSE] /\ buckets = [v \in BOOLEAN |-> FALSE]
    /\ slots = WithFetch([i \in Slot |-> NoFetch], "effect", query)
    /\ alertRows = {} /\ full = FALSE /\ alertsLoading = TRUE /\ loadingMore = FALSE /\ alertsError = FALSE
    /\ auto = [enabled |-> TRUE, hydrated |-> FALSE, loaded |-> TRUE, stored |-> TRUE, chosen |-> TRUE]
    /\ chain = TimerSet

\* A render with another query: the effect runs again.
QueryBecomes(q) ==
    /\ query' = q
    /\ Fetches(WithoutEffect, "effect", q)
    /\ UNCHANGED <<alertRows, full, loadingMore, refreshVars>>

ToggleVlm ==
    /\ buckets' = [buckets EXCEPT ![query.vlm] = query.narrow]
    /\ QueryBecomes([vlm |-> ~query.vlm, narrow |-> buckets[~query.vlm]])

\* A filter tag, the verdict, the period or the fetch size changes.
ChangeFilters ==
    /\ QueryBecomes([query EXCEPT !.narrow = ~@])
    /\ UNCHANGED buckets

\* The refresh button, and Retry of the error view.
RefreshAlerts ==
    /\ Fetches(slots, "plain", query)
    /\ UNCHANGED <<queryVars, alertRows, full, loadingMore, refreshVars>>

\* The tab is shown again: refetch waits for the sensor list first, and then
\* asks what the render that called it would have asked.
TabShown ==
    /\ FreeSlots(slots) # {}
    /\ slots' = WithFetch(slots, "sensors", query)
    /\ UNCHANGED <<queryVars, alertRows, full, alertsLoading, loadingMore, alertsError, refreshVars>>

AlertSensorsAnswered(i) ==
    /\ slots[i].kind = "sensors"
    /\ slots' = [slots EXCEPT ![i].kind = "plain"]
    /\ alertsLoading' = TRUE /\ alertsError' = FALSE
    /\ UNCHANGED <<queryVars, alertRows, full, loadingMore, refreshVars>>

\* Mutant: the toggle is not looked at when the response is there.
StillWantedAlways(vlm) == TRUE

StillWanted(vlm) == vlm = query.vlm

Rearms(i, ok) == IF chain = Awaits(i) THEN TimerSet ELSE chain

AlertsAnswered(i) ==
    /\ slots[i].kind \in {"effect", "plain"}
    /\ slots' = [slots EXCEPT ![i] = NoFetch]
    /\ \E ok, isFull \in BOOLEAN :
           /\ chain' = Rearms(i, ok)
           /\ IF StillWanted(slots[i].vlm)
              THEN /\ alertsLoading' = FALSE
                   /\ alertsError' = (alertsError \/ ~ok)
                   /\ alertRows' = IF ok THEN {[vlm |-> slots[i].vlm, part |-> "base"]} ELSE alertRows
                   /\ full' = IF ok THEN isFull ELSE full
              ELSE UNCHANGED <<alertsLoading, alertsError, alertRows, full>>
    /\ UNCHANGED <<queryVars, loadingMore, auto>>

\* The button is there below a table that is shown, and disabled by auto-refresh.
LoadMore ==
    /\ full /\ alertRows # {} /\ ~alertsError /\ ~auto.enabled /\ ~loadingMore
    /\ FreeSlots(slots) # {}
    /\ slots' = WithFetch(slots, "more", query)
    /\ loadingMore' = TRUE /\ alertsError' = FALSE
    /\ UNCHANGED <<queryVars, alertRows, full, alertsLoading, refreshVars>>

MoreAnswered(i) ==
    /\ slots[i].kind = "more"
    /\ slots' = [slots EXCEPT ![i] = NoFetch]
    /\ loadingMore' = FALSE
    /\ \/ /\ alertRows' = alertRows \cup {[vlm |-> slots[i].vlm, part |-> "older"]}
          /\ full' \in BOOLEAN
          /\ UNCHANGED alertsError
       \/ alertsError' = TRUE /\ UNCHANGED <<alertRows, full>>
    /\ UNCHANGED <<queryVars, alertsLoading, refreshVars>>

-----------------------------------------------------------------------------
(* Auto-refresh.                                                             *)

TimerFires ==
    /\ chain = TimerSet
    /\ Fetches(slots, "plain", query)
    /\ chain' = Awaits(FirstFree(slots))
    /\ UNCHANGED <<queryVars, alertRows, full, loadingMore, auto>>

\* The effect of isEnabled: the chain there is gives up, a new one starts.
Schedule(on) == IF on THEN TimerSet ELSE Off

ToggleAutoRefresh ==
    /\ auto.hydrated
    /\ auto' = [auto EXCEPT !.enabled = ~@, !.stored = ~auto.enabled, !.chosen = ~auto.enabled]
    /\ chain' = Schedule(~auto.enabled)
    /\ UNCHANGED <<queryVars, alertVars>>

StoredAtMount == auto.stored

\* The page is loaded again: the session storage is read in an effect of the
\* first render, and shown by the next one.
Reload ==
    /\ slots' = WithFetch([i \in Slot |-> NoFetch], "effect", query)
    /\ alertRows' = {} /\ full' = FALSE /\ alertsLoading' = TRUE /\ loadingMore' = FALSE /\ alertsError' = FALSE
    /\ buckets' = [v \in BOOLEAN |-> FALSE]
    /\ auto' = [auto EXCEPT !.enabled = TRUE, !.hydrated = FALSE, !.loaded = auto.stored, !.stored = StoredAtMount]
    /\ chain' = TimerSet
    /\ UNCHANGED query

Hydrate ==
    /\ ~auto.hydrated
    /\ auto' = [auto EXCEPT !.hydrated = TRUE, !.enabled = auto.loaded, !.stored = auto.loaded]
    /\ chain' = IF auto.loaded THEN chain ELSE Off
    /\ UNCHANGED <<queryVars, alertVars>>

-----------------------------------------------------------------------------

AlertsNext ==
    \/ ToggleVlm \/ ChangeFilters \/ RefreshAlerts \/ TabShown \/ LoadMore
    \/ TimerFires \/ ToggleAutoRefresh \/ Reload \/ Hydrate
    \/ \E i \in Slot : AlertSensorsAnswered(i) \/ AlertsAnswered(i) \/ MoreAnswered(i)

AlertsSpec == AlertsInit /\ [][AlertsNext]_alertsVars

-----------------------------------------------------------------------------

\* A table shown without spinner and without error is one of the side of the
\* toggle that is on, whatever requests of the other side are still under way.
ViewMatchesToggle ==
    ~alertsLoading /\ ~alertsError => \A r \in alertRows : r.part = "base" => r.vlm = query.vlm

\* While auto-refresh is on there is always a next refresh: a timer is set, or
\* the refresh it waits for is under way. A failed or dropped one ends nothing.
ChainIsAlive ==
    auto.enabled => chain = TimerSet \/ \E i \in Slot : chain = Awaits(i) /\ slots[i].kind = "plain"

\* The user's choice of auto-refresh survives reloads, however short.
ChoiceSurvives == auto.stored = auto.chosen
=============================================================================
