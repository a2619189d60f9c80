---------------------------- MODULE AlertsTable ----------------------------
(* The table of alerts: its pages, the row of page buttons, sorting, expanded *)
(* rows (AlertsTable.tsx), and the older alerts that "Load more" appends       *)
(* (useAlerts.ts). An alert is the instant it ended at, in milliseconds; the   *)
(* refresh and the load of older alerts are requests that may overlap.         *)
EXTENDS Integers, Sequences, FiniteSets, SequencesExt

CONSTANTS
    MaxAlerts,     \* bound: alerts the server ever has in the period
    MaxResults,    \* maxResultSize of a request
    Sizes          \* page sizes to choose from

ASSUME TableConstants == MaxAlerts \in Nat /\ MaxResults \in Nat \ {0} /\ Sizes \subseteq Nat \ {0}

VARIABLES
    newest,        \* the server has the alerts 1 .. newest
    loaded,        \* the alerts of the table
    more,          \* the request for older ones, with the rows there when it was sent
    fullBatch,     \* lastBatchSize >= maxResults
    page, size,    \* currentPage, pageSize
    sort,          \* sortConfig
    expanded       \* whether a row is expanded

tableVars == <<newest, loaded, more, fullBatch, page, size, sort, expanded>>

NoRequest == [sent |-> FALSE, to |-> 0, rows |-> {}]
NotSorted == [key |-> "none", direction |-> "none"]
SortKeys == {"timestamp", "end"}

TableTypeOK ==
    /\ newest \in 0 .. MaxAlerts /\ loaded \subseteq 1 .. MaxAlerts
    /\ more \in [sent : BOOLEAN, to : 0 .. MaxAlerts, rows : SUBSET (1 .. MaxAlerts)]
    /\ {fullBatch, expanded} \subseteq BOOLEAN /\ page \in 1 .. MaxAlerts + 1 /\ size \in Sizes
    /\ sort \in {NotSorted} \cup [key : SortKeys, direction : {"asc", "desc"}]

-----------------------------------------------------------------------------
(* What the server answers: the newest alerts up to an instant.              *)

Newest(to) == {a \in 1 .. to : a > to - MaxResults}

\* getMinEndIsoForPaging.
Oldest(rows) == CHOOSE a \in rows : \A b \in rows : a <= b

\* The smallest end of all rows, less one millisecond.
OlderThan(rows) == Oldest(rows) - 1

-----------------------------------------------------------------------------
(* Pages.                                                                     *)

PageCount(rows, n) == IF rows = {} THEN 1 ELSE (Cardinality(rows) + n - 1) \div n

\* How many rows are sorted before a: the server's order is the newest first.
Rank(a) == Cardinality({b \in loaded : IF sort.direction = "asc" THEN b < a ELSE b > a})

DisplayedAlerts(p) ==
    LET start == (p - 1) * size
    IN  {a \in loaded : start <= Rank(a) /\ Rank(a) < start + size}

\* Mutant: the middle begins one page too early.
EarlyMiddle(current, total) ==
    IF total <= 7 THEN [i \in 1 .. total |-> i]
    ELSE IF current <= 2 THEN <<1, 2, 3, 4, 5, 0, total>>
    ELSE IF current >= total - 2 THEN <<1, 0>> \o [i \in 1 .. 5 |-> total - 5 + i]
    ELSE <<1, 0, current - 1, current, current + 1, 0, total>>

\* The buttons, 0 for an ellipsis.
PageItems(current, total) ==
    IF total <= 7 THEN [i \in 1 .. total |-> i]
    ELSE IF current <= 3 THEN <<1, 2, 3, 4, 5, 0, total>>
    ELSE IF current >= total - 2 THEN <<1, 0>> \o [i \in 1 .. 5 |-> total - 5 + i]
    ELSE <<1, 0, current - 1, current, current + 1, 0, total>>

\* The effect of pageCount: a page that is no longer there becomes the first.
PageStill(rows, n) == IF page > PageCount(rows, n) THEN 1 ELSE page

-----------------------------------------------------------------------------

TableInit ==
    /\ newest = 0 /\ loaded = {} /\ more = NoRequest /\ fullBatch = FALSE
    /\ page = 1 /\ size \in Sizes /\ sort = NotSorted /\ expanded = FALSE

AlertRaised ==
    /\ newest < MaxAlerts
    /\ newest' = newest + 1
    /\ UNCHANGED <<loaded, more, fullBatch, page, size, sort, expanded>>

RefreshLands ==
    /\ loaded' = Newest(newest)
    /\ fullBatch' = (Cardinality(loaded') >= MaxResults)
    /\ page' = PageStill(loaded', size)
    /\ UNCHANGED <<newest, more, size, sort, expanded>>

\* The button of the last page; nothing is asked for before the period.
LoadMoreSent ==
    /\ fullBatch /\ ~more.sent /\ loaded # {} /\ page = PageCount(loaded, size)
    /\ OlderThan(loaded) > 0
    /\ more' = [sent |-> TRUE, to |-> OlderThan(loaded), rows |-> loaded]
    /\ UNCHANGED <<newest, loaded, fullBatch, page, size, sort, expanded>>

\* mergeAlertsDedupe; the expanded rows are closed, the page stays.
LoadMoreLands ==
    /\ more.sent
    /\ loaded' = loaded \cup Newest(more.to)
    /\ fullBatch' = (Cardinality(Newest(more.to)) >= MaxResults)
    /\ more' = NoRequest /\ expanded' = FALSE
    /\ UNCHANGED <<newest, page, size, sort>>

LoadMoreFails ==
    /\ more.sent
    /\ more' = NoRequest
    /\ UNCHANGED <<newest, loaded, fullBatch, page, size, sort, expanded>>

GoToPage ==
    /\ \E p \in 1 .. PageCount(loaded, size) :
           /\ p \in ToSet(PageItems(page, PageCount(loaded, size))) \cup {page - 1, page + 1}
           /\ page' = p
    /\ UNCHANGED <<newest, loaded, more, fullBatch, size, sort, expanded>>

\* A page size, which is part of paginationResetKey.
ChangePageSize(n) ==
    /\ size' = n /\ page' = IF n = size THEN page ELSE 1
    /\ UNCHANGED <<newest, loaded, more, fullBatch, sort, expanded>>

HandleSort(key) ==
    /\ sort' = CASE sort.key # key -> [key |-> key, direction |-> "asc"]
                 [] sort.key = key /\ sort.direction = "asc" -> [key |-> key, direction |-> "desc"]
                 [] OTHER -> NotSorted
    /\ expanded' = FALSE
    /\ UNCHANGED <<newest, loaded, more, fullBatch, page, size>>

ToggleRow ==
    /\ DisplayedAlerts(page) # {}
    /\ expanded' \in BOOLEAN
    /\ UNCHANGED <<newest, loaded, more, fullBatch, page, size, sort>>

TableNext ==
    \/ AlertRaised \/ RefreshLands \/ LoadMoreSent \/ LoadMoreLands \/ LoadMoreFails \/ GoToPage \/ ToggleRow
    \/ \E n \in Sizes : ChangePageSize(n)
    \/ \E key \in SortKeys : HandleSort(key)

TableSpec == TableInit /\ [][TableNext]_tableVars

-----------------------------------------------------------------------------

\* However the table grows and shrinks under the reader, the page shown exists,
\* every alert is on exactly one page, and the row of buttons leads to the first,
\* the current and the last page, in order, with an ellipsis only for pages left out.
PagingIsSound ==
    LET total == PageCount(loaded, size)
        items == PageItems(page, total)
    IN  /\ page \in 1 .. total
        /\ UNION {DisplayedAlerts(p) : p \in 1 .. total} = loaded
        /\ \A p, q \in 1 .. total : p # q => DisplayedAlerts(p) \cap DisplayedAlerts(q) = {}
        /\ {1, page, total} \subseteq ToSet(items)
        /\ \A i \in 2 .. Len(items) :
               IF items[i] = 0 THEN items[i + 1] > items[i - 1] + 1
               ELSE items[i - 1] = 0 \/ items[i] = items[i - 1] + 1

\* Older alerts are appended where the table ends: none that lies between its
\* oldest row and the rows that "Load more" adds is skipped, whatever was raised,
\* sorted or paged since the request, unless a refresh replaced the table.
OlderAlertsFollow ==
    [][more.sent /\ ~more'.sent /\ loaded # loaded' /\ more.rows = loaded =>
           \A a \in loaded' \ loaded : a .. Oldest(loaded) \subseteq loaded']_tableVars
=============================================================================
