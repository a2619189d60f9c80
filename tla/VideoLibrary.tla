----------------------------- MODULE VideoLibrary -----------------------------
(* The list of the Video Management tab (VideoManagementComponent.tsx,         *)
(* useStreams, DeleteConfirmDialog, AddRtspDialog): it is fetched on every     *)
(* occasion, without an order between the answers; streams are filtered,       *)
(* selected and deleted, sensor by sensor; RTSP streams are added.             *)
EXTENDS Naturals, FiniteSets

CONSTANTS
    Streams,          \* the streams the VST service may hold, each id used once
    Cameras,          \* the RTSP streams among them
    SensorOf,         \* the sensor of each stream
    Matching,         \* the streams whose name contains the text a user searches for
    MaxFetches,       \* requests for the list under way at once
    MaxAttempts       \* MAX_DELETE_ATTEMPTS

ASSUME LibraryConstants ==
    /\ Cameras \subseteq Streams /\ Matching \subseteq Streams
    /\ SensorOf \in [Streams -> Streams]
    /\ MaxFetches \in Nat \ {0, 1} /\ MaxAttempts \in Nat \ {0}

VARIABLES
    library,            \* what the service holds
    unused,             \* streams it has never held
    fetches,            \* the requests for the list
    streams, isLoading, listError,
    showVideos, showRtsps, searchQuery, appliedSearchQuery,
    selectedStreams,
    showDeleteConfirm,
    snapshot,           \* what the dialog lists while it is open
    isDeleting,
    deletes,            \* where the deletion of each target stands
    attempts,
    awaited,            \* the fetch that ends the deletion, 0 if none
    rtspDialog,         \* "closed", "open" or "filled"
    isSubmitting,
    adds                \* requests to add a stream under way

serviceVars == <<library, unused>>
listVars == <<fetches, streams, isLoading, listError>>
filterVars == <<showVideos, showRtsps, searchQuery, appliedSearchQuery>>
deleteVars == <<showDeleteConfirm, snapshot, isDeleting, deletes, attempts, awaited>>
rtspVars == <<rtspDialog, isSubmitting, adds>>
libraryVars == <<serviceVars, listVars, filterVars, selectedStreams, deleteVars, rtspVars>>

Fetch == 1 .. MaxFetches
NoFetch == [stage |-> "free", list |-> {}]

LibraryTypeOK ==
    /\ {library, unused, streams, selectedStreams, snapshot} \subseteq SUBSET Streams
    /\ fetches \in [Fetch -> [stage : {"free", "sent", "answered", "failed"}, list : SUBSET Streams]]
    /\ {isLoading, listError, showVideos, showRtsps, searchQuery, appliedSearchQuery,
        showDeleteConfirm, isDeleting, isSubmitting} \subseteq BOOLEAN
    /\ deletes \in [Streams -> {"none", "sent", "wait", "settled"}]
    /\ attempts \in [Streams -> 0 .. MaxAttempts]
    /\ awaited \in 0 .. MaxFetches
    /\ rtspDialog \in {"closed", "open", "filled"} /\ adds \in 0 .. 1

LibraryInit ==
    /\ library \in SUBSET Streams /\ unused = Streams \ library
    /\ fetches = [i \in Fetch |-> IF i = 1 THEN [stage |-> "sent", list |-> {}] ELSE NoFetch]
    /\ streams = {} /\ isLoading = TRUE /\ listError = FALSE
    /\ showVideos = TRUE /\ showRtsps = TRUE
    /\ searchQuery = FALSE /\ appliedSearchQuery = FALSE   \* a text was typed, was applied
    /\ selectedStreams = {} /\ snapshot = {} /\ showDeleteConfirm = FALSE /\ isDeleting = FALSE
    /\ deletes = [s \in Streams |-> "none"] /\ attempts = [s \in Streams |-> 0]
    /\ awaited = 0
    /\ rtspDialog = "closed" /\ isSubmitting = FALSE /\ adds = 0

-----------------------------------------------------------------------------
(* The list.                                                                 *)

\* Another client, or an upload, puts a stream into the service.
StreamAppears ==
    /\ \E s \in unused : library' = library \cup {s} /\ unused' = unused \ {s}
    /\ UNCHANGED <<listVars, filterVars, selectedStreams, deleteVars, rtspVars>>

FetchStreams(i) ==
    /\ fetches[i].stage = "free"
    /\ fetches' = [fetches EXCEPT ![i] = [stage |-> "sent", list |-> {}]]
    /\ isLoading' = TRUE /\ listError' = FALSE
    /\ UNCHANGED streams

\* The tab becomes active, an upload or an added stream asks for a new list.  (One
\* fetch is kept for the end of a deletion: a bound of the model.)
Refetch ==
    /\ \E i \in Fetch \ {MaxFetches} : FetchStreams(i)
    /\ UNCHANGED <<serviceVars, filterVars, selectedStreams, deleteVars, rtspVars>>

FetchAnswered(i) ==
    /\ fetches[i].stage = "sent"
    /\ \/ fetches' = [fetches EXCEPT ![i] = [stage |-> "answered", list |-> library]]
       \/ fetches' = [fetches EXCEPT ![i].stage = "failed"]
    /\ UNCHANGED <<serviceVars, streams, isLoading, listError, filterVars, selectedStreams,
                   deleteVars, rtspVars>>

\* Answers are taken in the order they arrive; none is recognised as older.
FetchReturns(i) ==
    /\ fetches[i].stage \in {"answered", "failed"}
    /\ streams' = IF fetches[i].stage = "answered" THEN fetches[i].list ELSE streams
    /\ listError' = (listError \/ fetches[i].stage = "failed")
    /\ isLoading' = FALSE
    /\ fetches' = [fetches EXCEPT ![i] = NoFetch]

ListReturns(i) ==
    /\ i # awaited
    /\ FetchReturns(i)
    /\ UNCHANGED <<serviceVars, filterVars, selectedStreams, deleteVars, rtspVars>>

\* filterStreams
FilteredStreams ==
    {s \in streams : /\ showVideos \/ s \in Cameras
                     /\ showRtsps \/ s \notin Cameras
                     /\ appliedSearchQuery => s \in Matching}

GridIsShown == ~isLoading /\ ~listError /\ FilteredStreams # {}

-----------------------------------------------------------------------------
(* Filter and selection.                                                     *)

HandleSearchChange ==
    /\ searchQuery' \in BOOLEAN
    /\ appliedSearchQuery' = (appliedSearchQuery /\ searchQuery')
    /\ UNCHANGED <<serviceVars, listVars, showVideos, showRtsps, selectedStreams, deleteVars, rtspVars>>

HandleSearch ==
    /\ appliedSearchQuery' = searchQuery
    /\ UNCHANGED <<serviceVars, listVars, showVideos, showRtsps, searchQuery, selectedStreams,
                   deleteVars, rtspVars>>

ToggleFilter ==
    /\ \/ streams \ Cameras # {} /\ showVideos' = ~showVideos /\ UNCHANGED showRtsps
       \/ streams \cap Cameras # {} /\ showRtsps' = ~showRtsps /\ UNCHANGED showVideos
    /\ UNCHANGED <<serviceVars, listVars, searchQuery, appliedSearchQuery, selectedStreams,
                   deleteVars, rtspVars>>

\* The dialogs cover the grid, not the toolbar.
GridIsFree == GridIsShown /\ ~showDeleteConfirm /\ rtspDialog = "closed"

HandleSelectionChange ==
    /\ GridIsFree
    /\ \E s \in FilteredStreams :
           selectedStreams' = IF s \in selectedStreams THEN selectedStreams \ {s}
                              ELSE selectedStreams \cup {s}
    /\ UNCHANGED <<serviceVars, listVars, filterVars, deleteVars, rtspVars>>

HandleSelectAll ==
    /\ GridIsFree
    /\ selectedStreams' \in {FilteredStreams, {}}
    /\ UNCHANGED <<serviceVars, listVars, filterVars, deleteVars, rtspVars>>

-----------------------------------------------------------------------------
(* Deletion: the toolbar's button opens the dialog, the dialog's starts it.  *)

SelectedStreamInfos == streams \cap selectedStreams

HandleDeleteSelected ==
    /\ selectedStreams # {} /\ ~isDeleting /\ ~showDeleteConfirm
    /\ showDeleteConfirm' = TRUE /\ snapshot' = SelectedStreamInfos
    /\ UNCHANGED <<serviceVars, listVars, filterVars, selectedStreams, isDeleting, deletes, attempts,
                   awaited, rtspVars>>

DialogCloses == showDeleteConfirm /\ ~isDeleting

HandleCancelDelete ==
    /\ DialogCloses
    /\ showDeleteConfirm' = FALSE /\ snapshot' = {}
    /\ UNCHANGED <<serviceVars, listVars, filterVars, selectedStreams, isDeleting, deletes, attempts,
                   awaited, rtspVars>>

\* One stream for each sensor of the selected ones, whichever was selected first.
SensorTargets(chosen) ==
    {ts \in SUBSET chosen : /\ {SensorOf[t] : t \in ts} = {SensorOf[s] : s \in chosen}
                            /\ \A t, u \in ts : SensorOf[t] = SensorOf[u] => t = u}

\* The targets are what is selected and listed now, not what the dialog shows.
HandleConfirmDelete ==
    /\ showDeleteConfirm /\ selectedStreams # {} /\ ~isDeleting
    /\ isDeleting' = TRUE
    /\ \E targets \in SensorTargets(SelectedStreamInfos) :
           deletes' = [s \in Streams |-> IF s \in targets THEN "sent" ELSE "none"]
    /\ attempts' = [s \in Streams |-> IF deletes'[s] = "sent" THEN 1 ELSE 0]
    /\ UNCHANGED <<serviceVars, listVars, filterVars, selectedStreams, showDeleteConfirm, snapshot,
                   awaited, rtspVars>>

deletionFrame == <<unused, listVars, filterVars, selectedStreams, showDeleteConfirm, snapshot,
                   isDeleting, awaited, rtspVars>>

\* The request of a stream is answered or fails; the service may have done its work.
DeleteSettles(s) ==
    /\ deletes[s] = "sent"
    /\ library' \in {library, {t \in library : SensorOf[t] # SensorOf[s]}}
    /\ deletes' = [deletes EXCEPT ![s] = "settled"]
    /\ UNCHANGED <<deletionFrame, attempts>>

AfterPending(s) == IF attempts[s] = MaxAttempts THEN "settled" ELSE "wait"

\* A video's deletion is pending: the same request is sent again after a while.
DeletePending(s) ==
    /\ deletes[s] = "sent" /\ s \notin Cameras
    /\ deletes' = [deletes EXCEPT ![s] = AfterPending(s)]
    /\ library' \in {library, {t \in library : SensorOf[t] # SensorOf[s]}}
    /\ UNCHANGED <<deletionFrame, attempts>>

DeleteAgain(s) ==
    /\ deletes[s] = "wait"
    /\ deletes' = [deletes EXCEPT ![s] = "sent"]
    /\ attempts' = [attempts EXCEPT ![s] = IF @ = MaxAttempts THEN @ ELSE @ + 1]
    /\ UNCHANGED <<library, deletionFrame>>

DeletesSettle ==
    /\ isDeleting /\ awaited = 0
    /\ \A s \in Streams : deletes[s] \in {"none", "settled"}
    /\ selectedStreams' = {}
    /\ FetchStreams(MaxFetches)
    /\ awaited' = MaxFetches
    /\ attempts' = [s \in Streams |-> 0]
    /\ UNCHANGED <<serviceVars, filterVars, showDeleteConfirm, snapshot, isDeleting, deletes, rtspVars>>

DeletingReturns ==
    /\ awaited # 0
    /\ FetchReturns(awaited)
    /\ awaited' = 0
    /\ isDeleting' = FALSE /\ showDeleteConfirm' = FALSE /\ snapshot' = {}
    /\ deletes' = [s \in Streams |-> "none"]
    /\ UNCHANGED <<serviceVars, filterVars, selectedStreams, attempts, rtspVars>>

-----------------------------------------------------------------------------
(* The dialog that adds an RTSP stream.                                      *)

rtspFrame == <<filterVars, selectedStreams, deleteVars>>

HandleAddRtspClick ==
    /\ rtspDialog = "closed" /\ rtspDialog' = "open"
    /\ UNCHANGED <<serviceVars, listVars, rtspFrame, isSubmitting, adds>>

FillForm ==
    /\ rtspDialog = "open" /\ rtspDialog' = "filled"
    /\ UNCHANGED <<serviceVars, listVars, rtspFrame, isSubmitting, adds>>

HandleClose == rtspDialog' = "closed" /\ isSubmitting' = FALSE

CloseAddRtsp ==
    /\ rtspDialog # "closed"
    /\ HandleClose
    /\ UNCHANGED <<serviceVars, listVars, rtspFrame, adds>>

HandleSubmit ==
    /\ rtspDialog = "filled" /\ ~isSubmitting
    /\ adds = 0   \* a bound: a second request may run once the dialog was closed and opened again
    /\ isSubmitting' = TRUE /\ adds' = adds + 1
    /\ UNCHANGED <<serviceVars, listVars, rtspFrame, rtspDialog>>

\* The answer closes the dialog whichever request it answers.
AddRtspSucceeds ==
    /\ adds > 0 /\ adds' = adds - 1
    /\ \E s \in unused \cap Cameras : library' = library \cup {s} /\ unused' = unused \ {s}
    /\ HandleClose
    /\ \E i \in Fetch \ {MaxFetches} : FetchStreams(i)
    /\ UNCHANGED rtspFrame

AddRtspFails ==
    /\ adds > 0 /\ adds' = adds - 1
    /\ isSubmitting' = FALSE
    /\ UNCHANGED <<serviceVars, listVars, rtspFrame, rtspDialog>>

-----------------------------------------------------------------------------

DeletionStep ==
    \/ \E s \in Streams : DeleteSettles(s) \/ DeletePending(s) \/ DeleteAgain(s)
    \/ DeletesSettle \/ DeletingReturns

LibraryNext ==
    \/ StreamAppears \/ Refetch
    \/ \E i \in Fetch : FetchAnswered(i) \/ ListReturns(i)
    \/ HandleSearchChange \/ HandleSearch \/ ToggleFilter
    \/ HandleSelectionChange \/ HandleSelectAll
    \/ HandleDeleteSelected \/ HandleCancelDelete \/ HandleConfirmDelete \/ DeletionStep
    \/ HandleAddRtspClick \/ FillForm \/ CloseAddRtsp \/ HandleSubmit
    \/ AddRtspSucceeds \/ AddRtspFails

\* Requests are answered or fail, timers fire.
LibraryFairness ==
    /\ WF_libraryVars(DeletionStep)
    /\ \A i \in Fetch : WF_libraryVars(FetchAnswered(i)) /\ WF_libraryVars(ListReturns(i))

LibrarySpec == LibraryInit /\ [][LibraryNext]_libraryVars
FairLibrarySpec == LibrarySpec /\ LibraryFairness

-----------------------------------------------------------------------------

\* While a DELETE is under way the dialog stays open and no second DELETE runs for the
\* same sensor, whatever the list and the selection become meanwhile.
DeletesAreGuarded ==
    LET underWay == {s \in Streams : deletes[s] \in {"sent", "wait"}}
    IN /\ underWay # {} => showDeleteConfirm /\ isDeleting
       /\ \A s, t \in underWay : SensorOf[s] = SensorOf[t] => s = t

\* A confirmed deletion comes to its end, also when some of its requests fail, stay
\* pending to the last attempt or find nothing to delete: the tab is usable again.
DeletingEnds == isDeleting ~> ~isDeleting
=============================================================================
