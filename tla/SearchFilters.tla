---------------------------- MODULE SearchFilters ----------------------------
(* The filters of the search tab (useFilter.ts, SearchHeader.tsx,                *)
(* FilterPopover.tsx): the parameters in force, the tags that show them, the     *)
(* source type with the sources picked for each type, the dialog with its own    *)
(* copy of the parameters, and what a reload of the page finds in sessionStorage. *)
EXTENDS Naturals

CONSTANTS
    FileNames,    \* uploaded videos (type "sensor_file")
    RtspNames     \* live streams (type "sensor_rtsp")

ASSUME FilterConstants == FileNames \cap RtspNames = {}

VARIABLES
    onlineStreams,  \* names of the online streams, as last fetched
    params,        \* filterParams; dates stands for every optional filter without a rule of its own
    tags,          \* filterTags: the value shown for each key, NotShown without a tag
    sourceType,    \* the select of the header
    perType,       \* videoSourcesPerTypeRef
    storedType,    \* vss_search_sourceType, NotStored when absent
    storedTopK,    \* vss_filter_topK, 0 when absent
    dialog,        \* the filter dialog: open, and pendingParams
    disabled       \* contentDisabled

filterVars == <<onlineStreams, params, tags, sourceType, perType, storedType, storedTopK,
                dialog, disabled>>

Types == {"video_file", "rtsp"}
NotStored == "none"
DefaultTopK == 10
Sources == FileNames \cup RtspNames
TopKs == {0, DefaultTopK, 20}          \* 0: the field is empty
Params == [dates : BOOLEAN, sources : SUBSET Sources,
           topK : TopKs, type : Types]
Removable == {"dates", "sources"}
Unset(key) == IF key = "sources" THEN {} ELSE FALSE

FilterTypeOK ==
    /\ onlineStreams \subseteq Sources /\ params \in Params
    /\ tags \in [dates : BOOLEAN, sources : SUBSET Sources, topK : TopKs]
    /\ sourceType \in Types /\ perType \in [Types -> SUBSET Sources]
    /\ storedType \in Types \cup {NotStored} /\ storedTopK \in TopKs
    /\ dialog \in [open : BOOLEAN, pending : Params]
    /\ disabled \in BOOLEAN

\* addFilter: a tag for every parameter that is set.
TagsOf(p) == [dates |-> p.dates, sources |-> p.sources, topK |-> p.topK]

InitialParams(k, type) ==
    [dates |-> FALSE, sources |-> {}, topK |-> k, type |-> type]

StoredTopKOrDefault == IF storedTopK = 0 THEN DefaultTopK ELSE storedTopK

\* getOnlyOneSourceType
OnlyType(names) ==
    CASE names \cap FileNames # {} /\ names \cap RtspNames = {} -> "video_file"
      [] names \cap FileNames = {} /\ names \cap RtspNames # {} -> "rtsp"
      [] OTHER -> NotStored

FilterInit ==
    /\ onlineStreams = {} /\ sourceType = "video_file"
    /\ params = InitialParams(DefaultTopK, "video_file") /\ tags = TagsOf(params)
    /\ perType = [t \in Types |-> {}] /\ storedType = NotStored /\ storedTopK = 0
    /\ dialog = [open |-> FALSE, pending |-> params]
    /\ disabled = FALSE

-----------------------------------------------------------------------------

\* setFilterParams also stores a valid topK that changed.
SetFilterParams(p) ==
    /\ params' = p
    /\ storedTopK' = IF p.topK # 0 /\ p.topK # params.topK THEN p.topK ELSE storedTopK

Stay == UNCHANGED <<onlineStreams, perType, disabled>>

\* useFilter's fetch answered. Without a stored preference the only type that has
\* streams is selected and stored.
FilterSensorsAnswered(names) ==
    /\ onlineStreams' = names
    /\ LET only == OnlyType(names)
       IN  IF storedType = NotStored /\ only # NotStored /\ only # sourceType
           THEN /\ sourceType' = only /\ storedType' = only
                /\ SetFilterParams([params EXCEPT !.type = only])
           ELSE UNCHANGED <<sourceType, storedType, params, storedTopK>>
    /\ UNCHANGED <<tags, perType, dialog, disabled>>

\* Opening or closing the dialog copies the parameters in force.
CopiesParams(opened) == [open |-> opened, pending |-> params]

\* A running search, an open chat sidebar: the dialog closes with it.
DisabledChanges ==
    /\ disabled' = ~disabled
    /\ dialog' = IF disabled' /\ dialog.open THEN CopiesParams(FALSE) ELSE dialog
    /\ UNCHANGED <<onlineStreams, params, tags, sourceType, perType, storedType, storedTopK>>

\* The tag of the sources follows: gone when none were saved, rebuilt otherwise.
TagsAfterType(v, saved, newParams) ==
    tags' = IF tags.sources # {} /\ saved = {} THEN [tags EXCEPT !.sources = {}]
            ELSE IF saved # {} THEN TagsOf(newParams) ELSE tags

HandleSourceTypeChange(v) ==
    /\ ~disabled /\ v # sourceType
    /\ storedType' = v /\ sourceType' = v
    /\ perType' = [perType EXCEPT ![sourceType] = params.sources]
    /\ LET saved == perType'[v]
           newParams == [params EXCEPT !.type = v, !.sources = saved]
       IN  SetFilterParams(newParams) /\ TagsAfterType(v, saved, newParams)
    /\ UNCHANGED <<onlineStreams, dialog, disabled>>

\* The filter button, Cancel and a click outside.
TogglePopover ==
    /\ ~disabled \/ dialog.open
    /\ dialog' = CopiesParams(~dialog.open)
    /\ UNCHANGED <<params, tags, sourceType, storedType, storedTopK>> /\ Stay

OfferedSources == onlineStreams \cap (IF sourceType = "video_file" THEN FileNames ELSE RtspNames)

\* The fields change the copy; the sources offered are those of the type shown.
EditPending ==
    /\ dialog.open
    /\ LET p == dialog.pending
       IN  \E q \in {[p EXCEPT !.dates = ~p.dates]}
                    \cup {[p EXCEPT !.topK = k] : k \in TopKs}
                    \cup {[p EXCEPT !.sources = s] : s \in SUBSET OfferedSources} :
              dialog' = [dialog EXCEPT !.pending = q]
    /\ UNCHANGED <<params, tags, sourceType, storedType, storedTopK>> /\ Stay

\* Apply, or Enter in the dialog.
HandleConfirm ==
    /\ dialog.open
    /\ SetFilterParams(dialog.pending) /\ tags' = TagsOf(dialog.pending)
    /\ dialog' = [dialog EXCEPT !.open = FALSE]
    /\ UNCHANGED <<sourceType, storedType>> /\ Stay

\* The x of a tag; that of topK has none.
RemoveTag(key) ==
    /\ ~disabled /\ tags[key] # Unset(key)
    /\ SetFilterParams([params EXCEPT ![key] = Unset(key)])
    /\ tags' = [tags EXCEPT ![key] = Unset(key)]
    /\ UNCHANGED <<sourceType, storedType, dialog>> /\ Stay

\* Clear All keeps topK and shows the default when the field was left empty.
OnClearAll ==
    /\ ~disabled
    /\ \E key \in Removable : tags[key] # Unset(key)
    /\ LET k == IF params.topK = 0 THEN DefaultTopK ELSE params.topK
       IN  tags' = TagsOf(InitialParams(k, params.type))
    /\ SetFilterParams(InitialParams(params.topK, params.type))
    /\ UNCHANGED <<sourceType, storedType, dialog>> /\ Stay

\* A reload of the page: the stored type and topK come back, nothing else does.
FilterReload ==
    /\ sourceType' = IF storedType = NotStored THEN "video_file" ELSE storedType
    /\ params' = InitialParams(StoredTopKOrDefault, sourceType') /\ tags' = TagsOf(params')
    /\ onlineStreams' = {} /\ perType' = [t \in Types |-> {}]
    /\ dialog' = [open |-> FALSE, pending |-> params'] /\ disabled' = FALSE
    /\ UNCHANGED <<storedType, storedTopK>>

FilterNext ==
    \/ \E names \in SUBSET Sources : FilterSensorsAnswered(names)
    \/ DisabledChanges \/ TogglePopover \/ EditPending \/ HandleConfirm
    \/ \E v \in Types : HandleSourceTypeChange(v)
    \/ \E key \in Removable : RemoveTag(key)
    \/ OnClearAll \/ FilterReload

FilterSpec == FilterInit /\ [][FilterNext]_filterVars

-----------------------------------------------------------------------------

\* After every sequence of applied, removed, cleared and restored filters the tags
\* show exactly the filters the next search will send, whichever type's sources
\* were restored, and the stored type is the selected one.
TagsShowTheFilters ==
    /\ tags.dates = params.dates /\ tags.sources = params.sources
    /\ tags.topK # params.topK => params.topK = 0 /\ tags.topK = DefaultTopK
    /\ storedType # NotStored => sourceType = storedType
=============================================================================
