------------------------------ MODULE SearchTab ------------------------------
(* The search tab and the chat sidebar beside it: the search request and its     *)
(* results (useSearch.ts, SearchComponent.tsx), the agent's results that take     *)
(* their place, and the bridge that disables the tab while a question asked from  *)
(* it is under way (useChatSidebarMainTabBridge.ts, Chat.tsx).                    *)
EXTENDS Naturals

CONSTANTS
    MaxSearches,  \* bound: searches sent
    MaxTurns      \* bound: questions sent to the sidebar's agent

ASSUME SearchConstants == MaxSearches \in Nat /\ MaxTurns \in Nat

VARIABLES
    mainTab, collapsed,                        \* Home's tab and the sidebar
    turns, streaming, lastAnswer,              \* the sidebar chat: its turns, messageIsStreaming,
                                               \* and the turn whose text ends the conversation
    busy, pendingContext, executing, highlight,  \* the bridge
    searches, live, searchLoading, searchError, results,  \* useSearch
    agentResults                               \* the turn whose results are shown

homeVars == <<mainTab, collapsed>>
turnVars == <<turns, streaming, lastAnswer>>
bridgeVars == <<busy, pendingContext, executing, highlight>>
querySearch == <<searches, live, searchLoading, searchError, results>>
searchTabVars == <<homeVars, turnVars, bridgeVars, querySearch, agentResults>>

MainTabs == {"search", "alerts", "chat"}
Turns == 1 .. MaxTurns
UnderWay == {"waiting", "writing", "detached"}

SearchTabTypeOK ==
    /\ mainTab \in MainTabs /\ collapsed \in BOOLEAN
    /\ turns \in [Turns -> UnderWay \cup {"unsent", "done"}]
    /\ streaming \in BOOLEAN /\ lastAnswer \in 0 .. MaxTurns
    /\ busy \in BOOLEAN /\ pendingContext \in {"search", "alerts", "none"}
    /\ executing \in BOOLEAN /\ highlight \in BOOLEAN
    /\ searches \in 0 .. MaxSearches /\ live \in 0 .. searches
    /\ searchLoading \in BOOLEAN /\ searchError \in BOOLEAN /\ results \in 0 .. searches
    /\ agentResults \in 0 .. MaxTurns

SearchTabInit ==
    /\ mainTab \in MainTabs /\ collapsed \in BOOLEAN
    /\ turns = [t \in Turns |-> "unsent"] /\ streaming = FALSE /\ lastAnswer = 0
    /\ busy = FALSE /\ pendingContext = "none" /\ executing = FALSE /\ highlight = FALSE
    /\ searches = 0 /\ live = 0 /\ searchLoading = FALSE /\ searchError = FALSE /\ results = 0
    /\ agentResults = 0

-----------------------------------------------------------------------------
\* Home.

\* With the sidebar, the chat tab has a layout of its own: going there and coming
\* back mounts every tab and the sidebar's chat anew. Their requests go on.
Remount ==
    /\ live' = 0 /\ searchLoading' = FALSE /\ searchError' = FALSE /\ results' = 0 /\ agentResults' = 0
    /\ streaming' = FALSE /\ lastAnswer' = 0
    /\ turns' = [t \in Turns |-> IF turns[t] \in UnderWay THEN "detached" ELSE turns[t]]
    /\ UNCHANGED searches

SwitchMainTab(tab) ==
    /\ tab # mainTab /\ mainTab' = tab
    /\ IF "chat" \in {tab, mainTab} THEN Remount
       ELSE UNCHANGED <<turnVars, querySearch, agentResults>>
    /\ UNCHANGED <<collapsed, bridgeVars>>

SetCollapsed ==
    /\ mainTab # "chat"
    /\ collapsed' = ~collapsed /\ highlight' = (highlight /\ collapsed')
    /\ UNCHANGED <<mainTab, turnVars, busy, pendingContext, executing, querySearch, agentResults>>

-----------------------------------------------------------------------------
\* The bridge.

ClearsResults == agentResults' = 0 /\ results' = 0 /\ searchError' = FALSE

\* onMessageSubmitted: the results are cleared whichever tab is in front; only the
\* search tab becomes busy.
HandleSidebarMessageSubmitted ==
    /\ ClearsResults
    /\ busy' = (busy \/ mainTab = "search")
    /\ pendingContext' = mainTab
    /\ executing' = TRUE /\ highlight' = collapsed

HandleSidebarAnswerComplete ==
    /\ busy' = (busy /\ pendingContext # "search")
    /\ pendingContext' = "none"
    /\ executing' = FALSE /\ highlight' = collapsed

\* The search tab takes the answers that hold search results.
HandleAnswerWithContent(t) == agentResults' \in {agentResults, t}

NothingAnnounced == UNCHANGED <<bridgeVars, agentResults>>

Announced(t) == HandleSidebarAnswerComplete /\ HandleAnswerWithContent(t)

-----------------------------------------------------------------------------
\* The sidebar's chat.

\* Its own input waits for the answer; the tabs' buttons ("Search by Image",
\* "Generate Report") do not, and work with the sidebar closed.
HandleSend(t, fromTab) ==
    /\ mainTab # "chat" /\ turns[t] = "unsent" /\ \A s \in 1 .. t - 1 : turns[s] # "unsent"
    /\ fromTab \/ (~collapsed /\ ~streaming)
    /\ turns' = [turns EXCEPT ![t] = "waiting"] /\ streaming' = TRUE /\ lastAnswer' = 0
    /\ HandleSidebarMessageSubmitted
    /\ UNCHANGED <<homeVars, searches, live, searchLoading>>

AnswerTextArrives(t) ==
    /\ turns[t] \in {"waiting", "writing"}
    /\ turns' = [turns EXCEPT ![t] = "writing"] /\ lastAnswer' = t
    /\ UNCHANGED <<homeVars, streaming, bridgeVars, querySearch, agentResults>>

\* openModal: a question back to the user counts as an answer for the bridge.
OpenModal(t) ==
    /\ turns[t] \in {"waiting", "writing"}
    /\ HandleSidebarAnswerComplete
    /\ UNCHANGED <<homeVars, turnVars, querySearch, agentResults>>

\* The end of an HTTP stream is announced whatever came, also after the chat that
\* sent it is gone; the effect on messageIsStreaming announces it once more.
HttpStreamEnds(t) ==
    /\ turns[t] \in UnderWay
    /\ turns' = [turns EXCEPT ![t] = "done"]
    /\ streaming' = (streaming /\ turns[t] = "detached")
    /\ Announced(t)
    /\ UNCHANGED <<homeVars, lastAnswer, querySearch>>

\* The end of a socket's answer, an error, the stop button: streaming ends, and the
\* bridge hears of it only when the conversation ends with the assistant's text.
StreamingEnds(t) ==
    /\ turns[t] \in {"waiting", "writing"}
    /\ turns' = [turns EXCEPT ![t] = "done"] /\ streaming' = FALSE
    /\ \/ lastAnswer # 0 /\ Announced(lastAnswer)
       \/ ~(streaming /\ lastAnswer # 0) /\ NothingAnnounced
    /\ UNCHANGED <<homeVars, lastAnswer, querySearch>>

\* A detached request fails, or its socket was closed: nobody is told.
DetachedEnds(t) ==
    /\ turns[t] = "detached" /\ turns' = [turns EXCEPT ![t] = "done"]
    /\ UNCHANGED <<homeVars, streaming, lastAnswer, bridgeVars, querySearch, agentResults>>

-----------------------------------------------------------------------------
\* The search.

ContentDisabled == ~collapsed \/ searchLoading \/ busy

\* fetchSearch aborts the request before it, whose finally then ends the loading
\* of this one.
FetchSearch ==
    /\ searches < MaxSearches
    /\ searches' = searches + 1 /\ live' = searches' /\ searchLoading' = (live = 0)
    /\ ClearsResults

Search ==
    /\ mainTab = "search" /\ ~ContentDisabled
    /\ FetchSearch
    /\ UNCHANGED <<homeVars, turnVars, bridgeVars>>

\* The results of the agent hide the error.
ErrorShown == searchError /\ agentResults = 0 /\ ~searchLoading

\* "Retry" below the error.
Refetch ==
    /\ mainTab = "search" /\ ErrorShown
    /\ FetchSearch
    /\ UNCHANGED <<homeVars, turnVars, bridgeVars>>

\* Mutant: cancelling ends the spinner and lets the request run.
CancelsTheSpinner == searchLoading' = FALSE /\ UNCHANGED live

AbortSearch == searchLoading' = FALSE /\ live' = 0

CancelSearch ==
    /\ mainTab = "search" /\ searchLoading
    /\ AbortSearch
    /\ UNCHANGED <<homeVars, turnVars, bridgeVars, searches, searchError, results, agentResults>>

SearchAnswered(ok) ==
    /\ live # 0
    /\ live' = 0 /\ searchLoading' = FALSE
    /\ IF ok THEN results' = live /\ UNCHANGED searchError ELSE searchError' = TRUE /\ UNCHANGED results
    /\ UNCHANGED <<homeVars, turnVars, bridgeVars, searches, agentResults>>

SearchTabNext ==
    \/ \E tab \in MainTabs : SwitchMainTab(tab)
    \/ SetCollapsed
    \/ \E t \in Turns : \/ \E fromTab \in BOOLEAN : HandleSend(t, fromTab)
                        \/ AnswerTextArrives(t) \/ OpenModal(t)
                        \/ HttpStreamEnds(t) \/ StreamingEnds(t) \/ DetachedEnds(t)
    \/ Search \/ Refetch \/ CancelSearch
    \/ \E ok \in BOOLEAN : SearchAnswered(ok)

SearchTabSpec == SearchTabInit /\ [][SearchTabNext]_searchTabVars

-----------------------------------------------------------------------------

\* The spinner and its Cancel button are there exactly while a search runs, so that
\* one search runs at a time and no cancelled one brings results; the results and
\* the error are those of the search sent last.
SearchIsCancellable ==
    /\ searchLoading <=> live # 0
    /\ live # 0 => live = searches /\ results = 0 /\ ~searchError
    /\ results \in {0, searches} /\ ~(searchError /\ results # 0)
=============================================================================
