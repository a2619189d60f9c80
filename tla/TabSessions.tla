---------------------------- MODULE TabSessions ----------------------------
(* The conversations of the chat in IndexedDB, whose keys carry the id of the      *)
(* browser tab (utils/app/conversationDb.ts). A page that starts asks the other    *)
(* tabs over a BroadcastChannel which of them live, waits 300 ms, and deletes the  *)
(* keys of all others. A page that hides deletes its own keys, if it still can.    *)
EXTENDS Naturals, Sequences, SequencesExt

CONSTANTS
    BrowserTabs,  \* tabs of the browser, each with its id in sessionStorage
    Untagged,     \* what stands for the tab of a key of the old format
    MaxPages      \* bound: pages a tab loads

ASSUME TabSessionConstants == Untagged \notin BrowserTabs /\ MaxPages \in Nat

VARIABLES
    tabPage,   \* per tab: "none", "loads", "discovers" or "runs"
    pages,     \* per tab: pages it has loaded
    liveTabs,  \* per tab: liveTabIds
    inbox,     \* per tab: messages on their way to its channel
    keys,      \* keys of the object store
    elders,    \* ghost, per tab: the tabs that answered the channel when its search began
    swept      \* ghost: keys the last step deleted for being orphans, and by whom

tabSessionVars == <<tabPage, pages, liveTabs, inbox, keys, elders, swept>>

Bases == {"selectedConversation", "conversationHistory"}
StoreKeys == [tab : BrowserTabs \cup {Untagged}, base : Bases]
StoreKey(t, base) == [tab |-> t, base |-> base]
Announce(t) == [type |-> "announce", tab |-> t]
RequestPresence(t) == [type |-> "request-presence", tab |-> t]
NothingSwept == [by |-> Untagged, tabs |-> {}]

TabSessionTypeOK ==
    /\ tabPage \in [BrowserTabs -> {"none", "loads", "discovers", "runs"}]
    /\ pages \in [BrowserTabs -> 0 .. MaxPages]
    /\ liveTabs \in [BrowserTabs -> SUBSET BrowserTabs]
    /\ \A t \in BrowserTabs :
           ToSet(inbox[t]) \subseteq [type : {"announce", "request-presence"}, tab : BrowserTabs]
    /\ keys \subseteq StoreKeys /\ elders \in [BrowserTabs -> SUBSET BrowserTabs]
    /\ swept \in [by : BrowserTabs \cup {Untagged}, tabs : SUBSET (BrowserTabs \cup {Untagged})]

TabSessionInit ==
    /\ tabPage = [t \in BrowserTabs |-> "none"] /\ pages = [t \in BrowserTabs |-> 0]
    /\ liveTabs = [t \in BrowserTabs |-> {}] /\ inbox = [t \in BrowserTabs |-> <<>>]
    /\ keys \in {{}, {StoreKey(Untagged, "conversationHistory")}}
    /\ elders = [t \in BrowserTabs |-> {}] /\ swept = NothingSwept

-----------------------------------------------------------------------------

\* Mutant: the channel is closed when the window of its own search ends.
OnlyWhileSearching(t) == tabPage[t] = "discovers"

\* The handler stays on the channel as long as the page.
OnChannel(t) == tabPage[t] \in {"discovers", "runs"}

\* A message reaches the channels of all other tabs.
Post(by, posts) ==
    inbox' = [u \in BrowserTabs |-> IF u # by /\ OnChannel(u) THEN inbox[u] \o posts ELSE inbox[u]]

PageLoads(t) ==
    /\ tabPage[t] = "none" /\ pages[t] < MaxPages
    /\ tabPage' = [tabPage EXCEPT ![t] = "loads"] /\ pages' = [pages EXCEPT ![t] = @ + 1]
    /\ swept' = NothingSwept
    /\ UNCHANGED <<liveTabs, inbox, keys, elders>>

InitConversationSessionLifecycle(t) ==
    /\ tabPage[t] = "loads"
    /\ tabPage' = [tabPage EXCEPT ![t] = "discovers"]
    /\ liveTabs' = [liveTabs EXCEPT ![t] = {t}]
    /\ Post(t, <<RequestPresence(t), Announce(t)>>)
    /\ elders' = [elders EXCEPT ![t] = {u \in BrowserTabs : u # t /\ tabPage[u] \in {"discovers", "runs"}}]
    /\ swept' = NothingSwept
    /\ UNCHANGED <<pages, keys>>

OnMessage(t) ==
    /\ inbox[t] # <<>>
    /\ LET data == Head(inbox[t])
           rest == [inbox EXCEPT ![t] = Tail(@)]
       IN  IF data.type = "announce"
           THEN liveTabs' = [liveTabs EXCEPT ![t] = @ \cup {data.tab}] /\ inbox' = rest
           ELSE /\ inbox' = [u \in BrowserTabs |-> IF u # t /\ OnChannel(u)
                                                   THEN Append(rest[u], Announce(t)) ELSE rest[u]]
                /\ UNCHANGED liveTabs
    /\ swept' = NothingSwept
    /\ UNCHANGED <<tabPage, pages, keys, elders>>

\* 300 ms are enough for the tabs that live to be asked and to answer.
Answered(t) ==
    \A u \in elders[t] : /\ RequestPresence(t) \notin ToSet(inbox[u])
                         /\ Announce(u) \notin ToSet(inbox[t])

\* deleteKeysForTabIds reads all keys and deletes those chosen, and those of no tab.
Kept(doomed) == {k \in keys : k.tab \in BrowserTabs \ doomed}

SweepOrphans(t) ==
    /\ tabPage[t] = "discovers" /\ Answered(t)
    /\ tabPage' = [tabPage EXCEPT ![t] = "runs"]
    /\ keys' = Kept(BrowserTabs \ liveTabs[t])
    /\ swept' = [by |-> t, tabs |-> {k.tab : k \in keys \ keys'}]
    /\ UNCHANGED <<pages, liveTabs, inbox, elders>>

SaveToDb(t, base) ==
    /\ OnChannel(t)
    /\ keys' = keys \cup {StoreKey(t, base)} /\ swept' = NothingSwept
    /\ UNCHANGED <<tabPage, pages, liveTabs, inbox, elders>>

\* removeConversationFromDb and clearAllConversationsFromDb.
RemoveFromDb(t, bases) ==
    /\ OnChannel(t)
    /\ keys' = keys \ {StoreKey(t, b) : b \in bases} /\ swept' = NothingSwept
    /\ UNCHANGED <<tabPage, pages, liveTabs, inbox, elders>>

\* The page hides and its channel goes with it. Its handler may delete the keys of the
\* tab before the page is gone; after a crash or in haste it does not.
PageHides(t, cleans) ==
    /\ tabPage[t] # "none"
    /\ tabPage' = [tabPage EXCEPT ![t] = "none"] /\ inbox' = [inbox EXCEPT ![t] = <<>>]
    /\ elders' = [u \in BrowserTabs |-> IF u = t THEN {} ELSE elders[u] \ {t}]
    /\ keys' = IF cleans /\ OnChannel(t) THEN Kept({t}) ELSE keys
    /\ swept' = NothingSwept
    /\ UNCHANGED <<pages, liveTabs>>

TabSessionNext == \E t \in BrowserTabs :
    \/ PageLoads(t) \/ InitConversationSessionLifecycle(t) \/ OnMessage(t) \/ SweepOrphans(t)
    \/ \E base \in Bases : SaveToDb(t, base)
    \/ \E bases \in {{"selectedConversation"}, Bases} : RemoveFromDb(t, bases)
    \/ \E cleans \in BOOLEAN : PageHides(t, cleans)

TabSessionSpec == TabSessionInit /\ [][TabSessionNext]_tabSessionVars

-----------------------------------------------------------------------------

\* The sweep of a new page deletes nothing of a tab that was running when the page
\* started and has run ever since, however long ago that tab searched itself and
\* whatever its keys are, and nothing of its own tab.
SweepSparesLiveTabs ==
    swept # NothingSwept => swept.tabs \cap (elders[swept.by] \cup {swept.by}) \subseteq {Untagged}
=============================================================================
