------------------------------ MODULE ShellTabs ------------------------------
(* The shell of the console (Home.tsx, useAppChatSidebar.ts): which tab is        *)
(* active, whose controls the left sidebar shows, and what a reload of the page   *)
(* finds in sessionStorage. Each tab's code is loaded on its own and may fail to. *)
EXTENDS Naturals, Sequences, SequencesExt

CONSTANTS
    AllTabs,      \* the tabs, in order
    Enabled,      \* those the deployment turns on
    WithControls, \* those that hand controls to the left sidebar when active
    Once,         \* those whose controls Home takes once per visit
    SidebarEnabled  \* whether the deployment has the chat sidebar

ASSUME ShellConstants ==
    /\ AllTabs \in Seq(STRING) /\ "chat" \in ToSet(AllTabs)
    /\ Enabled \subseteq ToSet(AllTabs) /\ Once \subseteq WithControls
    /\ SidebarEnabled \in BOOLEAN

VARIABLES
    activeTab,
    hasLoadedFromStorage,
    storedTab,       \* sessionStorage "activeTab"
    hash,            \* the tab a link in the chat named
    code,            \* each tab's chunk: "loading", "ready" or "fallback"
    version,         \* the controls of each tab as last rendered, by number
    handedOver,      \* the controls handed over for each tab, 0 for none
    handlersSet,     \* the ref of each tab
    open, storedOpen, width, storedWidth   \* the chat sidebar

tabVars == <<activeTab, hasLoadedFromStorage, storedTab, hash>>
controlVars == <<code, version, handedOver, handlersSet>>
chatSidebarVars == <<open, storedOpen, width, storedWidth>>
shellVars == <<tabVars, controlVars, chatSidebarVars>>

TabIds == ToSet(AllTabs)
NoTab == "none"
Widths == {"default", "dragged"}
Unsaved == "unset"

\* visibleTabs, of which the order matters for the first only.
VisibleTabs == {tab \in TabIds : tab \in Enabled}
FirstVisible ==
    IF VisibleTabs = {} THEN "chat"
    ELSE AllTabs[Min({i \in DOMAIN AllTabs : AllTabs[i] \in VisibleTabs})]

ShellTypeOK ==
    /\ activeTab \in TabIds \cup {"chat"} /\ hasLoadedFromStorage \in BOOLEAN
    /\ storedTab \in TabIds \cup {NoTab, "chat"} /\ hash \in TabIds \cup {NoTab}
    /\ code \in [TabIds -> {"loading", "ready", "fallback"}]
    /\ version \in [TabIds -> 1 .. 2] /\ handedOver \in [TabIds -> 0 .. 2]
    /\ handlersSet \in [TabIds -> BOOLEAN]
    /\ open \in BOOLEAN /\ storedOpen \in {"true", "false", Unsaved}
    /\ width \in Widths /\ storedWidth \in Widths \cup {Unsaved}

-----------------------------------------------------------------------------
\* The controls of the tabs.

\* The effect on activeTab resets the refs of all other tabs.
RefAfter(tab) == FALSE

\* The effects of one change of the active tab, children first: the new tab's
\* component hands its controls over, then Home drops those of the others.
ControlsAfterSwitch(tab) ==
    LET hands == code[tab] = "ready" /\ tab \in WithControls /\ ~(tab \in Once /\ handlersSet[tab])
    IN  /\ handedOver' = [t \in TabIds |-> IF t # tab THEN 0
                                      ELSE IF hands THEN version[t] ELSE handedOver[t]]
        /\ handlersSet' = [t \in TabIds |-> IF t # tab THEN RefAfter(t) ELSE handlersSet[t] \/ hands]

\* The dynamic import ends, well or with the fallback; the active tab hands its
\* controls over when it mounts.
CodeArrives(tab, ok) ==
    /\ tab \in Enabled /\ code[tab] = "loading"
    /\ code' = [code EXCEPT ![tab] = IF ok THEN "ready" ELSE "fallback"]
    /\ IF ok /\ tab = activeTab /\ tab \in WithControls
       THEN /\ handedOver' = [handedOver EXCEPT ![tab] = version[tab]]
            /\ handlersSet' = [handlersSet EXCEPT ![tab] = TRUE]
       ELSE UNCHANGED <<handedOver, handlersSet>>
    /\ UNCHANGED <<tabVars, version, chatSidebarVars>>

\* The component renders other controls. Those of the chat and the alerts tab are
\* taken each time, those of the other tabs only once per visit.
ControlsChange(tab) ==
    /\ code[tab] = "ready" /\ tab \in WithControls
    /\ version' = [version EXCEPT ![tab] = 3 - version[tab]]
    /\ handedOver' = [handedOver EXCEPT ![tab] = IF tab = activeTab /\ tab \notin Once
                                       THEN version'[tab] ELSE handedOver[tab]]
    /\ UNCHANGED <<tabVars, code, handlersSet, chatSidebarVars>>

-----------------------------------------------------------------------------
\* The active tab.

\* Nothing is stored before the stored tab was read.
MayStore == hasLoadedFromStorage

StoreTab(tab) == storedTab' = IF MayStore THEN tab ELSE storedTab

\* The first render shows the first visible tab; its effects come next.
ShellInit ==
    /\ activeTab = FirstVisible /\ hasLoadedFromStorage = FALSE
    /\ storedTab \in {NoTab} \cup TabIds /\ hash = NoTab
    /\ code = [tab \in TabIds |-> "loading"] /\ version = [tab \in TabIds |-> 1]
    /\ handedOver = [tab \in TabIds |-> 0] /\ handlersSet = [tab \in TabIds |-> FALSE]
    /\ open = FALSE /\ storedOpen = Unsaved /\ width = "default" /\ storedWidth = Unsaved

\* The effects of the mount: the save effect, which is not allowed yet, and the read
\* of the stored tab, if the deployment still shows it. A link in the address wins,
\* since its effect comes later.
LoadFromStorage ==
    /\ ~hasLoadedFromStorage
    /\ hasLoadedFromStorage' = TRUE
    /\ LET before == IF MayStore THEN activeTab ELSE storedTab
           tab == IF hash \in VisibleTabs THEN hash
                  ELSE IF before \in VisibleTabs THEN before ELSE activeTab
       IN  /\ activeTab' = tab /\ storedTab' = tab
           /\ hash' = IF hash \in VisibleTabs THEN NoTab ELSE hash
           /\ ControlsAfterSwitch(tab)
    /\ open' = IF storedOpen = Unsaved THEN open ELSE storedOpen = "true"
    /\ width' = IF storedWidth = Unsaved THEN width ELSE storedWidth
    /\ UNCHANGED <<code, version, storedOpen, storedWidth>>

SetActiveTab(tab) ==
    /\ hasLoadedFromStorage /\ tab \in VisibleTabs /\ tab # activeTab
    /\ activeTab' = tab /\ StoreTab(tab) /\ ControlsAfterSwitch(tab)
    /\ UNCHANGED <<hasLoadedFromStorage, hash, code, version, chatSidebarVars>>

\* A click on a tab link in an answer; the chat is not among the linked tabs and a
\* hidden tab's link stays in the address.
CallerInfoLink(tab) ==
    /\ hasLoadedFromStorage /\ tab # "chat"
    /\ IF tab \in VisibleTabs
       THEN /\ hash' = NoTab /\ activeTab' = tab /\ StoreTab(tab)
            /\ IF tab = activeTab THEN UNCHANGED <<handedOver, handlersSet>> ELSE ControlsAfterSwitch(tab)
       ELSE hash' = tab /\ UNCHANGED <<activeTab, storedTab, handedOver, handlersSet>>
    /\ UNCHANGED <<hasLoadedFromStorage, code, version, chatSidebarVars>>

-----------------------------------------------------------------------------
\* The chat sidebar.

SidebarShown == SidebarEnabled /\ activeTab # "chat"

SetSidebarOpen(value) ==
    /\ hasLoadedFromStorage /\ SidebarShown /\ open # value
    /\ open' = value /\ storedOpen' = IF value THEN "true" ELSE "false"
    /\ UNCHANGED <<tabVars, controlVars, width, storedWidth>>

\* The width is stored when the pointer is released.
ResizeMoves ==
    /\ hasLoadedFromStorage /\ SidebarShown /\ open
    /\ width' = "dragged"
    /\ UNCHANGED <<tabVars, controlVars, open, storedOpen, storedWidth>>

ResizeEnds ==
    /\ hasLoadedFromStorage /\ SidebarShown /\ open /\ width = "dragged"
    /\ storedWidth' = width
    /\ UNCHANGED <<tabVars, controlVars, open, storedOpen, width>>

\* The page is loaded again: only sessionStorage and the address stay.
ShellReload ==
    /\ activeTab' = FirstVisible /\ hasLoadedFromStorage' = FALSE
    /\ code' = [tab \in TabIds |-> "loading"] /\ version' = [tab \in TabIds |-> 1]
    /\ handedOver' = [tab \in TabIds |-> 0] /\ handlersSet' = [tab \in TabIds |-> FALSE]
    /\ open' = FALSE /\ width' = "default"
    /\ UNCHANGED <<storedTab, hash, storedOpen, storedWidth>>

ShellNext ==
    \/ \E tab \in TabIds : \/ \E ok \in BOOLEAN : CodeArrives(tab, ok)
                           \/ ControlsChange(tab) \/ SetActiveTab(tab) \/ CallerInfoLink(tab)
    \/ LoadFromStorage \/ ShellReload
    \/ \E value \in BOOLEAN : SetSidebarOpen(value)
    \/ ResizeMoves \/ ResizeEnds

ShellSpec == ShellInit /\ [][ShellNext]_shellVars

-----------------------------------------------------------------------------

\* Whatever order chunks load, tabs are switched and pages reloaded in, the left
\* sidebar shows the controls of the active tab only, and has them whenever that tab
\* is loaded and has any, coming back to it included. The tab in front is one the
\* deployment shows, and it is the stored one, so that a reload comes back to it.
ShellShowsTheActiveTab ==
    /\ \A tab \in TabIds : handedOver[tab] # 0 => tab = activeTab
    /\ code[activeTab] = "ready" /\ activeTab \in WithControls /\ hasLoadedFromStorage
           => handedOver[activeTab] # 0
    /\ VisibleTabs # {} => activeTab \in VisibleTabs
    /\ hasLoadedFromStorage => storedTab = activeTab

\* A reload of the page comes back to the tab and the sidebar that were in front.
ReloadKeepsTheTab ==
    [][~hasLoadedFromStorage /\ hasLoadedFromStorage' /\ storedTab \in VisibleTabs
           => activeTab' = storedTab \/ activeTab' = hash]_shellVars
=============================================================================
