------------------------------ MODULE Console ------------------------------
(* The remaining panels of the frontend, side by side in one module.           *)
(* They share no state: a behaviour is one of one panel, the others stand      *)
(* still in one first state each.                                              *)
EXTENDS Alerts, AlertsTable, AlertsSettings, RefreshPanel, AlertRules, ClipPlayer,
        StreamThumbnails, ImageSearch, SearchFilters, SearchTab, ShellTabs, TabSessions,
        AnswerStream, IntermediateSteps, UploadDialog

VARIABLE part

consoleVars ==
    <<part, alertsVars, tableVars, settingsVars, panelVars, rulesVars, playerVars,
      thumbnailVars, imageVars, filterVars, searchTabVars, shellVars,
      tabSessionVars, streamVars, stepVars, dialogVars>>

Init ==
    /\ part \in {"alerts", "table", "settings", "refresh", "rules", "clip",
                 "thumbnails", "image", "filters", "search", "shell", "tabs",
                 "answer", "steps", "dialog"}
    /\ AlertsInit /\ TableInit /\ SettingsInit /\ PanelInit
    /\ RulesInit /\ PlayerInit /\ ThumbnailInit /\ ImageInit
    /\ FilterInit /\ SearchTabInit /\ ShellInit /\ TabSessionInit
    /\ StreamInit /\ StepInit /\ DialogInit
    /\ part # "table" => size = 1
    /\ part # "refresh" => refreshing = FALSE
    /\ part # "clip" => playerTab = "alerts"
    /\ part # "search" => mainTab = "search" /\ collapsed = FALSE
    /\ part # "shell" => storedTab = "none"
    /\ part # "tabs" => keys = {}
    /\ part # "answer" => endpoint = "chat" /\ enabled = FALSE
    /\ part # "steps" => overrides = FALSE

Next ==
    /\ UNCHANGED part
    /\ IF part = "alerts" THEN AlertsNext ELSE UNCHANGED alertsVars
    /\ IF part = "table" THEN TableNext ELSE UNCHANGED tableVars
    /\ IF part = "settings" THEN SettingsNext ELSE UNCHANGED settingsVars
    /\ IF part = "refresh" THEN PanelNext ELSE UNCHANGED panelVars
    /\ IF part = "rules" THEN RulesNext ELSE UNCHANGED rulesVars
    /\ IF part = "clip" THEN PlayerNext ELSE UNCHANGED playerVars
    /\ IF part = "thumbnails" THEN ThumbnailNext ELSE UNCHANGED thumbnailVars
    /\ IF part = "image" THEN ImageNext ELSE UNCHANGED imageVars
    /\ IF part = "filters" THEN FilterNext ELSE UNCHANGED filterVars
    /\ IF part = "search" THEN SearchTabNext ELSE UNCHANGED searchTabVars
    /\ IF part = "shell" THEN ShellNext ELSE UNCHANGED shellVars
    /\ IF part = "tabs" THEN TabSessionNext ELSE UNCHANGED tabSessionVars
    /\ IF part = "answer" THEN StreamNext ELSE UNCHANGED streamVars
    /\ IF part = "steps" THEN StepNext ELSE UNCHANGED stepVars
    /\ IF part = "dialog" THEN DialogNext ELSE UNCHANGED dialogVars

Spec == Init /\ [][Next]_consoleVars

-----------------------------------------------------------------------------

\* The type invariants of the panels.
ConsoleTypeOK ==
    /\ AlertsTypeOK /\ TableTypeOK /\ SettingsTypeOK /\ PanelTypeOK /\ RulesTypeOK
    /\ PlayerTypeOK /\ ThumbnailTypeOK /\ ImageTypeOK /\ FilterTypeOK /\ SearchTabTypeOK
    /\ ShellTypeOK /\ TabSessionTypeOK /\ StreamTypeOK /\ StepTypeOK /\ DialogTypeOK

\* The alert list shows what its toggle says and goes on refreshing, whatever order the
\* answers come in and however many of them fail.
AlertsAreSound == ViewMatchesToggle /\ ChainIsAlive /\ ChoiceSurvives

\* Numbers that are typed, stored or counted stay where the panels say they are: pages,
\* time windows and refresh intervals.
BoundsAreKept == PagingIsSound /\ RangeWithinLimit /\ IntervalIsTheOneShown

\* What goes through a text comes out of it whole: the answer through the streams that
\* carry it, the range of the alerts through its label.
TextsComeBackWhole == AnswerIsWhole /\ LabelMeansItsRange

\* What a panel shows belongs to what was chosen last: thumbnails, the image search, the
\* filter tags and the controls in the left sidebar.
PanelsAreCurrent ==
    ThumbnailsAreCurrent /\ ImageSearchIsCurrent /\ TagsShowTheFilters /\ ShellShowsTheActiveTab

\* What arrives in pieces is put where it belongs: steps into the tree of the answer,
\* metadata and names to the file of their row.
PiecesFindTheirPlace == StepTreeIsSound /\ EntriesAreTheirOwn

\* What the user made is not lost by a later step: unsaved rules and the alerts behind
\* those already loaded.
NothingIsSkipped == NothingIsLost /\ OlderAlertsFollow

\* The last choice wins: the clip asked for last is the one that plays, the tab chosen
\* last is the one a reload opens.
LastChoiceWins == PlayerFollowsTheLastClick /\ ReloadKeepsTheTab
=============================================================================
