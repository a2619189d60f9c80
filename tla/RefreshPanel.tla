---------------------------- MODULE RefreshPanel ----------------------------
(* The panel that sets the auto-refresh of the alerts (AutoRefreshControl.tsx): a  *)
(* text is in effect as soon as it is a valid interval, and the interval in effect *)
(* becomes the text. Typed values are tenths of a millisecond, for texts that are  *)
(* not whole numbers.                                                              *)
EXTENDS Integers

CONSTANTS
    Typed,           \* values of the texts that may be typed, NaN among them
    NaN,
    DefaultInterval

ASSUME PanelConstants == NaN = -1 /\ Typed \subseteq Nat \cup {NaN} /\ DefaultInterval \in Nat \ {0}

VARIABLES
    panelOpen, refreshing,      \* isOpen, isEnabled
    locked,                     \* controlsDisabled: the table is not on page 1
    tempValue, intervalError,
    refreshInterval,            \* intervalValue of useAutoRefresh
    hydrated, savedInterval     \* and what sessionStorage has for it, 0 for nothing

panelVars == <<panelOpen, refreshing, locked, tempValue, intervalError, refreshInterval, hydrated, savedInterval>>

\* Milliseconds.
Second == 1000
Hour == 3600 * Second
Presets == {n * Second : n \in {1, 5, 10, 30, 60}}

PanelTypeOK ==
    /\ {panelOpen, refreshing, locked, intervalError, hydrated} \subseteq BOOLEAN
    /\ tempValue \in Nat \cup {NaN} /\ refreshInterval \in Nat \ {0} /\ savedInterval \in Nat

PanelInit ==
    /\ panelOpen = FALSE /\ refreshing \in BOOLEAN /\ locked = FALSE
    /\ tempValue = 10 * DefaultInterval /\ intervalError = FALSE
    /\ refreshInterval = DefaultInterval /\ hydrated = FALSE /\ savedInterval = 0

-----------------------------------------------------------------------------

\* parseInt.
Parsed(text) == IF text = NaN THEN NaN ELSE text \div 10

ValidateIntervalInput(text) == Parsed(text) \in Second .. Hour

\* The effects on the interval: it is saved, and an open panel takes it as its text.
InEffect(interval) ==
    /\ refreshInterval' = interval
    /\ savedInterval' = IF hydrated' THEN interval ELSE savedInterval
    /\ IF panelOpen /\ interval # refreshInterval
       THEN tempValue' = 10 * interval /\ intervalError' = FALSE
       ELSE TRUE

HandleInputChange(text) ==
    /\ panelOpen /\ ~locked /\ refreshing
    /\ hydrated' = hydrated
    /\ IF ValidateIntervalInput(text)
       THEN /\ InEffect(Parsed(text))
            /\ Parsed(text) = refreshInterval => tempValue' = text /\ intervalError' = FALSE
       ELSE tempValue' = text /\ intervalError' = TRUE /\ UNCHANGED <<refreshInterval, savedInterval>>
    /\ UNCHANGED <<panelOpen, refreshing, locked>>

\* Opening puts the interval in effect into the text and forgets the error.
OpenPanel ==
    /\ ~panelOpen
    /\ panelOpen' = TRUE /\ tempValue' = 10 * refreshInterval /\ intervalError' = FALSE
    /\ UNCHANGED <<refreshing, locked, refreshInterval, hydrated, savedInterval>>

\* The button, a click outside or Escape.
ClosePanel ==
    /\ panelOpen /\ panelOpen' = FALSE
    /\ UNCHANGED <<refreshing, locked, tempValue, intervalError, refreshInterval, hydrated, savedInterval>>

ToggleRefresh ==
    /\ panelOpen /\ ~locked /\ refreshing' = ~refreshing
    /\ UNCHANGED <<panelOpen, locked, tempValue, intervalError, refreshInterval, hydrated, savedInterval>>

TablePages ==
    /\ locked' = ~locked
    /\ UNCHANGED <<panelOpen, refreshing, tempValue, intervalError, refreshInterval, hydrated, savedInterval>>

HydrateInterval ==
    /\ ~hydrated /\ hydrated' = TRUE
    /\ InEffect(IF savedInterval = 0 THEN DefaultInterval ELSE savedInterval)
    /\ UNCHANGED <<panelOpen, refreshing, locked>>
    /\ ~panelOpen /\ UNCHANGED <<tempValue, intervalError>>

ReloadAlerts ==
    /\ hydrated
    /\ panelOpen' = FALSE /\ locked' = FALSE /\ tempValue' = 10 * DefaultInterval /\ intervalError' = FALSE
    /\ refreshInterval' = DefaultInterval /\ hydrated' = FALSE
    /\ UNCHANGED <<refreshing, savedInterval>>

PanelNext ==
    \/ \E text \in Typed \cup {10 * p : p \in Presets} : HandleInputChange(text)
    \/ OpenPanel \/ ClosePanel \/ ToggleRefresh \/ TablePages \/ HydrateInterval \/ ReloadAlerts

PanelSpec == PanelInit /\ [][PanelNext]_panelVars

-----------------------------------------------------------------------------

\* Whatever is typed on the way to a number, and however the panel is left, locked or
\* reloaded meanwhile, the interval in effect is the default or between a second and
\* an hour; an open panel without an error shows it, and a reload brings it back.
IntervalIsTheOneShown ==
    /\ refreshInterval = DefaultInterval \/ refreshInterval \in Second .. Hour
    /\ panelOpen /\ ~intervalError => Parsed(tempValue) = refreshInterval
    /\ hydrated => savedInterval = refreshInterval
=============================================================================
