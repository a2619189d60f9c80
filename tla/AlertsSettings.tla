--------------------------- MODULE AlertsSettings ---------------------------
(* The query range and the fetch size of the alerts tab: what the custom       *)
(* inputs accept (useTimeWindow.ts, CustomTimeInput.tsx,                       *)
(* AlertsFetchSettings.tsx) and how a duration is written and read             *)
(* (timeUtils.ts). A text is the sequence of its tokens, a number and a unit.  *)
EXTENDS Naturals, Sequences

CONSTANTS
    WindowTexts,     \* bound: what the user types, as sequences of tokens
    DefaultWindow,   \* defaultTimeWindow
    MaxTimeLimit,    \* maxTimeLimitInMinutes, 0 for unlimited
    FetchSizes       \* bound: numbers typed as fetch size

ASSUME SettingsConstants ==
    /\ DefaultWindow \in Nat \ {0} /\ MaxTimeLimit \in Nat /\ FetchSizes \subseteq Nat
    /\ WindowTexts \subseteq Seq([n : Nat, unit : {"y", "M", "w", "d", "h", "m"}])

VARIABLES
    timeWindow,    \* minutes
    customOpen, customText, customError,
    fetchSize

windowVars == <<timeWindow, customOpen, customText, customError>>
settingsVars == <<windowVars, fetchSize>>

-----------------------------------------------------------------------------
(* Durations.                                                                *)

Units == <<"y", "M", "w", "d", "h", "m">>
TimeConversions == [y |-> 525600, M |-> 43200, w |-> 10080, d |-> 1440, h |-> 60, m |-> 1]
UnitOrder(u) == CHOOSE i \in DOMAIN Units : Units[i] = u

Bad == [minutes |-> 0, bad |-> TRUE]

HasValidUnitOrder(text) ==
    \A i \in 2 .. Len(text) : UnitOrder(text[i - 1].unit) < UnitOrder(text[i].unit)

TotalMinutes(text) ==
    LET total[i \in 0 .. Len(text)] ==
            IF i = 0 THEN 0 ELSE total[i - 1] + text[i].n * TimeConversions[text[i].unit]
    IN  total[Len(text)]

\* Mutant: a duration of nothing is a duration.
NothingParses(text) ==
    IF text = <<>> \/ ~HasValidUnitOrder(text) THEN Bad ELSE [minutes |-> TotalMinutes(text), bad |-> FALSE]

ParseTimeString(text) ==
    IF text = <<>> \/ ~HasValidUnitOrder(text) \/ TotalMinutes(text) = 0
    THEN Bad
    ELSE [minutes |-> TotalMinutes(text), bad |-> FALSE]

\* A unit of which there is nothing is not written.
Part(left, u) ==
    LET n == left \div TimeConversions[u] IN IF n > 0 THEN <<[n |-> n, unit |-> u]>> ELSE <<>>

FormatTimeWindow(minutes) ==
    LET afterYears == minutes % TimeConversions.y
        afterMonths == afterYears % TimeConversions.M
        afterWeeks == afterMonths % TimeConversions.w
        afterDays == afterWeeks % TimeConversions.d
        afterHours == afterDays % TimeConversions.h
    IN  Part(minutes, "y") \o Part(afterYears, "M") \o Part(afterMonths, "w")
            \o Part(afterWeeks, "d") \o Part(afterDays, "h") \o Part(afterHours, "m")

TimeWindowOptions == {10, 20, 30, 60, 120}

-----------------------------------------------------------------------------

SettingsTypeOK ==
    /\ timeWindow \in Nat \ {0} /\ {customOpen, customError} \subseteq BOOLEAN
    /\ customText \in WindowTexts \cup {<<>>}
    /\ fetchSize \in 10 .. 5000

SettingsInit ==
    /\ timeWindow = DefaultWindow /\ customOpen = FALSE /\ customText = <<>> /\ customError = FALSE
    /\ fetchSize = 100

SelectPeriod(minutes) ==
    /\ timeWindow' = minutes
    /\ UNCHANGED <<customOpen, customText, customError, fetchSize>>

OpenCustomTimeInput ==
    /\ customOpen' = TRUE
    /\ UNCHANGED <<timeWindow, customText, customError, fetchSize>>

TooLong(minutes) == MaxTimeLimit > 0 /\ minutes > MaxTimeLimit

HandleCustomTimeChange(text) ==
    /\ customOpen
    /\ customText' = text
    /\ customError' = (text # <<>> /\ (ParseTimeString(text).bad \/ TooLong(ParseTimeString(text).minutes)))
    /\ UNCHANGED <<timeWindow, customOpen, fetchSize>>

HandleSetCustomTime ==
    /\ ~customError /\ ~ParseTimeString(customText).bad
    /\ timeWindow' = ParseTimeString(customText).minutes
    /\ customOpen' = FALSE /\ customText' = <<>> /\ customError' = FALSE
    /\ UNCHANGED fetchSize

HandleCancelCustomTime ==
    /\ customOpen' = FALSE /\ customText' = <<>> /\ customError' = FALSE
    /\ UNCHANGED <<timeWindow, fetchSize>>

\* A click outside applies what can be parsed, unless there is an error, and
\* gives up the rest.
ClickOutside ==
    /\ customOpen
    /\ IF ParseTimeString(customText).bad THEN HandleCancelCustomTime ELSE HandleSetCustomTime

ApplyCustomFetch(n) ==
    /\ n \in 10 .. 5000
    /\ fetchSize' = n
    /\ UNCHANGED windowVars

SettingsNext ==
    \/ \E minutes \in TimeWindowOptions : SelectPeriod(minutes)
    \/ OpenCustomTimeInput
    \/ \E text \in WindowTexts : HandleCustomTimeChange(text)
    \/ customOpen /\ (HandleSetCustomTime \/ HandleCancelCustomTime)
    \/ ClickOutside
    \/ \E n \in FetchSizes : ApplyCustomFetch(n)

SettingsSpec == SettingsInit /\ [][SettingsNext]_settingsVars

-----------------------------------------------------------------------------

\* Whatever is typed and however the input is left, a range longer than the limit
\* is never set by hand.
RangeWithinLimit == TooLong(timeWindow) => timeWindow \in TimeWindowOptions \cup {DefaultWindow}

\* The label of the range, typed again, means the range.
LabelMeansItsRange ==
    ParseTimeString(FormatTimeWindow(timeWindow)) = [minutes |-> timeWindow, bad |-> FALSE]
=============================================================================
