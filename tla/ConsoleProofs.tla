--------------------------- MODULE ConsoleProofs ---------------------------
(***************************************************************************)
(* Proofs about the panels of the console, each for any values of its      *)
(* constants: any number of requests under way, rows, tabs and messages.   *)
(***************************************************************************)
EXTENDS Console, AnswerProofs

-----------------------------------------------------------------------------
(* Alerts *)

\* A new request takes a free slot and leaves the others alone.
LEMMA FetchTakesAFreeSlot ==
    ASSUME NEW s \in [Slot -> Fetch \cup {NoFetch}], FreeSlots(s) # {},
           NEW kind \in {"effect", "plain", "sensors", "more"}, NEW q \in Query
    PROVE  /\ FirstFree(s) \in Slot /\ s[FirstFree(s)] = NoFetch
           /\ WithFetch(s, kind, q) \in [Slot -> Fetch \cup {NoFetch}]
           /\ WithFetch(s, kind, q)[FirstFree(s)] = [kind |-> kind, vlm |-> q.vlm]
           /\ \A i \in Slot : i # FirstFree(s) => WithFetch(s, kind, q)[i] = s[i]
<1>1. FreeSlots(s) \in SUBSET Nat
  BY DEF FreeSlots, Slot
<1>2. FirstFree(s) \in FreeSlots(s)
  BY <1>1, MinIsMember DEF FirstFree
<1>3. [kind |-> kind, vlm |-> q.vlm] \in Fetch
  BY DEF Fetch, Query
<1>4. QED
  BY <1>2, <1>3 DEF FreeSlots, WithFetch

LEMMA AllSlotsAreFree ==
    LET none == [i \in Slot |-> NoFetch]
    IN  none \in [Slot -> Fetch \cup {NoFetch}] /\ FreeSlots(none) # {}
<1>1. 1 \in Slot
  BY AlertsConstants DEF Slot
<1>2. QED
  BY <1>1 DEF FreeSlots

\* Until the stored choice is shown the page behaves as if auto-refresh were on, and
\* what it has read is still what is stored.
ChoiceIsPending == ~auto.hydrated => auto.enabled /\ auto.loaded = auto.stored

AlertsInv == AlertsTypeOK /\ ChoiceIsPending /\ AlertsAreSound

LEMMA AlertsStart == AlertsInit => AlertsInv
<1> SUFFICES ASSUME AlertsInit PROVE AlertsInv
  OBVIOUS
<1>1. query \in Query
  BY DEF AlertsInit, Query
<1>2. slots \in [Slot -> Fetch \cup {NoFetch}]
  BY <1>1, AllSlotsAreFree, FetchTakesAFreeSlot DEF AlertsInit
<1>3. AlertsTypeOK
  BY <1>1, <1>2 DEF AlertsInit, AlertsTypeOK
<1>4. QED
  BY <1>3 DEF AlertsInit, AlertsInv, ChoiceIsPending, AlertsAreSound, ViewMatchesToggle,
  ChainIsAlive, ChoiceSurvives

\* A request that the effect sends for a new query: the chain's own request stays.
LEMMA QueryKeepsAlerts ==
    ASSUME AlertsInv, NEW q \in Query, QueryBecomes(q), buckets' \in [BOOLEAN -> BOOLEAN]
    PROVE  AlertsInv'
<1>1. WithoutEffect \in [Slot -> Fetch \cup {NoFetch}]
  BY DEF WithoutEffect, AlertsInv, AlertsTypeOK
<1>2. FreeSlots(WithoutEffect) # {} /\ slots' = WithFetch(WithoutEffect, "effect", q)
  BY DEF QueryBecomes, Fetches
<1> DEFINE sent == WithFetch(WithoutEffect, "effect", q)
<1>3. /\ sent \in [Slot -> Fetch \cup {NoFetch}]
      /\ WithoutEffect[FirstFree(WithoutEffect)] = NoFetch
      /\ \A i \in Slot : i # FirstFree(WithoutEffect) => sent[i] = WithoutEffect[i]
  BY <1>1, <1>2, FetchTakesAFreeSlot
<1> slots' = sent
  BY <1>2
<1> HIDE DEF sent
<1>4. \A i \in Slot : slots[i].kind = "plain" => slots'[i] = slots[i]
  BY <1>3 DEF WithoutEffect, NoFetch
<1>5. AlertsTypeOK'
  BY <1>3 DEF AlertsInv, AlertsTypeOK, QueryBecomes, Fetches, refreshVars
<1>6. ChainIsAlive'
  BY <1>4 DEF AlertsInv, AlertsAreSound, ChainIsAlive, QueryBecomes, refreshVars
<1>7. QED
  BY <1>5, <1>6 DEF AlertsInv, AlertsAreSound, ViewMatchesToggle, ChoiceSurvives,
  ChoiceIsPending, QueryBecomes, Fetches, refreshVars

\* A request that leaves query, rows and auto-refresh alone.
LEMMA FetchKeepsSlots ==
    ASSUME AlertsInv, NEW kind \in {"effect", "plain", "sensors", "more"},
           FreeSlots(slots) # {}, slots' = WithFetch(slots, kind, query)
    PROVE  /\ slots' \in [Slot -> Fetch \cup {NoFetch}]
           /\ \A i \in Slot : slots[i].kind = "plain" => slots'[i] = slots[i]
<1>1. slots \in [Slot -> Fetch \cup {NoFetch}] /\ query \in Query
  BY DEF AlertsInv, AlertsTypeOK
<1> DEFINE sent == WithFetch(slots, kind, query)
<1>2. /\ sent \in [Slot -> Fetch \cup {NoFetch}]
      /\ slots[FirstFree(slots)] = NoFetch
      /\ \A i \in Slot : i # FirstFree(slots) => sent[i] = slots[i]
  <2> kind \in {"effect", "plain", "sensors", "more"} /\ FreeSlots(slots) # {}
    OBVIOUS
  <2>1. sent \in [Slot -> Fetch \cup {NoFetch}]
    BY <1>1, FetchTakesAFreeSlot
  <2>2. slots[FirstFree(slots)] = NoFetch
    BY <1>1, FetchTakesAFreeSlot
  <2>3. \A i \in Slot : i # FirstFree(slots) => sent[i] = slots[i]
    BY <1>1 DEF WithFetch
  <2>4. QED
    BY <2>1, <2>2, <2>3
<1> slots' = sent
  OBVIOUS
<1> HIDE DEF sent
<1>3. QED
  BY <1>2 DEF NoFetch

LEMMA AlertsStep == AlertsInv /\ [AlertsNext]_alertsVars => AlertsInv'
<1> SUFFICES ASSUME AlertsInv, [AlertsNext]_alertsVars PROVE AlertsInv'
  OBVIOUS
<1> USE DEF AlertsInv, AlertsAreSound
<1> query \in Query /\ buckets \in [BOOLEAN -> BOOLEAN]
  BY DEF AlertsTypeOK
<1>1. CASE ToggleVlm
  <2>1. [vlm |-> ~query.vlm, narrow |-> buckets[~query.vlm]] \in Query
    BY DEF Query
  <2>2. buckets' \in [BOOLEAN -> BOOLEAN]
    BY <1>1 DEF ToggleVlm, Query
  <2>3. QED
    BY <1>1, <2>1, <2>2, QueryKeepsAlerts DEF ToggleVlm
<1>2. CASE ChangeFilters
  <2>1. [query EXCEPT !.narrow = ~query.narrow] \in Query
    BY DEF Query
  <2>2. QED
    BY <1>2, <2>1, QueryKeepsAlerts DEF ChangeFilters
<1>3. CASE RefreshAlerts
  <2>1. FreeSlots(slots) # {} /\ slots' = WithFetch(slots, "plain", query)
    BY <1>3 DEF RefreshAlerts, Fetches
  <2>2. /\ slots' \in [Slot -> Fetch \cup {NoFetch}]
        /\ \A i \in Slot : slots[i].kind = "plain" => slots'[i] = slots[i]
    BY <2>1, FetchKeepsSlots
  <2>3. AlertsTypeOK'
    BY <1>3, <2>2 DEF AlertsTypeOK, RefreshAlerts, Fetches, refreshVars, queryVars
  <2>4. ChainIsAlive'
    BY <1>3, <2>2 DEF ChainIsAlive, RefreshAlerts, refreshVars
  <2>5. QED
    BY <1>3, <2>3, <2>4 DEF ChoiceIsPending, ChoiceSurvives, ViewMatchesToggle,
    RefreshAlerts, Fetches, refreshVars, queryVars
<1>4. CASE TabShown
  <2>1. /\ slots' \in [Slot -> Fetch \cup {NoFetch}]
        /\ \A i \in Slot : slots[i].kind = "plain" => slots'[i] = slots[i]
    BY <1>4, FetchKeepsSlots DEF TabShown
  <2>2. AlertsTypeOK'
    BY <1>4, <2>1 DEF AlertsTypeOK, TabShown, refreshVars, queryVars
  <2>3. ChainIsAlive'
    BY <1>4, <2>1 DEF ChainIsAlive, TabShown, refreshVars
  <2>4. QED
    BY <1>4, <2>2, <2>3 DEF ChoiceIsPending, ChoiceSurvives, ViewMatchesToggle,
    TabShown, refreshVars, queryVars
<1>5. CASE LoadMore
  <2>1. /\ slots' \in [Slot -> Fetch \cup {NoFetch}]
        /\ \A i \in Slot : slots[i].kind = "plain" => slots'[i] = slots[i]
    BY <1>5, FetchKeepsSlots DEF LoadMore
  <2>2. AlertsTypeOK'
    BY <1>5, <2>1 DEF AlertsTypeOK, LoadMore, refreshVars, queryVars
  <2>3. ChainIsAlive'
    BY <1>5, <2>1 DEF ChainIsAlive, LoadMore, refreshVars
  <2>4. QED
    BY <1>5, <2>2, <2>3 DEF ChoiceIsPending, ChoiceSurvives, ViewMatchesToggle,
    LoadMore, refreshVars, queryVars
<1>6. CASE TimerFires
  <2>1. FreeSlots(slots) # {} /\ slots' = WithFetch(slots, "plain", query)
    BY <1>6 DEF TimerFires, Fetches
  <2>2. /\ FirstFree(slots) \in Slot
        /\ slots' \in [Slot -> Fetch \cup {NoFetch}]
        /\ slots'[FirstFree(slots)] = [kind |-> "plain", vlm |-> query.vlm]
    BY <2>1, FetchTakesAFreeSlot DEF AlertsTypeOK
  <2>3. chain' = Awaits(FirstFree(slots))
    BY <1>6 DEF TimerFires
  <2>4. AlertsTypeOK'
    BY <1>6, <2>2, <2>3 DEF AlertsTypeOK, TimerFires, Fetches, queryVars
  <2>5. ChainIsAlive'
    BY <2>2, <2>3 DEF ChainIsAlive
  <2>6. QED
    BY <1>6, <2>4, <2>5 DEF ChoiceIsPending, ChoiceSurvives, ViewMatchesToggle,
    TimerFires, Fetches, queryVars
<1>7. CASE ToggleAutoRefresh
  BY <1>7 DEF AlertsTypeOK, ChoiceIsPending, ChoiceSurvives, ViewMatchesToggle,
  ChainIsAlive, ToggleAutoRefresh, Schedule, queryVars, alertVars
<1>8. CASE Reload
  <2>1. slots' \in [Slot -> Fetch \cup {NoFetch}]
    BY <1>8, AllSlotsAreFree, FetchTakesAFreeSlot DEF Reload
  <2>2. AlertsTypeOK'
    BY <1>8, <2>1 DEF AlertsTypeOK, Reload, StoredAtMount
  <2>3. QED
    BY <1>8, <2>2 DEF AlertsTypeOK, ChoiceIsPending, ChoiceSurvives, ViewMatchesToggle,
    ChainIsAlive, Reload, StoredAtMount
<1>9. CASE Hydrate
  BY <1>9 DEF AlertsTypeOK, ChoiceIsPending, ChoiceSurvives, ViewMatchesToggle,
  ChainIsAlive, Hydrate, queryVars, alertVars
<1>10. ASSUME NEW i \in Slot, AlertSensorsAnswered(i) PROVE AlertsInv'
  <2>1. slots' \in [Slot -> Fetch \cup {NoFetch}]
    BY <1>10 DEF AlertsTypeOK, AlertSensorsAnswered, Fetch, NoFetch
  <2>2. \A k \in Slot : slots[k].kind = "plain" => slots'[k] = slots[k]
    BY <1>10 DEF AlertsTypeOK, AlertSensorsAnswered
  <2>3. AlertsTypeOK'
    BY <1>10, <2>1 DEF AlertsTypeOK, AlertSensorsAnswered, refreshVars, queryVars
  <2>4. ChainIsAlive'
    BY <1>10, <2>2 DEF ChainIsAlive, AlertSensorsAnswered, refreshVars
  <2>5. QED
    BY <1>10, <2>3, <2>4 DEF ChoiceIsPending, ChoiceSurvives, ViewMatchesToggle,
    AlertSensorsAnswered, refreshVars, queryVars
<1>11. ASSUME NEW i \in Slot, AlertsAnswered(i) PROVE AlertsInv'
  <2>1. PICK ok \in BOOLEAN, isFull \in BOOLEAN :
           /\ chain' = Rearms(i, ok)
           /\ IF StillWanted(slots[i].vlm)
              THEN /\ alertsLoading' = FALSE
                   /\ alertsError' = (alertsError \/ ~ok)
                   /\ alertRows' = IF ok THEN {[vlm |-> slots[i].vlm, part |-> "base"]}
                                   ELSE alertRows
                   /\ full' = IF ok THEN isFull ELSE full
              ELSE UNCHANGED <<alertsLoading, alertsError, alertRows, full>>
    BY <1>11 DEF AlertsAnswered
  <2>2. /\ slots[i] \in Fetch
        /\ slots' = [slots EXCEPT ![i] = NoFetch]
        /\ UNCHANGED <<queryVars, loadingMore, auto>>
    BY <1>11 DEF AlertsAnswered, AlertsTypeOK, NoFetch
  <2>3. [vlm |-> slots[i].vlm, part |-> "base"] \in [vlm : BOOLEAN, part : {"base", "older"}]
    BY <2>2 DEF Fetch
  <2>4. chain' \in {Off, TimerSet} \cup {Awaits(k) : k \in Slot}
    BY <2>1 DEF AlertsTypeOK, Rearms
  <2>5. AlertsTypeOK'
    BY <2>1, <2>2, <2>3, <2>4 DEF AlertsTypeOK, queryVars
  <2>6. ChainIsAlive'
    <3>1. CASE chain = Awaits(i)
      BY <2>1, <3>1 DEF ChainIsAlive, Rearms
    <3>2. CASE chain # Awaits(i)
      <4>1. \A k \in Slot : chain = Awaits(k) => slots'[k] = slots[k]
        BY <2>2, <3>2 DEF AlertsTypeOK
      <4>2. QED
        BY <2>1, <2>2, <3>2, <4>1 DEF ChainIsAlive, Rearms
    <3>3. QED
      BY <3>1, <3>2
  <2>7. ViewMatchesToggle'
    BY <2>1, <2>2 DEF ViewMatchesToggle, StillWanted, queryVars, AlertsTypeOK
  <2>8. QED
    BY <2>2, <2>5, <2>6, <2>7 DEF ChoiceIsPending, ChoiceSurvives, queryVars
<1>12. ASSUME NEW i \in Slot, MoreAnswered(i) PROVE AlertsInv'
  <2>1. /\ slots[i] \in Fetch
        /\ slots' = [slots EXCEPT ![i] = NoFetch]
        /\ UNCHANGED <<queryVars, alertsLoading, refreshVars>>
        /\ loadingMore' = FALSE
        /\ \/ /\ alertRows' = alertRows \cup {[vlm |-> slots[i].vlm, part |-> "older"]}
              /\ full' \in BOOLEAN
              /\ UNCHANGED alertsError
           \/ alertsError' = TRUE /\ UNCHANGED <<alertRows, full>>
    BY <1>12 DEF MoreAnswered, AlertsTypeOK, NoFetch
  <2>2. [vlm |-> slots[i].vlm, part |-> "older"] \in [vlm : BOOLEAN, part : {"base", "older"}]
    BY <2>1 DEF Fetch
  <2>3. AlertsTypeOK'
    BY <2>1, <2>2 DEF AlertsTypeOK, queryVars, refreshVars
  <2>4. \A k \in Slot : slots[k].kind = "plain" => slots'[k] = slots[k]
    BY <1>12 DEF AlertsTypeOK, MoreAnswered
  <2>5. ChainIsAlive'
    BY <2>1, <2>4 DEF ChainIsAlive, refreshVars
  <2>6. ViewMatchesToggle'
    BY <2>1 DEF ViewMatchesToggle, queryVars
  <2>7. QED
    BY <2>1, <2>3, <2>5, <2>6 DEF ChoiceIsPending, ChoiceSurvives, queryVars, refreshVars
<1>13. CASE UNCHANGED alertsVars
  BY <1>13 DEF alertsVars, queryVars, alertVars, refreshVars, AlertsTypeOK,
  ChoiceIsPending, ChoiceSurvives, ViewMatchesToggle, ChainIsAlive
<1>14. QED
  BY <1>1, <1>2, <1>3, <1>4, <1>5, <1>6, <1>7, <1>8, <1>9, <1>10, <1>11, <1>12, <1>13
  DEF AlertsNext

\* The alerts tab (useAlerts.ts, useAutoRefresh.ts): for any number of requests under
\* way, a table without spinner is one of the side of the toggle that is on, auto-refresh
\* always has a next refresh, and the user's choice of it survives every reload.
THEOREM AlertsAlwaysSound == AlertsSpec => []AlertsAreSound
<1>1. AlertsInv => AlertsAreSound
  BY DEF AlertsInv
<1>2. QED
  BY <1>1, AlertsStart, AlertsStep, PTL DEF AlertsSpec

-----------------------------------------------------------------------------
(* Alert rules *)

\* A row whose save is under way is marked, or was discarded meanwhile.
SaversAreMarked == \A d \in Drafts : saver[d] # "idle" => drafts[d] \in {"saving", "gone"}

\* A draft that has made a rule the user knows of is past its save.
MadeOnce ==
    \A r \in server : r.from \notin lost =>
        saver[r.from] = "list" \/ (saver[r.from] = "idle" /\ drafts[r.from] = "gone")

\* A list that a save waits for is that save's only.
ListsAreAwaited ==
    /\ \A l \in lists : \A d \in l.for : d \in Drafts => saver[d] = "list"
    /\ \A l, m \in lists : \A d \in l.for : d \in m.for => l = m

RulesInv ==
    /\ RulesTypeOK /\ IsFiniteSet(lists)
    /\ SaversAreMarked /\ MadeOnce /\ ListsAreAwaited /\ OneRulePerDraft

LEMMA RulesStart == RulesInit => RulesInv
<1> SUFFICES ASSUME RulesInit PROVE RulesInv
  OBVIOUS
<1>1. IsFiniteSet(lists) /\ Cardinality(lists) = 1
  BY FS_Singleton DEF RulesInit
<1>2. RulesTypeOK
  BY <1>1, RulesConstants DEF RulesInit, RulesTypeOK
<1>3. QED
  BY <1>1, <1>2 DEF RulesInit, RulesInv, SaversAreMarked, MadeOnce, ListsAreAwaited,
  OneRulePerDraft

\* One more request for the list, while there is room for it.
LEMMA ListAdded ==
    ASSUME IsFiniteSet(lists), Cardinality(lists) < MaxLists, NEW l
    PROVE  IsFiniteSet(lists \cup {l}) /\ Cardinality(lists \cup {l}) <= MaxLists
<1>1. IsFiniteSet(lists \cup {l}) /\ Cardinality(lists) \in Nat
  BY FS_AddElement, FS_CardinalityType
<1>2. Cardinality(lists \cup {l}) \in {Cardinality(lists), Cardinality(lists) + 1}
  BY FS_AddElement
<1>3. QED
  BY <1>1, <1>2, RulesConstants

LEMMA ListRemoved ==
    ASSUME IsFiniteSet(lists), Cardinality(lists) <= MaxLists, NEW l \in lists
    PROVE  IsFiniteSet(lists \ {l}) /\ Cardinality(lists \ {l}) <= MaxLists
<1>1. IsFiniteSet(lists \ {l}) /\ Cardinality(lists) \in Nat
      /\ Cardinality(lists \ {l}) = Cardinality(lists) - 1
  BY FS_RemoveElement, FS_CardinalityType
<1>2. QED
  BY <1>1, RulesConstants

LEMMA IdsAreNumbers == RulesTypeOK => Ids \subseteq Numbers
BY DEF RulesTypeOK, Ids

LEMMA RulesStep == RulesInv /\ [RulesNext]_rulesVars => RulesInv'
<1> SUFFICES ASSUME RulesInv, [RulesNext]_rulesVars PROVE RulesInv'
  OBVIOUS
<1> USE DEF RulesInv, listVars, draftVars, deleteVars
<1>1. CASE RefreshRules
  <2>1. IsFiniteSet(lists') /\ Cardinality(lists') <= MaxLists
    BY <1>1, ListAdded DEF RefreshRules, FetchRules
  <2>2. RulesTypeOK'
    BY <1>1, <2>1, IdsAreNumbers DEF RefreshRules, FetchRules, RulesTypeOK
  <2>3. QED
    BY <1>1, <2>1, <2>2
    DEF RefreshRules, FetchRules, SaversAreMarked, MadeOnce, ListsAreAwaited, OneRulePerDraft
<1>2. CASE StreamsAnswered \/ RetryStreams \/ CancelDelete
  BY <1>2, RulesConstants DEF StreamsAnswered, RetryStreams, LoadLiveStreams, CancelDelete,
  RulesTypeOK, SaversAreMarked, MadeOnce, ListsAreAwaited, OneRulePerDraft
<1>3. ASSUME NEW l \in lists, ListAnswered(l) PROVE RulesInv'
  <2>1. IsFiniteSet(lists') /\ Cardinality(lists') <= MaxLists
    BY <1>3, ListRemoved DEF ListAnswered, RulesTypeOK
  <2>2. rules' \subseteq Numbers
    BY <1>3, IdsAreNumbers DEF ListAnswered, RulesTypeOK
  <2>3. RulesTypeOK'
    BY <1>3, <2>1, <2>2 DEF ListAnswered, RulesTypeOK
  <2>4. \A d \in Drafts :
           /\ d \in l.for => saver'[d] = "idle" /\ drafts'[d] = "gone"
           /\ d \notin l.for => saver'[d] = saver[d] /\ drafts'[d] = drafts[d]
    BY <1>3 DEF ListAnswered
  <2>5. SaversAreMarked'
    BY <2>4 DEF SaversAreMarked
  <2>6. MadeOnce'
    <3>1. \A r \in server : r.from \in Drafts
      BY DEF RulesTypeOK
    <3>2. QED
      BY <1>3, <2>4, <3>1 DEF MadeOnce, ListAnswered
  <2>7. ListsAreAwaited'
    BY <1>3, <2>4 DEF ListsAreAwaited, ListAnswered
  <2>8. QED
    BY <1>3, <2>1, <2>3, <2>5, <2>6, <2>7 DEF ListAnswered, OneRulePerDraft
<1>4. ASSUME NEW d \in Drafts, AddDraft(d) \/ RemoveDraft(d) \/ SaveDraft(d)
      PROVE  RulesInv'
  <2>1. /\ UNCHANGED <<server, createdRules, listVars, lost, deleteVars>>
        /\ drafts[d] # "gone" /\ (drafts[d] = "saving" => RemoveDraft(d))
        /\ saver' \in {saver, [saver EXCEPT ![d] = "resolve"]}
        /\ ruleStreams' \in {ruleStreams, "loading"}
        /\ \E shown \in {"edit", "gone", "error", "saving"} :
               /\ drafts' = [drafts EXCEPT ![d] = shown]
               /\ saver' # saver => shown = "saving"
               /\ drafts[d] = "saving" => shown = "gone"
        /\ saver' # saver => drafts[d] # "saving"
    BY <1>4 DEF AddDraft, RemoveDraft, SaveDraft, MarkedSaving, LoadLiveStreams
  <2>2. RulesTypeOK'
    BY <2>1 DEF RulesTypeOK
  <2>3. SaversAreMarked'
    BY <2>1 DEF SaversAreMarked, RulesTypeOK
  <2>4. MadeOnce'
    <3>1. \A r \in server : r.from \in Drafts
      BY DEF RulesTypeOK
    <3>2. \A r \in server : r.from # d => saver'[r.from] = saver[r.from]
                                          /\ drafts'[r.from] = drafts[r.from]
      BY <2>1, <3>1 DEF RulesTypeOK
    <3>3. \A r \in server : r.from = d /\ r.from \notin lost =>
             saver[d] = "list" /\ drafts[d] = "saving"
      BY <2>1 DEF MadeOnce, SaversAreMarked
    <3>4. \A r \in server : r.from = d /\ r.from \notin lost => saver'[d] = "list"
      BY <2>1, <3>3
    <3>5. QED
      BY <2>1, <3>2, <3>4 DEF MadeOnce
  <2>5. ListsAreAwaited'
    <3>1. \A e \in Drafts : saver[e] = "list" => saver'[e] = "list"
      BY <2>1 DEF SaversAreMarked, RulesTypeOK
    <3>2. QED
      BY <2>1, <3>1 DEF ListsAreAwaited
  <2>6. QED
    BY <2>1, <2>2, <2>3, <2>4, <2>5 DEF OneRulePerDraft
<1>5. ASSUME NEW d \in Drafts, SensorResolved(d) PROVE RulesInv'
  <2>1. /\ UNCHANGED <<server, createdRules, listVars, lost, deleteVars, ruleStreams>>
        /\ saver[d] = "resolve" /\ drafts[d] \in {"saving", "gone"}
        /\ \/ saver' = [saver EXCEPT ![d] = "post"] /\ drafts' = drafts
           \/ saver' = [saver EXCEPT ![d] = "idle"] /\ drafts' = Failed(d)
    BY <1>5 DEF SensorResolved, SaversAreMarked
  <2>2. /\ Failed(d) \in [Drafts -> {"new", "edit", "saving", "error", "gone"}]
        /\ \A e \in Drafts : e # d => Failed(d)[e] = drafts[e]
    BY DEF Failed, RulesTypeOK
  <2>3. RulesTypeOK'
    BY <2>1, <2>2 DEF RulesTypeOK
  <2>4. SaversAreMarked'
    BY <2>1, <2>2 DEF SaversAreMarked, RulesTypeOK
  <2>5. \A r \in server : r.from \in Drafts /\ (r.from = d => d \in lost)
    BY <2>1 DEF RulesTypeOK, MadeOnce
  <2>6. MadeOnce'
    BY <2>1, <2>2, <2>5 DEF MadeOnce, RulesTypeOK
  <2>7. ListsAreAwaited'
    BY <2>1 DEF ListsAreAwaited, RulesTypeOK
  <2>8. QED
    BY <2>1, <2>3, <2>4, <2>6, <2>7 DEF OneRulePerDraft
<1>6. ASSUME NEW d \in Drafts, PostAnswered(d) PROVE RulesInv'
  <2>1. saver[d] = "post" /\ drafts[d] \in {"saving", "gone"} /\ UNCHANGED <<deleteVars, ruleStreams>>
    BY <1>6 DEF PostAnswered, SaversAreMarked
  <2>2. /\ Failed(d) \in [Drafts -> {"new", "edit", "saving", "error", "gone"}]
        /\ \A e \in Drafts : e # d => Failed(d)[e] = drafts[e]
    BY DEF Failed, RulesTypeOK
  <2>3. \A r \in server : r.from \in Drafts /\ (r.from = d => d \in lost)
    BY <2>1 DEF RulesTypeOK, MadeOnce
  <2>4. \A l \in lists : d \notin l.for
    BY <2>1 DEF ListsAreAwaited
  <2>5. CASE /\ saver' = [saver EXCEPT ![d] = "idle"] /\ drafts' = Failed(d)
             /\ UNCHANGED <<server, createdRules, lost, listVars>>
    <3>1. RulesTypeOK'
      BY <2>1, <2>2, <2>5 DEF RulesTypeOK
    <3>2. SaversAreMarked'
      BY <2>1, <2>2, <2>5 DEF SaversAreMarked, RulesTypeOK
    <3>3. MadeOnce'
      BY <2>1, <2>2, <2>3, <2>5 DEF MadeOnce, RulesTypeOK
    <3>4. ListsAreAwaited'
      BY <2>4, <2>5 DEF ListsAreAwaited, RulesTypeOK
    <3>5. QED
      BY <2>5, <3>1, <3>2, <3>3, <3>4 DEF OneRulePerDraft
  <2>6. ASSUME RuleCreated(d) PROVE
          /\ createdRules' \in 0 .. MaxRules
          /\ \E new \in [id : Numbers, from : {d}] : server' = server \cup {new}
          /\ server' \subseteq [id : Numbers, from : Drafts]
    <3>1. createdRules + 1 \in Numbers
      BY <2>6, RulesConstants DEF RuleCreated, RulesTypeOK, Numbers
    <3>2. createdRules' \in 0 .. MaxRules
      BY <2>6, RulesConstants DEF RuleCreated, RulesTypeOK
    <3> DEFINE new == [id |-> createdRules + 1, from |-> d]
    <3>3. new \in [id : Numbers, from : {d}]
      BY <3>1
    <3>4. server' = server \cup {new}
      BY <2>6 DEF RuleCreated
    <3>5. server' \subseteq [id : Numbers, from : Drafts]
      BY <3>3, <3>4 DEF RulesTypeOK
    <3> HIDE DEF new
    <3>6. QED
      BY <3>2, <3>3, <3>4, <3>5
  <2>7. CASE /\ RuleCreated(d)
             /\ saver' = [saver EXCEPT ![d] = "idle"] /\ drafts' = Failed(d)
             /\ lost' = lost \cup {d}
             /\ UNCHANGED listVars
    <3>1. RulesTypeOK'
      BY <2>1, <2>2, <2>6, <2>7 DEF RulesTypeOK
    <3>2. SaversAreMarked'
      BY <2>1, <2>2, <2>7 DEF SaversAreMarked, RulesTypeOK
    <3>3. \A r \in server' : r \in server \/ r.from = d
      BY <2>6, <2>7
    <3>4. MadeOnce'
      BY <2>2, <2>3, <2>7, <3>3 DEF MadeOnce, RulesTypeOK
    <3>5. ListsAreAwaited'
      BY <2>4, <2>7 DEF ListsAreAwaited, RulesTypeOK
    <3>6. OneRulePerDraft'
      BY <2>7, <3>3 DEF OneRulePerDraft
    <3>7. QED
      BY <2>7, <3>1, <3>2, <3>4, <3>5, <3>6
  <2>8. CASE /\ RuleCreated(d)
             /\ saver' = [saver EXCEPT ![d] = "list"]
             /\ Cardinality(lists) < MaxLists
             /\ lists' = lists \cup {[for |-> {d}, seen |-> {r.id : r \in server'}]}
             /\ rulesLoading' = TRUE
             /\ UNCHANGED <<drafts, lost, rules>>
    <3>1. IsFiniteSet(lists') /\ Cardinality(lists') <= MaxLists
      BY <2>8, ListAdded
    <3>2. {r.id : r \in server'} \subseteq Numbers
      BY <2>6, <2>8
    <3>3. RulesTypeOK'
      BY <2>1, <2>6, <2>8, <3>1, <3>2 DEF RulesTypeOK
    <3>4. SaversAreMarked'
      BY <2>1, <2>8 DEF SaversAreMarked, RulesTypeOK
    <3>5. \E new \in [id : Numbers, from : {d}] : server' = server \cup {new}
      BY <2>6, <2>8
    <3>6. MadeOnce'
      BY <2>3, <2>8, <3>5 DEF MadeOnce, RulesTypeOK
    <3>7. ListsAreAwaited'
      <4>1. \A e \in Drafts : saver[e] = "list" => saver'[e] = "list"
        BY <2>8 DEF RulesTypeOK
      <4>2. saver'[d] = "list"
        BY <2>8 DEF RulesTypeOK
      <4>3. \A l \in lists' : l \in lists \/ l.for = {d}
        BY <2>8
      <4>4. \A l \in lists' : \A e \in l.for : e \in Drafts => saver'[e] = "list"
        BY <4>1, <4>2, <4>3 DEF ListsAreAwaited
      <4> DEFINE waited == [for |-> {d}, seen |-> {r.id : r \in server'}]
      <4> lists' = lists \cup {waited} /\ waited.for = {d}
        BY <2>8
      <4> HIDE DEF waited
      <4>5. \A l, m \in lists' : \A e \in l.for : e \in m.for => l = m
        BY <2>4 DEF ListsAreAwaited
      <4>6. QED
        BY <4>4, <4>5 DEF ListsAreAwaited
    <3>8. OneRulePerDraft'
      BY <2>3, <2>8, <3>5 DEF OneRulePerDraft
    <3>9. QED
      BY <2>8, <3>1, <3>3, <3>4, <3>6, <3>7, <3>8
  <2>9. QED
    BY <1>6, <2>5, <2>7, <2>8 DEF PostAnswered
<1>7. ASSUME NEW r \in Numbers, AskDelete(r) \/ HandleDelete(r) \/ DeleteAnswered(r)
      PROVE  RulesInv'
  <2>1. /\ UNCHANGED <<createdRules, lists, rulesLoading, draftVars, ruleStreams>>
        /\ server' \subseteq server /\ rules' \subseteq rules
        /\ pendingDelete' \in {pendingDelete, r, 0} /\ deletingId' \in {deletingId, r, 0}
        /\ deletes' \subseteq deletes \cup {r}
    BY <1>7 DEF AskDelete, HandleDelete, DeleteAnswered
  <2>2. r \in 0 .. MaxRules /\ 0 \in 0 .. MaxRules
    BY RulesConstants DEF Numbers
  <2>3. RulesTypeOK'
    BY <2>1, <2>2 DEF RulesTypeOK
  <2>4. QED
    BY <2>1, <2>3 DEF SaversAreMarked, MadeOnce, ListsAreAwaited, OneRulePerDraft
<1>8. CASE UNCHANGED rulesVars
  BY <1>8 DEF rulesVars, RulesTypeOK, SaversAreMarked, MadeOnce, ListsAreAwaited,
  OneRulePerDraft
<1>9. QED
  BY <1>1, <1>2, <1>3, <1>4, <1>5, <1>6, <1>7, <1>8 DEF RulesNext

\* Manage Alerts (CreateAlertRulesView.tsx): for any number of drafts, rules and requests
\* for the list, a draft makes one rule, unless the answer of its save was lost.
THEOREM DraftsMakeOneRule == RulesSpec => []OneRulePerDraft
<1>1. RulesInv => OneRulePerDraft
  BY DEF RulesInv
<1>2. QED
  BY <1>1, RulesStart, RulesStep, PTL DEF RulesSpec

LEMMA RulesStepLosesNothing ==
    ASSUME RulesInv, [RulesNext]_rulesVars
    PROVE  /\ \A d \in Drafts : drafts[d] = "saving" /\ drafts'[d] = "gone" =>
                  saver[d] = "list" \/ RemoveDraft(d)
           /\ deletes' \subseteq deletes \cup {pendingDelete}
<1> USE DEF RulesInv, listVars, draftVars, deleteVars
<1>1. ASSUME NEW d \in Drafts, drafts[d] = "saving", drafts'[d] = "gone"
      PROVE  saver[d] = "list" \/ RemoveDraft(d)
  <2>1. CASE UNCHANGED drafts
    BY <1>1, <2>1
  <2>2. ASSUME NEW l \in lists, ListAnswered(l) PROVE saver[d] = "list"
    BY <1>1, <2>2 DEF ListAnswered, ListsAreAwaited
  <2>3. ASSUME NEW e \in Drafts, e # d,
               \/ AddDraft(e) \/ RemoveDraft(e) \/ SaveDraft(e)
               \/ SensorResolved(e) \/ PostAnswered(e)
        PROVE  FALSE
    BY <1>1, <2>3 DEF AddDraft, RemoveDraft, SaveDraft, MarkedSaving, SensorResolved,
    PostAnswered, Failed, RulesTypeOK
  <2>4. CASE AddDraft(d) \/ SaveDraft(d) \/ SensorResolved(d) \/ PostAnswered(d)
    BY <1>1, <2>4 DEF AddDraft, SaveDraft, MarkedSaving, SensorResolved,
    PostAnswered, Failed, RulesTypeOK
  <2>5. CASE \/ RefreshRules \/ StreamsAnswered \/ RetryStreams \/ CancelDelete
             \/ \E r \in Numbers : AskDelete(r) \/ HandleDelete(r) \/ DeleteAnswered(r)
             \/ UNCHANGED rulesVars
    BY <2>1, <2>5 DEF RefreshRules, StreamsAnswered, RetryStreams, CancelDelete, AskDelete,
    HandleDelete, DeleteAnswered, rulesVars
  <2>6. QED
    BY <2>2, <2>3, <2>4, <2>5 DEF RulesNext
<1>2. deletes' \subseteq deletes \cup {pendingDelete}
  <2>1. ASSUME NEW r \in Numbers, AskDelete(r) \/ HandleDelete(r) \/ DeleteAnswered(r)
        PROVE  deletes' \subseteq deletes \cup {pendingDelete}
    BY <2>1 DEF AskDelete, HandleDelete, Confirmed, DeleteAnswered
  <2>2. ASSUME NEW d \in Drafts,
               \/ AddDraft(d) \/ RemoveDraft(d) \/ SaveDraft(d)
               \/ SensorResolved(d) \/ PostAnswered(d)
        PROVE  deletes' = deletes
    BY <2>2 DEF AddDraft, RemoveDraft, SaveDraft, SensorResolved, PostAnswered
  <2>3. ASSUME NEW l \in lists, ListAnswered(l) PROVE deletes' = deletes
    BY <2>3 DEF ListAnswered
  <2>4. QED
    BY <2>1, <2>2, <2>3 DEF RulesNext, RefreshRules, StreamsAnswered, RetryStreams,
    CancelDelete, rulesVars
<1>3. QED
  BY <1>1, <1>2

\* A save that fails, however late, never takes the row with it, and no rule is deleted
\* that the user was not asked about first.
THEOREM DraftsAreNotLost == RulesSpec => NothingIsLost
<1>1. RulesInv /\ [RulesNext]_rulesVars =>
        [/\ \A d \in Drafts : drafts[d] = "saving" /\ drafts'[d] = "gone" =>
                  saver[d] = "list" \/ RemoveDraft(d)
         /\ deletes' \subseteq deletes \cup {pendingDelete}]_rulesVars
  BY RulesStepLosesNothing
<1>2. QED
  BY <1>1, RulesStart, RulesStep, PTL DEF RulesSpec, NothingIsLost

-----------------------------------------------------------------------------
(* The search tab *)

SearchInv == SearchTabTypeOK /\ SearchIsCancellable

LEMMA SearchStart == SearchTabInit => SearchInv
<1> SUFFICES ASSUME SearchTabInit PROVE SearchInv
  OBVIOUS
<1>1. searches \in 0 .. MaxSearches /\ live \in 0 .. searches /\ results \in 0 .. searches
  BY SearchConstants DEF SearchTabInit
<1>2. lastAnswer \in 0 .. MaxTurns /\ agentResults \in 0 .. MaxTurns
  BY SearchConstants DEF SearchTabInit
<1>3. SearchTabTypeOK
  BY <1>1, <1>2 DEF SearchTabInit, SearchTabTypeOK
<1>4. SearchIsCancellable
  BY DEF SearchTabInit, SearchIsCancellable
<1>5. QED
  BY <1>3, <1>4 DEF SearchInv

LEMMA FetchKeepsSearch ==
    ASSUME SearchInv, FetchSearch, ~searchLoading,
           UNCHANGED <<homeVars, turnVars, bridgeVars>>
    PROVE  SearchInv'
<1>1. live = 0 /\ searches' = searches + 1 /\ live' = searches + 1 /\ searchLoading' = TRUE
      /\ agentResults' = 0 /\ results' = 0 /\ searchError' = FALSE
  BY DEF FetchSearch, ClearsResults, SearchInv, SearchIsCancellable
<1>2. searches + 1 \in 0 .. MaxSearches /\ searches + 1 # 0
  BY SearchConstants DEF FetchSearch, SearchInv, SearchTabTypeOK
<1>3. live' \in 0 .. searches' /\ results' \in 0 .. searches' /\ agentResults' \in 0 .. MaxTurns
  BY <1>1, <1>2, SearchConstants
<1>4. SearchTabTypeOK'
  BY <1>1, <1>2, <1>3 DEF SearchInv, SearchTabTypeOK, homeVars, turnVars, bridgeVars
<1>5. QED
  BY <1>1, <1>2, <1>4 DEF SearchInv, SearchIsCancellable

LEMMA SearchStep == SearchInv /\ [SearchTabNext]_searchTabVars => SearchInv'
<1> SUFFICES ASSUME SearchInv, [SearchTabNext]_searchTabVars PROVE SearchInv'
  OBVIOUS
<1> USE SearchConstants DEF SearchInv, homeVars, turnVars, bridgeVars, querySearch
<1> USE DEF Turns, UnderWay
<1>1. ASSUME NEW tab \in MainTabs, SwitchMainTab(tab) PROVE SearchInv'
  <2>1. CASE "chat" \in {tab, mainTab}
    <3>1. /\ live' = 0 /\ ~searchLoading' /\ ~searchError' /\ results' = 0
          /\ agentResults' = 0 /\ lastAnswer' = 0 /\ searches' = searches
          /\ mainTab' = tab
      BY <1>1, <2>1 DEF SwitchMainTab, Remount
    <3>2. turns' \in [Turns -> UnderWay \cup {"unsent", "done"}]
      BY <1>1, <2>1 DEF SwitchMainTab, Remount, SearchTabTypeOK
    <3>3. /\ live' \in 0 .. searches' /\ results' \in 0 .. searches'
          /\ agentResults' \in 0 .. MaxTurns /\ lastAnswer' \in 0 .. MaxTurns
      BY <3>1 DEF SearchTabTypeOK
    <3>4. SearchTabTypeOK'
      BY <1>1, <2>1, <3>1, <3>2, <3>3 DEF SwitchMainTab, Remount, SearchTabTypeOK
    <3>5. SearchIsCancellable'
      BY <3>1 DEF SearchIsCancellable
    <3>6. QED
      BY <3>4, <3>5
  <2>2. CASE "chat" \notin {tab, mainTab}
    BY <1>1, <2>2 DEF SwitchMainTab, SearchTabTypeOK, SearchIsCancellable
  <2>3. QED
    BY <2>1, <2>2
<1>2. CASE SetCollapsed
  BY <1>2 DEF SetCollapsed, SearchTabTypeOK, SearchIsCancellable
<1>3. ASSUME NEW t \in Turns, NEW fromTab \in BOOLEAN, HandleSend(t, fromTab)
      PROVE  SearchInv'
  <2>1. turns' \in [Turns -> UnderWay \cup {"unsent", "done"}]
    BY <1>3 DEF HandleSend, SearchTabTypeOK
  <2>2. /\ searches' = searches /\ live' = live /\ searchLoading' = searchLoading
        /\ results' = 0 /\ ~searchError' /\ lastAnswer' = 0 /\ agentResults' = 0
        /\ pendingContext' = mainTab /\ mainTab' = mainTab /\ mainTab # "chat"
    BY <1>3 DEF HandleSend, HandleSidebarMessageSubmitted, ClearsResults
  <2>3. /\ results' \in 0 .. searches' /\ agentResults' \in 0 .. MaxTurns
        /\ lastAnswer' \in 0 .. MaxTurns /\ pendingContext' \in {"search", "alerts", "none"}
    BY <2>2 DEF SearchTabTypeOK, MainTabs
  <2>4. {busy, executing, highlight, streaming, searchError}' \subseteq BOOLEAN
    BY <1>3 DEF HandleSend, HandleSidebarMessageSubmitted, ClearsResults, SearchTabTypeOK
  <2>5. SearchTabTypeOK'
    BY <1>3, <2>1, <2>2, <2>3, <2>4 DEF HandleSend, SearchTabTypeOK
  <2>6. SearchIsCancellable'
    BY <2>2 DEF SearchIsCancellable
  <2>7. QED
    BY <2>5, <2>6
<1>4. ASSUME NEW t \in Turns,
             \/ AnswerTextArrives(t) \/ OpenModal(t)
             \/ HttpStreamEnds(t) \/ StreamingEnds(t) \/ DetachedEnds(t)
      PROVE  SearchInv'
  <2>1. UNCHANGED <<homeVars, querySearch>>
    BY <1>4 DEF AnswerTextArrives, OpenModal, HttpStreamEnds, StreamingEnds, DetachedEnds
  <2>2. turns' \in [Turns -> UnderWay \cup {"unsent", "done"}]
    BY <1>4 DEF AnswerTextArrives, OpenModal, HttpStreamEnds, StreamingEnds, DetachedEnds,
    SearchTabTypeOK
  <2>3. lastAnswer' \in 0 .. MaxTurns
    BY <1>4 DEF AnswerTextArrives, OpenModal, HttpStreamEnds, StreamingEnds, DetachedEnds,
    SearchTabTypeOK
  <2>4. agentResults' \in 0 .. MaxTurns
    BY <1>4 DEF AnswerTextArrives, OpenModal, HttpStreamEnds, StreamingEnds, DetachedEnds,
    Announced, NothingAnnounced, HandleAnswerWithContent, SearchTabTypeOK
  <2>5. /\ {busy, executing, highlight}' \subseteq BOOLEAN
        /\ pendingContext' \in {"search", "alerts", "none"}
    BY <1>4 DEF AnswerTextArrives, OpenModal, HttpStreamEnds, StreamingEnds, DetachedEnds,
    Announced, NothingAnnounced, HandleSidebarAnswerComplete, SearchTabTypeOK
  <2>6. streaming' \in BOOLEAN
    BY <1>4 DEF AnswerTextArrives, OpenModal, HttpStreamEnds, StreamingEnds, DetachedEnds,
    SearchTabTypeOK
  <2>7. SearchTabTypeOK'
    BY <2>1, <2>2, <2>3, <2>4, <2>5, <2>6 DEF SearchTabTypeOK
  <2>8. SearchIsCancellable'
    BY <2>1 DEF SearchIsCancellable
  <2>9. QED
    BY <2>7, <2>8
<1>5. CASE Search
  BY <1>5, FetchKeepsSearch DEF Search, ContentDisabled
<1>6. CASE Refetch
  BY <1>6, FetchKeepsSearch DEF Refetch, ErrorShown
<1>7. CASE CancelSearch
  BY <1>7 DEF CancelSearch, AbortSearch, SearchTabTypeOK, SearchIsCancellable
<1>8. ASSUME NEW ok \in BOOLEAN, SearchAnswered(ok) PROVE SearchInv'
  BY <1>8 DEF SearchAnswered, SearchTabTypeOK, SearchIsCancellable
<1>9. CASE UNCHANGED searchTabVars
  BY <1>9 DEF searchTabVars, SearchTabTypeOK, SearchIsCancellable
<1>10. QED
  BY <1>1, <1>2, <1>3, <1>4, <1>5, <1>6, <1>7, <1>8, <1>9 DEF SearchTabNext

\* The search tab (useSearch.ts): for any number of searches and of questions asked from
\* the sidebar, the spinner and its Cancel button are there exactly while a search runs,
\* and results and error are those of the search sent last.
THEOREM SearchAlwaysCancellable == SearchTabSpec => []SearchIsCancellable
<1>1. SearchInv => SearchIsCancellable
  BY DEF SearchInv
<1>2. QED
  BY <1>1, SearchStart, SearchStep, PTL DEF SearchTabSpec

-----------------------------------------------------------------------------
(* The clip player *)

\* The spinner belongs to the call made last, until that one's own answer.
SpinnerFollows ==
    /\ \A n \in 1 .. MaxAsks : n > asked => calls[n].at = "done"
    /\ spinner # NoClip =>
           asked > 0 /\ calls[asked].at # "done" /\ spinner = calls[asked].clip
    /\ playerTab = "alerts" /\ asked > 0 /\ calls[asked].at # "done" =>
           spinner = calls[asked].clip

PlayerInv == PlayerTypeOK /\ SpinnerFollows

LEMMA PlayerStart == PlayerInit => PlayerInv
BY PlayerConstants DEF PlayerInit, PlayerInv, PlayerTypeOK, SpinnerFollows, NotCalled

\* A call that ends: the spinner stays when a newer call has taken it.
LEMMA EndKeepsPlayer ==
    ASSUME PlayerInv, NEW n \in 1 .. MaxAsks, calls[n].at # "done", Ends(n),
           UNCHANGED <<playerTab, asked>>, modal' \in {NoClip, modal, calls[n].clip}
    PROVE  PlayerInv'
<1> USE PlayerConstants DEF PlayerInv
<1>1. n \in 1 .. asked
  BY DEF PlayerTypeOK, SpinnerFollows
<1>2. /\ calls' \in [1 .. MaxAsks -> [clip : {NoClip} \cup Clips, at : {"check", "vst", "done"}]]
      /\ calls'[n].at = "done"
      /\ \A m \in 1 .. MaxAsks : m # n => calls'[m] = calls[m]
  BY DEF Ends, PlayerTypeOK
<1>3. PlayerTypeOK'
  BY <1>2 DEF Ends, SpinnerAfter, PlayerTypeOK
<1>4. SpinnerFollows'
  BY <1>1, <1>2 DEF Ends, SpinnerAfter, Aborted, PlayerTypeOK, SpinnerFollows
<1>5. QED
  BY <1>3, <1>4

LEMMA PlayerStep == PlayerInv /\ [PlayerNext]_playerVars => PlayerInv'
<1> SUFFICES ASSUME PlayerInv, [PlayerNext]_playerVars PROVE PlayerInv'
  OBVIOUS
<1> USE PlayerConstants DEF PlayerInv
<1>1. ASSUME NEW c \in Clips, Ask(c) PROVE PlayerInv'
  <2>1. asked + 1 \in 1 .. MaxAsks /\ asked' = asked + 1 /\ UNCHANGED <<playerTab, modal>>
    BY <1>1 DEF Ask, PlayerTypeOK
  <2>2. CASE /\ calls' = [calls EXCEPT ![asked'] =
                    [clip |-> c, at |-> IF playerTab = "alerts" /\ c \in ClipSources
                                        THEN "check" ELSE "vst"]]
             /\ spinner' = c
    BY <2>1, <2>2 DEF PlayerTypeOK, SpinnerFollows
  <2>3. CASE UNCHANGED calls /\ spinner' = NoClip
    BY <2>1, <2>3 DEF PlayerTypeOK, SpinnerFollows
  <2>4. QED
    BY <1>1, <2>2, <2>3 DEF Ask
<1>2. ASSUME NEW n \in 1 .. MaxAsks, CheckAnswered(n) PROVE PlayerInv'
  <2>1. CASE Ends(n)
    BY <1>2, <2>1, EndKeepsPlayer DEF CheckAnswered
  <2>2. CASE calls' = [calls EXCEPT ![n].at = "vst"] /\ UNCHANGED <<spinner, modal>>
    <3>1. /\ calls' \in [1 .. MaxAsks -> [clip : {NoClip} \cup Clips,
                                          at : {"check", "vst", "done"}]]
          /\ \A m \in 1 .. MaxAsks : calls'[m].clip = calls[m].clip
                                     /\ (calls'[m].at = "done" <=> calls[m].at = "done")
      BY <1>2, <2>2 DEF CheckAnswered, PlayerTypeOK
    <3>2. UNCHANGED <<playerTab, asked, spinner, modal>>
      BY <1>2, <2>2 DEF CheckAnswered
    <3>3. asked > 0 => asked \in 1 .. MaxAsks
      BY DEF PlayerTypeOK
    <3>4. QED
      BY <3>1, <3>2, <3>3 DEF PlayerTypeOK, SpinnerFollows
  <2>3. QED
    BY <1>2, <2>1, <2>2 DEF CheckAnswered
<1>3. ASSUME NEW n \in 1 .. MaxAsks, VstAnswered(n) PROVE PlayerInv'
  BY <1>3, EndKeepsPlayer DEF VstAnswered
<1>4. CASE CloseVideoModal \/ UNCHANGED playerVars
  BY <1>4 DEF CloseVideoModal, playerVars, PlayerTypeOK, SpinnerFollows
<1>5. QED
  BY <1>1, <1>2, <1>3, <1>4 DEF PlayerNext

LEMMA PlayerStepFollows ==
    ASSUME PlayerInv, PlayerInv', [PlayerNext]_playerVars
    PROVE  /\ modal' \notin {modal, NoClip} => modal' = calls[asked].clip
           /\ spinner' # NoClip => calls'[asked'].at # "done" /\ spinner' = calls'[asked'].clip
           /\ playerTab = "alerts" /\ asked' > 0 /\ calls'[asked'].at # "done" =>
                  spinner' = calls'[asked'].clip
<1>1. playerTab' = playerTab
  BY DEF PlayerNext, Ask, CheckAnswered, VstAnswered, CloseVideoModal, playerVars
<1>2. ASSUME modal' \notin {modal, NoClip} PROVE modal' = calls[asked].clip
  <2>1. PICK n \in 1 .. MaxAsks : calls[n].at # "done" /\ ~Aborted(n) /\ modal' = calls[n].clip
    BY <1>2 DEF PlayerNext, Ask, CheckAnswered, VstAnswered, CloseVideoModal, playerVars
  <2>2. n = asked
    BY <2>1, PlayerConstants DEF PlayerInv, PlayerTypeOK, SpinnerFollows, Aborted
  <2>3. QED
    BY <2>1, <2>2
<1>3. QED
  BY <1>1, <1>2 DEF PlayerInv, SpinnerFollows

\* Playing a clip (useVideoModal.ts), for any number of clips asked for: whatever order
\* the answers come in, the clip asked for last is the one that plays and spins.
LEMMA PlayerAlwaysFollows == PlayerSpec => PlayerFollowsTheLastClick
<1>1. PlayerInv /\ PlayerInv' /\ [PlayerNext]_playerVars =>
        [/\ modal' \notin {modal, NoClip} => modal' = calls[asked].clip
         /\ spinner' # NoClip => calls'[asked'].at # "done" /\ spinner' = calls'[asked'].clip
         /\ playerTab = "alerts" /\ asked' > 0 /\ calls'[asked'].at # "done" =>
                  spinner' = calls'[asked'].clip]_playerVars
  BY PlayerStepFollows
<1>2. QED
  BY <1>1, PlayerStart, PlayerStep, PTL DEF PlayerSpec, PlayerFollowsTheLastClick

-----------------------------------------------------------------------------
(* The refresh interval *)

Intervals == {DefaultInterval} \cup Second .. Hour

\* The interval in effect and the one stored are both ones the panel accepts.
PanelInv ==
    /\ PanelTypeOK
    /\ refreshInterval \in Intervals /\ savedInterval \in {0} \cup Intervals
    /\ IntervalIsTheOneShown

LEMMA IntervalsArePositive ==
    /\ \A n \in Intervals : n \in Nat /\ n # 0
    /\ \A n \in Second .. Hour : n \in Nat /\ n # 0 /\ n # NaN
<1>1. Second \in Nat /\ Second # 0 /\ Hour \in Nat
  BY DEF Second, Hour
<1>2. \A n \in Second .. Hour : n \in Nat /\ n # 0
  BY <1>1
<1>3. QED
  BY <1>2, PanelConstants DEF Intervals

LEMMA ParsedInterval == \A n \in Nat : Parsed(10 * n) = n /\ 10 * n \in Nat
BY PanelConstants DEF Parsed

LEMMA PanelStart == PanelInit => PanelInv
<1> SUFFICES ASSUME PanelInit PROVE PanelInv
  OBVIOUS
<1>1. tempValue \in Nat /\ refreshInterval \in Nat \ {0} /\ savedInterval = 0
  BY PanelConstants DEF PanelInit
<1>2. refreshInterval \in Intervals /\ refreshInterval = DefaultInterval
  BY DEF PanelInit, Intervals
<1>3. PanelTypeOK
  <2>1. {panelOpen, refreshing, locked, intervalError, hydrated} \subseteq BOOLEAN
    BY Zenon DEF PanelInit
  <2>2. QED
    BY <1>1, <2>1 DEF PanelTypeOK
<1>4. IntervalIsTheOneShown
  BY <1>2 DEF PanelInit, IntervalIsTheOneShown
<1>5. QED
  BY <1>1, <1>2, <1>3, <1>4 DEF PanelInv

LEMMA PanelStep == PanelInv /\ [PanelNext]_panelVars => PanelInv'
<1> SUFFICES ASSUME PanelInv, [PanelNext]_panelVars PROVE PanelInv'
  OBVIOUS
<1> refreshInterval \in Nat /\ savedInterval \in Nat /\ PanelTypeOK
  BY DEF PanelInv, PanelTypeOK
<1>1. ASSUME NEW text \in Typed \cup {10 * p : p \in Presets}, HandleInputChange(text)
      PROVE  PanelInv'
  <2>1. text \in Nat \cup {NaN}
    <3>1. \A p \in Presets : p \in Nat
      BY DEF Presets, Second
    <3>2. QED
      BY <3>1, PanelConstants
  <2>2. panelOpen /\ UNCHANGED <<panelOpen, refreshing, locked, hydrated>>
    BY <1>1 DEF HandleInputChange
  <2>3. CASE ValidateIntervalInput(text)
    <3>1. Parsed(text) \in Second .. Hour
      BY <2>3 DEF ValidateIntervalInput
    <3>2. Parsed(text) \in Nat \ {0} /\ Parsed(text) \in Intervals
      BY <3>1, IntervalsArePositive DEF Intervals
    <3>3. /\ refreshInterval' = Parsed(text)
          /\ savedInterval' = IF hydrated' THEN Parsed(text) ELSE savedInterval
      BY <1>1, <2>3 DEF HandleInputChange, InEffect
    <3>4. intervalError' = FALSE
          /\ tempValue' = IF Parsed(text) = refreshInterval THEN text ELSE 10 * Parsed(text)
      BY <1>1, <2>2, <2>3 DEF HandleInputChange, InEffect
    <3>5. tempValue' \in Nat \cup {NaN} /\ Parsed(tempValue') = refreshInterval'
      BY <2>1, <3>2, <3>3, <3>4, ParsedInterval
    <3>6. PanelTypeOK'
      BY <2>2, <3>2, <3>3, <3>4, <3>5 DEF PanelTypeOK
    <3>7. IntervalIsTheOneShown'
      BY <3>1, <3>3, <3>5 DEF IntervalIsTheOneShown
    <3>8. savedInterval' \in {0} \cup Intervals
      BY <3>2, <3>3 DEF PanelInv
    <3>9. QED
      BY <3>2, <3>3, <3>6, <3>7, <3>8 DEF PanelInv
  <2>4. CASE ~ValidateIntervalInput(text)
    <3>1. /\ tempValue' = text /\ intervalError' = TRUE
          /\ UNCHANGED <<refreshInterval, savedInterval>>
      BY <1>1, <2>4 DEF HandleInputChange
    <3>2. PanelTypeOK'
      BY <2>1, <2>2, <3>1 DEF PanelTypeOK
    <3>3. IntervalIsTheOneShown'
      BY <2>2, <3>1 DEF PanelInv, IntervalIsTheOneShown
    <3>4. QED
      BY <3>1, <3>2, <3>3 DEF PanelInv
  <2>5. QED
    BY <2>3, <2>4
<1>2. CASE OpenPanel
  <2>1. tempValue' = 10 * refreshInterval /\ intervalError' = FALSE
        /\ UNCHANGED <<refreshing, locked, refreshInterval, hydrated, savedInterval>>
        /\ panelOpen' = TRUE
    BY <1>2 DEF OpenPanel
  <2>2. tempValue' \in Nat /\ Parsed(tempValue') = refreshInterval'
    BY <2>1, ParsedInterval
  <2>3. PanelTypeOK'
    BY <2>1, <2>2 DEF PanelTypeOK
  <2>4. IntervalIsTheOneShown'
    BY <2>1, <2>2 DEF PanelInv, IntervalIsTheOneShown
  <2>5. QED
    BY <2>1, <2>3, <2>4 DEF PanelInv
<1>3. CASE ClosePanel \/ ToggleRefresh \/ TablePages
  <2>1. /\ UNCHANGED <<tempValue, intervalError, refreshInterval, hydrated, savedInterval>>
        /\ panelOpen' => panelOpen
    BY <1>3 DEF ClosePanel, ToggleRefresh, TablePages
  <2>2. PanelTypeOK'
    BY <1>3 DEF ClosePanel, ToggleRefresh, TablePages, PanelTypeOK
  <2>3. IntervalIsTheOneShown'
    BY <2>1 DEF PanelInv, IntervalIsTheOneShown
  <2>4. QED
    BY <2>1, <2>2, <2>3 DEF PanelInv
<1>4. CASE HydrateInterval
  <2>1. /\ ~panelOpen' /\ hydrated' = TRUE
        /\ refreshInterval' = IF savedInterval = 0 THEN DefaultInterval ELSE savedInterval
        /\ savedInterval' = refreshInterval'
        /\ UNCHANGED <<panelOpen, refreshing, locked, tempValue, intervalError>>
    BY <1>4 DEF HydrateInterval, InEffect
  <2>2. refreshInterval' \in Intervals
    BY <2>1 DEF PanelInv, Intervals
  <2>3. PanelTypeOK'
    BY <2>1, <2>2, IntervalsArePositive DEF PanelTypeOK
  <2>4. IntervalIsTheOneShown'
    BY <2>1, <2>2 DEF Intervals, IntervalIsTheOneShown
  <2>5. QED
    BY <2>1, <2>2, <2>3, <2>4 DEF PanelInv
<1>5. CASE ReloadAlerts
  <2>1. /\ panelOpen' = FALSE /\ locked' = FALSE /\ tempValue' = 10 * DefaultInterval
        /\ intervalError' = FALSE /\ refreshInterval' = DefaultInterval /\ hydrated' = FALSE
        /\ UNCHANGED <<refreshing, savedInterval>>
    BY <1>5 DEF ReloadAlerts
  <2>2. tempValue' \in Nat /\ refreshInterval' \in Nat \ {0}
    BY <2>1, PanelConstants
  <2>3. PanelTypeOK'
    BY <2>1, <2>2 DEF PanelTypeOK
  <2>4. IntervalIsTheOneShown'
    BY <2>1 DEF IntervalIsTheOneShown
  <2>5. QED
    BY <2>1, <2>3, <2>4 DEF PanelInv, Intervals
<1>6. CASE UNCHANGED panelVars
  BY <1>6 DEF panelVars, PanelInv, PanelTypeOK, IntervalIsTheOneShown
<1>7. QED
  BY <1>1, <1>2, <1>3, <1>4, <1>5, <1>6 DEF PanelNext

\* The panel of the auto-refresh (AutoRefreshControl.tsx), whatever is typed: the
\* interval in effect is the default or between a second and an hour, an open panel
\* without an error shows it, and it is the one that is stored.
LEMMA IntervalAlwaysShown == PanelSpec => []IntervalIsTheOneShown
<1>1. PanelInv => IntervalIsTheOneShown
  BY DEF PanelInv
<1>2. QED
  BY <1>1, PanelStart, PanelStep, PTL DEF PanelSpec

-----------------------------------------------------------------------------
(* Thumbnails *)

\* No answer is there before its request.
AnswersFollowRequests == \A q \in Requests : q > asksSent => answers[q] = Unanswered

ThumbnailInv == ThumbnailTypeOK /\ AnswersFollowRequests /\ ThumbnailsAreCurrent

LEMMA ThumbnailStart == ThumbnailInit => ThumbnailInv
<1> SUFFICES ASSUME ThumbnailInit PROVE ThumbnailInv
  OBVIOUS
<1>1. ThumbnailTypeOK
  <2>1. answers \in [Requests -> [at : {"none", "failed", "ok"}, sensors : SUBSET Sensors]]
    BY DEF ThumbnailInit, Unanswered
  <2>2. state \in [Rows -> [kind : {"idle", "loading", "ready", "unavailable"},
                           of : Sensors \cup {NoName}]]
    BY DEF ThumbnailInit, Shows
  <2>3. /\ asksSent \in 0 .. MaxRequests /\ cached \in 0 .. asksSent
        /\ effect \in [Rows -> 0 .. MaxRequests]
    BY ThumbnailConstants DEF ThumbnailInit
  <2>4. QED
    BY <2>1, <2>2, <2>3 DEF ThumbnailInit, ThumbnailTypeOK
<1>2. QED
  BY <1>1 DEF ThumbnailInit, ThumbnailInv, AnswersFollowRequests, ThumbnailsAreCurrent, Shows

LEMMA ThumbnailStep == ThumbnailInv /\ [ThumbnailNext]_thumbnailVars => ThumbnailInv'
<1> SUFFICES ASSUME ThumbnailInv, [ThumbnailNext]_thumbnailVars PROVE ThumbnailInv'
  OBVIOUS
<1> USE ThumbnailConstants DEF ThumbnailInv, sensorVars, rowVars, Requests
<1>1. ASSUME NEW r \in Rows, NEW s \in Sensors \cup {NoName}, NameChanges(r, s)
      PROVE  ThumbnailInv'
  <2>1. /\ sensorName' = [sensorName EXCEPT ![r] = s] /\ answers' = answers
        /\ pictures' = pictures
        /\ \E kind \in {"idle", "ready", "loading"} :
               /\ state' = [state EXCEPT ![r] = Shows(kind, s)]
               /\ kind = "loading" => s # NoName
    BY <1>1 DEF NameChanges, FetchSensorMap
  <2>2. /\ sensorName' \in [Rows -> Sensors \cup {NoName}]
        /\ state' \in [Rows -> [kind : {"idle", "loading", "ready", "unavailable"},
                                of : Sensors \cup {NoName}]]
        /\ state'[r].of = sensorName'[r]
        /\ \A q \in Rows : q # r => sensorName'[q] = sensorName[q] /\ state'[q] = state[q]
        /\ state'[r].kind = "loading" => s # NoName
    BY <2>1 DEF ThumbnailTypeOK, Shows
  <2>3. CASE s = NoName
    <3>1. effect' = [effect EXCEPT ![r] = 0] /\ UNCHANGED <<asksSent, cached, expired>>
      BY <1>1, <2>3 DEF NameChanges
    <3>2. QED
      BY <2>1, <2>2, <2>3, <3>1
      DEF ThumbnailTypeOK, AnswersFollowRequests, ThumbnailsAreCurrent
  <2>4. CASE s # NoName /\ cached # 0 /\ ~expired
    <3>1. effect' = [effect EXCEPT ![r] = cached] /\ UNCHANGED <<asksSent, cached, expired>>
      BY <1>1, <2>4 DEF NameChanges, FetchSensorMap
    <3>2. QED
      BY <2>1, <2>2, <2>4, <3>1
      DEF ThumbnailTypeOK, AnswersFollowRequests, ThumbnailsAreCurrent
  <2>5. CASE s # NoName /\ ~(cached # 0 /\ ~expired)
    <3>1. /\ asksSent < MaxRequests /\ asksSent' = asksSent + 1 /\ cached' = asksSent + 1
          /\ expired' = FALSE /\ effect' = [effect EXCEPT ![r] = asksSent + 1]
      BY <1>1, <2>5 DEF NameChanges, FetchSensorMap
    <3>2. /\ asksSent + 1 \in Requests /\ asksSent + 1 # 0
          /\ answers[asksSent + 1] = Unanswered
      BY <3>1 DEF ThumbnailTypeOK, AnswersFollowRequests
    <3>3. effect' \in [Rows -> 0 .. MaxRequests] /\ effect'[r] # 0
          /\ \A q \in Rows : q # r => effect'[q] = effect[q]
      BY <3>1, <3>2 DEF ThumbnailTypeOK
    <3>4. ThumbnailTypeOK'
      <4>1. asksSent' \in 0 .. MaxRequests /\ cached' \in 0 .. asksSent'
        BY <3>1, <3>2 DEF ThumbnailTypeOK
      <4>2. QED
        BY <2>1, <2>2, <3>1, <3>3, <4>1 DEF ThumbnailTypeOK
    <3>5. AnswersFollowRequests'
      BY <2>1, <3>1 DEF AnswersFollowRequests, ThumbnailTypeOK
    <3>6. ThumbnailsAreCurrent'
      BY <2>1, <2>2, <3>1, <3>2, <3>3 DEF ThumbnailsAreCurrent, Unanswered
    <3>7. QED
      BY <3>4, <3>5, <3>6
  <2>6. QED
    BY <2>3, <2>4, <2>5
<1>2. ASSUME NEW r \in Rows, NEW s \in Sensors, EffectRuns(r, s) PROVE ThumbnailInv'
  <2>1. /\ effect' = [effect EXCEPT ![r] = 0] /\ sensorName[r] = s
        /\ UNCHANGED <<sensorName, asksSent, answers, cached, expired>>
        /\ pictures' \in {pictures \cup {s}, pictures \ {s}}
        /\ \E kind \in {"ready", "unavailable"} : state' = [state EXCEPT ![r] = Shows(kind, s)]
    BY <1>2 DEF EffectRuns, StillShown
  <2>2. /\ state' \in [Rows -> [kind : {"idle", "loading", "ready", "unavailable"},
                                of : Sensors \cup {NoName}]]
        /\ state'[r].of = s /\ state'[r].kind # "loading"
        /\ \A q \in Rows : q # r => state'[q] = state[q]
    BY <2>1 DEF ThumbnailTypeOK, Shows
  <2>3. /\ effect' \in [Rows -> 0 .. MaxRequests]
        /\ \A q \in Rows : q # r => effect'[q] = effect[q]
    BY <2>1 DEF ThumbnailTypeOK
  <2>4. ThumbnailTypeOK'
    BY <2>1, <2>2, <2>3 DEF ThumbnailTypeOK
  <2>5. QED
    BY <2>1, <2>2, <2>3, <2>4 DEF AnswersFollowRequests, ThumbnailsAreCurrent
<1>3. CASE CacheExpires
  BY <1>3 DEF CacheExpires, ThumbnailTypeOK, AnswersFollowRequests, ThumbnailsAreCurrent
<1>4. ASSUME NEW q \in Requests, SensorListAnswered(q) PROVE ThumbnailInv'
  <2>1. /\ q <= asksSent /\ answers[q].at = "none"
        /\ UNCHANGED <<asksSent, expired, sensorName, effect, state, pictures>>
        /\ \/ /\ \E online \in SUBSET Sensors :
                     answers' = [answers EXCEPT ![q] = [at |-> "ok", sensors |-> online]]
              /\ cached' = cached
           \/ /\ answers' = [answers EXCEPT ![q].at = "failed"]
              /\ cached' = IF cached = q THEN 0 ELSE cached
    BY <1>4 DEF SensorListAnswered, Evicted
  <2>2. PICK answer \in [at : {"failed", "ok"}, sensors : SUBSET Sensors] :
           /\ answers' = [answers EXCEPT ![q] = answer]
           /\ \/ answer.at = "ok" /\ cached' = cached
              \/ answer.at = "failed" /\ cached' = IF cached = q THEN 0 ELSE cached
    <3>1. CASE /\ \E online \in SUBSET Sensors :
                     answers' = [answers EXCEPT ![q] = [at |-> "ok", sensors |-> online]]
               /\ cached' = cached
      <4>1. PICK online \in SUBSET Sensors :
               answers' = [answers EXCEPT ![q] = [at |-> "ok", sensors |-> online]]
        BY <3>1
      <4> DEFINE answer == [at |-> "ok", sensors |-> online]
      <4>2. answer \in [at : {"failed", "ok"}, sensors : SUBSET Sensors] /\ answer.at = "ok"
        OBVIOUS
      <4>3. answers' = [answers EXCEPT ![q] = answer]
        BY <4>1
      <4> HIDE DEF answer
      <4>4. QED
        BY <3>1, <4>2, <4>3
    <3>2. CASE /\ answers' = [answers EXCEPT ![q].at = "failed"]
               /\ cached' = IF cached = q THEN 0 ELSE cached
      <4>1. answers[q] \in [at : {"none", "failed", "ok"}, sensors : SUBSET Sensors]
        BY DEF ThumbnailTypeOK
      <4> DEFINE answer == [answers[q] EXCEPT !.at = "failed"]
      <4>2. answers' = [answers EXCEPT ![q] = answer]
        BY <3>2
      <4>3. answer \in [at : {"failed", "ok"}, sensors : SUBSET Sensors] /\ answer.at = "failed"
        BY <4>1
      <4> HIDE DEF answer
      <4>4. QED
        BY <3>2, <4>2, <4>3
    <3>3. QED
      BY <2>1, <3>1, <3>2
  <2>3. /\ answers' \in [Requests -> [at : {"none", "failed", "ok"}, sensors : SUBSET Sensors]]
        /\ \A p \in Requests : p # q => answers'[p] = answers[p]
        /\ answers'[q] = answer
    BY <2>2 DEF ThumbnailTypeOK
  <2>4. ThumbnailTypeOK'
    <3>1. cached' \in 0 .. asksSent
      BY <2>2 DEF ThumbnailTypeOK
    <3>2. QED
      BY <2>1, <2>3, <3>1 DEF ThumbnailTypeOK
  <2>5. AnswersFollowRequests'
    BY <2>1, <2>3 DEF AnswersFollowRequests, ThumbnailTypeOK
  <2>6. asksSent # 0 => asksSent \in Requests
    BY DEF ThumbnailTypeOK
  <2>7. ThumbnailsAreCurrent'
    <3>1. cached' # 0 => cached' = cached /\ cached' = asksSent' /\ cached' \in Requests
      BY <2>1, <2>2, <2>6 DEF ThumbnailsAreCurrent
    <3>2. cached' # 0 => answers'[cached'].at # "failed"
      BY <2>2, <2>3, <3>1 DEF ThumbnailsAreCurrent
    <3>3. asksSent' # 0 /\ answers'[asksSent'].at # "failed" => cached' = asksSent'
      <4>1. CASE asksSent = q
        BY <2>1, <2>2, <2>3, <4>1 DEF ThumbnailsAreCurrent, ThumbnailTypeOK
      <4>2. CASE asksSent # q
        BY <2>1, <2>2, <2>3, <2>6, <4>2 DEF ThumbnailsAreCurrent
      <4>3. QED
        BY <4>1, <4>2
    <3>4. QED
      BY <2>1, <3>1, <3>2, <3>3 DEF ThumbnailsAreCurrent
  <2>8. QED
    BY <2>4, <2>5, <2>7
<1>5. CASE UNCHANGED thumbnailVars
  BY <1>5 DEF thumbnailVars, ThumbnailTypeOK, AnswersFollowRequests, ThumbnailsAreCurrent
<1>6. QED
  BY <1>1, <1>2, <1>3, <1>4, <1>5 DEF ThumbnailNext

\* The thumbnails of rules and drafts (VstStreamThumbnail.tsx), for any number of rows
\* and requests: the cache holds the newest list that has not failed, and a row shows
\* its own sensor's picture or waits for a list that was asked for.
LEMMA ThumbnailsAlwaysCurrent == ThumbnailSpec => []ThumbnailsAreCurrent
<1>1. ThumbnailInv => ThumbnailsAreCurrent
  BY DEF ThumbnailInv
<1>2. QED
  BY <1>1, ThumbnailStart, ThumbnailStep, PTL DEF ThumbnailSpec

-----------------------------------------------------------------------------
(* Filters of the search *)

FilterInv == FilterTypeOK /\ TagsShowTheFilters

LEMMA InitialParamsType ==
    \A k \in TopKs, type \in Types :
        /\ InitialParams(k, type) \in Params
        /\ TagsOf(InitialParams(k, type)) \in [dates : BOOLEAN, sources : SUBSET Sources, topK : TopKs]
BY DEF InitialParams, Params, TagsOf

LEMMA FilterStart == FilterInit => FilterInv
<1> SUFFICES ASSUME FilterInit PROVE FilterInv
  OBVIOUS
<1>1. DefaultTopK \in TopKs /\ 0 \in TopKs /\ "video_file" \in Types
  BY DEF TopKs, Types
<1>2. params \in Params /\ tags \in [dates : BOOLEAN, sources : SUBSET Sources, topK : TopKs]
  BY <1>1, InitialParamsType DEF FilterInit
<1>3. FilterTypeOK
  BY <1>1, <1>2 DEF FilterInit, FilterTypeOK
<1>4. TagsShowTheFilters
  BY DEF FilterInit, TagsShowTheFilters, TagsOf
<1>5. QED
  BY <1>3, <1>4 DEF FilterInv

\* Whatever the parameters become, the stored topK stays one of the offered.
LEMMA StoredTopKType ==
    ASSUME FilterInv, NEW p \in Params, SetFilterParams(p)
    PROVE  params' = p /\ storedTopK' \in TopKs
BY DEF SetFilterParams, FilterInv, FilterTypeOK, Params

LEMMA FilterStep == FilterInv /\ [FilterNext]_filterVars => FilterInv'
<1> SUFFICES ASSUME FilterInv, [FilterNext]_filterVars PROVE FilterInv'
  OBVIOUS
<1> DEFINE Tags == [dates : BOOLEAN, sources : SUBSET Sources, topK : TopKs]
<1>0. /\ params \in Params /\ tags \in Tags /\ storedTopK \in TopKs
      /\ params.type \in Types /\ params.topK \in TopKs /\ params.sources \subseteq Sources
      /\ 0 \in TopKs /\ DefaultTopK \in TopKs
  BY DEF FilterInv, FilterTypeOK, Params, TopKs
<1>1. ASSUME NEW names \in SUBSET Sources, FilterSensorsAnswered(names) PROVE FilterInv'
  <2>1. onlineStreams' = names /\ UNCHANGED <<tags, perType, dialog, disabled>>
    BY <1>1 DEF FilterSensorsAnswered
  <2>2. CASE UNCHANGED <<sourceType, storedType, params, storedTopK>>
    BY <2>1, <2>2 DEF FilterInv, FilterTypeOK, TagsShowTheFilters
  <2>3. CASE ~UNCHANGED <<sourceType, storedType, params, storedTopK>>
    <3> DEFINE only == OnlyType(names)
    <3>1. /\ only # NotStored /\ sourceType' = only /\ storedType' = only
          /\ SetFilterParams([params EXCEPT !.type = only])
      BY <1>1, <2>3 DEF FilterSensorsAnswered
    <3>2. only \in Types
      BY <3>1 DEF OnlyType, Types
    <3> HIDE DEF only
    <3>3. [params EXCEPT !.type = only] \in Params
      BY <1>0, <3>2 DEF Params
    <3>4. params' = [params EXCEPT !.type = only] /\ storedTopK' \in TopKs
      BY <3>1, <3>3, StoredTopKType
    <3>5. params'.dates = params.dates /\ params'.sources = params.sources
          /\ params'.topK = params.topK
      BY <1>0, <3>4 DEF Params
    <3>6. FilterTypeOK'
      BY <2>1, <3>1, <3>2, <3>3, <3>4 DEF FilterInv, FilterTypeOK
    <3>7. TagsShowTheFilters'
      BY <2>1, <3>1, <3>5 DEF FilterInv, TagsShowTheFilters
    <3>8. QED
      BY <3>6, <3>7 DEF FilterInv
  <2>4. QED
    BY <2>2, <2>3
<1>2. CASE DisabledChanges \/ TogglePopover
  <2>1. UNCHANGED <<onlineStreams, params, tags, sourceType, perType, storedType, storedTopK>>
    BY <1>2 DEF DisabledChanges, TogglePopover, Stay
  <2>2. /\ disabled \in BOOLEAN /\ dialog \in [open : BOOLEAN, pending : Params]
        /\ params \in Params
    BY DEF FilterInv, FilterTypeOK
  <2>3. disabled' \in BOOLEAN
    BY <1>2, <2>2, Zenon DEF DisabledChanges, TogglePopover, Stay
  <2>4. CopiesParams(FALSE) \in [open : BOOLEAN, pending : Params]
        /\ CopiesParams(~dialog.open) \in [open : BOOLEAN, pending : Params]
    BY <2>2 DEF CopiesParams
  <2>5. dialog' \in {dialog, CopiesParams(FALSE), CopiesParams(~dialog.open)}
    BY <1>2 DEF DisabledChanges, TogglePopover
  <2>6. QED
    BY <2>1, <2>2, <2>3, <2>4, <2>5 DEF FilterInv, FilterTypeOK, TagsShowTheFilters
<1>3. CASE EditPending
  <2>1. dialog \in [open : BOOLEAN, pending : Params] /\ onlineStreams \subseteq Sources
    BY DEF FilterInv, FilterTypeOK
  <2>2. UNCHANGED <<onlineStreams, params, tags, sourceType, perType, storedType, storedTopK,
                    disabled>>
    BY <1>3 DEF EditPending, Stay
  <2>3. PICK q : /\ q \in {[dialog.pending EXCEPT !.dates = ~dialog.pending.dates]}
                          \cup {[dialog.pending EXCEPT !.topK = k] : k \in TopKs}
                          \cup {[dialog.pending EXCEPT !.sources = s] : s \in SUBSET OfferedSources}
                 /\ dialog' = [dialog EXCEPT !.pending = q]
    BY <1>3 DEF EditPending
  <2>4. OfferedSources \subseteq Sources
    BY <2>1 DEF OfferedSources
  <2>5. q \in Params
    BY <2>1, <2>3, <2>4 DEF Params
  <2>6. dialog' \in [open : BOOLEAN, pending : Params]
    BY <2>1, <2>3, <2>5
  <2>7. QED
    BY <2>2, <2>6 DEF FilterInv, FilterTypeOK, TagsShowTheFilters
<1>4. CASE HandleConfirm
  <2>1. dialog.pending \in Params /\ dialog \in [open : BOOLEAN, pending : Params]
    BY DEF FilterInv, FilterTypeOK
  <2>2. params' = dialog.pending /\ storedTopK' \in TopKs
    BY <1>4, <2>1, StoredTopKType DEF HandleConfirm
  <2>3. /\ tags' = TagsOf(dialog.pending) /\ dialog' = [dialog EXCEPT !.open = FALSE]
        /\ UNCHANGED <<onlineStreams, sourceType, storedType, perType, disabled>>
    BY <1>4 DEF HandleConfirm, Stay
  <2>4. tags' \in Tags /\ dialog' \in [open : BOOLEAN, pending : Params]
    BY <2>1, <2>3 DEF TagsOf, Params
  <2>5. FilterTypeOK'
    BY <2>1, <2>2, <2>3, <2>4 DEF FilterInv, FilterTypeOK
  <2>6. TagsShowTheFilters'
    BY <2>2, <2>3 DEF FilterInv, TagsShowTheFilters, TagsOf
  <2>7. QED
    BY <2>5, <2>6 DEF FilterInv
<1>5. ASSUME NEW v \in Types, HandleSourceTypeChange(v) PROVE FilterInv'
  <2> DEFINE saved == perType'[v]
             newParams == [params EXCEPT !.type = v, !.sources = saved]
  <2>1. /\ storedType' = v /\ sourceType' = v
        /\ perType' = [perType EXCEPT ![sourceType] = params.sources]
        /\ SetFilterParams(newParams) /\ TagsAfterType(v, saved, newParams)
        /\ UNCHANGED <<onlineStreams, dialog, disabled>>
    BY <1>5 DEF HandleSourceTypeChange
  <2>2. perType' \in [Types -> SUBSET Sources] /\ saved \subseteq Sources
    BY <1>0, <2>1 DEF FilterInv, FilterTypeOK
  <2> HIDE DEF saved
  <2>3. newParams \in Params /\ newParams.dates = params.dates /\ newParams.sources = saved
        /\ newParams.topK = params.topK
    BY <1>0, <2>2 DEF Params
  <2> HIDE DEF newParams
  <2>4. params' = newParams /\ storedTopK' \in TopKs
    BY <2>1, <2>3, StoredTopKType
  <2>5. tags' = IF tags.sources # {} /\ saved = {} THEN [tags EXCEPT !.sources = {}]
                ELSE IF saved # {} THEN TagsOf(newParams) ELSE tags
    BY <2>1 DEF TagsAfterType
  <2>6. tags' \in Tags
    BY <1>0, <2>3, <2>5 DEF TagsOf, Params
  <2>7. tags'.dates = params.dates /\ tags'.sources = saved
        /\ (tags'.topK # params.topK => params.topK = 0 /\ tags'.topK = DefaultTopK)
    BY <1>0, <2>3, <2>5 DEF TagsOf, FilterInv, TagsShowTheFilters
  <2>8. FilterTypeOK'
    BY <2>1, <2>2, <2>3, <2>4, <2>6 DEF FilterInv, FilterTypeOK
  <2>9. TagsShowTheFilters'
    BY <2>1, <2>3, <2>4, <2>7 DEF TagsShowTheFilters
  <2>10. QED
    BY <2>8, <2>9 DEF FilterInv
<1>6. ASSUME NEW key \in Removable, RemoveTag(key) PROVE FilterInv'
  <2>1. /\ SetFilterParams([params EXCEPT ![key] = Unset(key)])
        /\ tags' = [tags EXCEPT ![key] = Unset(key)]
        /\ UNCHANGED <<onlineStreams, sourceType, storedType, perType, dialog, disabled>>
    BY <1>6 DEF RemoveTag, Stay
  <2>2. /\ [params EXCEPT ![key] = Unset(key)] \in Params
        /\ [params EXCEPT ![key] = Unset(key)] =
             IF key = "sources" THEN [params EXCEPT !.sources = {}] ELSE [params EXCEPT !.dates = FALSE]
    BY <1>0 DEF Removable, Unset, Params
  <2>3. tags' = IF key = "sources" THEN [tags EXCEPT !.sources = {}] ELSE [tags EXCEPT !.dates = FALSE]
    BY <1>0, <2>1 DEF Removable, Unset
  <2>4. params' = [params EXCEPT ![key] = Unset(key)] /\ storedTopK' \in TopKs
    BY <2>1, <2>2, StoredTopKType
  <2>5. tags' \in Tags
    BY <1>0, <2>3
  <2>6. FilterTypeOK'
    BY <2>1, <2>2, <2>4, <2>5 DEF FilterInv, FilterTypeOK
  <2>7. TagsShowTheFilters'
    BY <1>0, <2>1, <2>2, <2>3, <2>4 DEF FilterInv, TagsShowTheFilters, Params
  <2>8. QED
    BY <2>6, <2>7 DEF FilterInv
<1>7. CASE OnClearAll
  <2> DEFINE k == IF params.topK = 0 THEN DefaultTopK ELSE params.topK
  <2>1. /\ SetFilterParams(InitialParams(params.topK, params.type))
        /\ tags' = TagsOf(InitialParams(k, params.type))
        /\ UNCHANGED <<onlineStreams, sourceType, storedType, perType, dialog, disabled>>
    BY <1>7 DEF OnClearAll, Stay
  <2>2. k \in TopKs
    BY <1>0
  <2>3. params' = InitialParams(params.topK, params.type) /\ params' \in Params
        /\ storedTopK' \in TopKs
    BY <1>0, <2>1, InitialParamsType, StoredTopKType
  <2>4. tags' \in Tags
    BY <1>0, <2>1, <2>2, InitialParamsType
  <2>5. FilterTypeOK'
    BY <2>1, <2>3, <2>4 DEF FilterInv, FilterTypeOK
  <2>6. TagsShowTheFilters'
    BY <2>1, <2>3 DEF FilterInv, TagsShowTheFilters, TagsOf, InitialParams
  <2>7. QED
    BY <2>5, <2>6 DEF FilterInv
<1>8. CASE FilterReload
  <2>1. sourceType' \in Types /\ (storedType' # NotStored => sourceType' = storedType')
    BY <1>8 DEF FilterReload, FilterInv, FilterTypeOK, Types
  <2>2. StoredTopKOrDefault \in TopKs
    BY <1>0 DEF StoredTopKOrDefault
  <2>3. /\ params' = InitialParams(StoredTopKOrDefault, sourceType') /\ tags' = TagsOf(params')
        /\ onlineStreams' = {} /\ perType' = [t \in Types |-> {}]
        /\ dialog' = [open |-> FALSE, pending |-> params'] /\ disabled' = FALSE
        /\ UNCHANGED <<storedType, storedTopK>>
    BY <1>8 DEF FilterReload
  <2>4. params' \in Params /\ tags' \in Tags
    BY <2>1, <2>2, <2>3, InitialParamsType
  <2>5. FilterTypeOK'
    BY <2>1, <2>3, <2>4 DEF FilterInv, FilterTypeOK
  <2>6. TagsShowTheFilters'
    BY <2>1, <2>3 DEF TagsShowTheFilters, TagsOf
  <2>7. QED
    BY <2>5, <2>6 DEF FilterInv
<1>9. CASE UNCHANGED filterVars
  BY <1>9 DEF filterVars, FilterInv, FilterTypeOK, TagsShowTheFilters
<1>10. QED
  BY <1>1, <1>2, <1>3, <1>4, <1>5, <1>6, <1>7, <1>8, <1>9 DEF FilterNext

\* The filters of the search (useFilter.ts), for any names of videos and streams: the
\* tags always show exactly what the next search will send.
LEMMA TagsAlwaysShowTheFilters == FilterSpec => []TagsShowTheFilters
<1>1. FilterInv => TagsShowTheFilters
  BY DEF FilterInv
<1>2. QED
  BY <1>1, FilterStart, FilterStep, PTL DEF FilterSpec

-----------------------------------------------------------------------------
(* Tabs of the shell *)

LEMMA FirstVisibleTab ==
    /\ FirstVisible \in TabIds
    /\ VisibleTabs # {} => FirstVisible \in VisibleTabs
<1> DEFINE places == {i \in DOMAIN AllTabs : AllTabs[i] \in VisibleTabs}
<1>1. \A tab \in TabIds : \E i \in DOMAIN AllTabs : AllTabs[i] = tab
  BY DEF TabIds, ToSet
<1>2. ASSUME VisibleTabs # {} PROVE FirstVisible \in VisibleTabs
  <2>1. places \in SUBSET Nat /\ places # {}
    BY <1>1, <1>2, ShellConstants DEF VisibleTabs
  <2>2. Min(places) \in places
    BY <2>1, MinIsMember
  <2>3. QED
    BY <1>2, <2>2 DEF FirstVisible
<1>3. "chat" \in TabIds
  BY ShellConstants DEF TabIds
<1>4. QED
  BY <1>2, <1>3 DEF FirstVisible, VisibleTabs

\* Home takes a tab's controls only together with its ref, and keeps the ref of a tab
\* only while it keeps the controls.
HandedOverOnce ==
    /\ version \in [TabIds -> {1, 2}]
    /\ handedOver \in [TabIds -> {0, 1, 2}] /\ handlersSet \in [TabIds -> BOOLEAN]
    /\ code \in [TabIds -> {"loading", "ready", "fallback"}]
    /\ activeTab \in TabIds
    /\ \A tab \in TabIds : handlersSet[tab] => handedOver[tab] # 0

ShellInv == HandedOverOnce /\ ShellShowsTheActiveTab

LEMMA ShellFreshPage ==
    ASSUME activeTab = FirstVisible, hasLoadedFromStorage = FALSE,
           code = [tab \in TabIds |-> "loading"], version = [tab \in TabIds |-> 1],
           handedOver = [tab \in TabIds |-> 0], handlersSet = [tab \in TabIds |-> FALSE]
    PROVE  ShellInv
BY FirstVisibleTab DEF ShellInv, HandedOverOnce, ShellShowsTheActiveTab

\* After a switch Home has the controls of the new tab, if it has any, and of no other.
LEMMA SwitchHandsOver ==
    ASSUME ShellInv, NEW tab \in TabIds, ControlsAfterSwitch(tab), activeTab' = tab,
           UNCHANGED <<code, version>>
    PROVE  /\ HandedOverOnce'
           /\ \A t \in TabIds : handedOver'[t] # 0 => t = tab
           /\ code[tab] = "ready" /\ tab \in WithControls => handedOver'[tab] # 0
<1> DEFINE hands == code[tab] = "ready" /\ tab \in WithControls
                    /\ ~(tab \in Once /\ handlersSet[tab])
<1>1. /\ handedOver' = [t \in TabIds |-> IF t # tab THEN 0
                                         ELSE IF hands THEN version[t] ELSE handedOver[t]]
      /\ handlersSet' = [t \in TabIds |-> IF t # tab THEN FALSE ELSE handlersSet[t] \/ hands]
  BY DEF ControlsAfterSwitch, RefAfter
<1>2. /\ handedOver'[tab] = IF hands THEN version[tab] ELSE handedOver[tab]
      /\ handlersSet'[tab] = (handlersSet[tab] \/ hands)
      /\ \A t \in TabIds : t # tab => handedOver'[t] = 0 /\ handlersSet'[t] = FALSE
  BY <1>1
<1>3. version[tab] \in {1, 2} /\ handedOver[tab] \in {0, 1, 2} /\ handlersSet[tab] \in BOOLEAN
      /\ (handlersSet[tab] => handedOver[tab] # 0)
  BY DEF ShellInv, HandedOverOnce
<1>4. handedOver' \in [TabIds -> {0, 1, 2}]
  BY <1>1, <1>3 DEF ShellInv, HandedOverOnce
<1>5. handlersSet' \in [TabIds -> BOOLEAN]
  BY <1>1 DEF ShellInv, HandedOverOnce
<1>6. handlersSet'[tab] => handedOver'[tab] # 0
  BY <1>2, <1>3
<1>7. HandedOverOnce'
  BY <1>2, <1>4, <1>5, <1>6 DEF ShellInv, HandedOverOnce
<1>8. code[tab] = "ready" /\ tab \in WithControls => handedOver'[tab] # 0
  BY <1>2, <1>3
<1>9. QED
  BY <1>2, <1>7, <1>8

LEMMA ShellStep == ShellInv /\ [ShellNext]_shellVars => ShellInv'
<1> SUFFICES ASSUME ShellInv, [ShellNext]_shellVars PROVE ShellInv'
  OBVIOUS
<1> USE DEF tabVars, chatSidebarVars, controlVars
<1>1. ASSUME NEW tab \in TabIds, NEW ok \in BOOLEAN, CodeArrives(tab, ok) PROVE ShellInv'
  <2>1. /\ code' = [code EXCEPT ![tab] = IF ok THEN "ready" ELSE "fallback"]
        /\ UNCHANGED <<activeTab, hasLoadedFromStorage, storedTab, version>>
    BY <1>1 DEF CodeArrives
  <2>2. CASE ok /\ tab = activeTab /\ tab \in WithControls
    <3>1. /\ handedOver' = [handedOver EXCEPT ![tab] = version[tab]]
          /\ handlersSet' = [handlersSet EXCEPT ![tab] = TRUE]
      BY <1>1, <2>2 DEF CodeArrives
    <3>2. QED
      BY <2>1, <2>2, <3>1 DEF ShellInv, HandedOverOnce, ShellShowsTheActiveTab
  <2>3. CASE ~(ok /\ tab = activeTab /\ tab \in WithControls)
    <3>1. UNCHANGED <<handedOver, handlersSet>>
      BY <1>1, <2>3 DEF CodeArrives
    <3>2. QED
      BY <2>1, <2>3, <3>1 DEF ShellInv, HandedOverOnce, ShellShowsTheActiveTab
  <2>4. QED
    BY <2>2, <2>3
<1>2. ASSUME NEW tab \in TabIds, ControlsChange(tab) PROVE ShellInv'
  <2>1. /\ version' = [version EXCEPT ![tab] = 3 - version[tab]]
        /\ handedOver' = [handedOver EXCEPT ![tab] = IF tab = activeTab /\ tab \notin Once
                                                     THEN version'[tab] ELSE handedOver[tab]]
        /\ UNCHANGED <<activeTab, hasLoadedFromStorage, storedTab, code, handlersSet>>
    BY <1>2 DEF ControlsChange
  <2>2. version' \in [TabIds -> {1, 2}] /\ version'[tab] # 0
    BY <2>1 DEF ShellInv, HandedOverOnce
  <2>3. handedOver' \in [TabIds -> {0, 1, 2}]
    BY <2>1, <2>2 DEF ShellInv, HandedOverOnce
  <2>4. \A t \in TabIds : /\ handedOver[t] # 0 => handedOver'[t] # 0
                          /\ handedOver'[t] # 0 => handedOver[t] # 0 \/ t = activeTab
    BY <2>1, <2>2 DEF ShellInv, HandedOverOnce
  <2>5. QED
    BY <2>1, <2>2, <2>3, <2>4 DEF ShellInv, HandedOverOnce, ShellShowsTheActiveTab
<1>3. ASSUME NEW tab \in TabIds, SetActiveTab(tab) PROVE ShellInv'
  <2>1. /\ activeTab' = tab /\ storedTab' = tab /\ ControlsAfterSwitch(tab) /\ tab \in VisibleTabs
        /\ hasLoadedFromStorage /\ UNCHANGED <<hasLoadedFromStorage, code, version>>
    BY <1>3 DEF SetActiveTab, StoreTab, MayStore
  <2>2. QED
    BY <2>1, SwitchHandsOver DEF ShellInv, ShellShowsTheActiveTab
<1>4. ASSUME NEW tab \in TabIds, CallerInfoLink(tab) PROVE ShellInv'
  <2>1. hasLoadedFromStorage /\ UNCHANGED <<hasLoadedFromStorage, code, version>>
    BY <1>4 DEF CallerInfoLink
  <2>2. CASE tab \in VisibleTabs /\ tab # activeTab
    <3>1. activeTab' = tab /\ storedTab' = tab /\ ControlsAfterSwitch(tab)
      BY <1>4, <2>2 DEF CallerInfoLink, StoreTab, MayStore
    <3>2. QED
      BY <2>1, <2>2, <3>1, SwitchHandsOver DEF ShellInv, ShellShowsTheActiveTab
  <2>3. CASE ~(tab \in VisibleTabs /\ tab # activeTab)
    <3>1. UNCHANGED <<activeTab, handedOver, handlersSet>> /\ storedTab' \in {storedTab, activeTab}
      BY <1>4, <2>3 DEF CallerInfoLink, StoreTab
    <3>2. QED
      BY <2>1, <3>1 DEF ShellInv, HandedOverOnce, ShellShowsTheActiveTab
  <2>4. QED
    BY <2>2, <2>3
<1>5. CASE LoadFromStorage
  <2> DEFINE before == IF MayStore THEN activeTab ELSE storedTab
             tab == IF hash \in VisibleTabs THEN hash
                    ELSE IF before \in VisibleTabs THEN before ELSE activeTab
  <2>1. activeTab' = tab /\ storedTab' = tab /\ ControlsAfterSwitch(tab)
        /\ UNCHANGED <<code, version>>
    BY <1>5 DEF LoadFromStorage
  <2>2. tab \in TabIds /\ (VisibleTabs # {} => tab \in VisibleTabs)
    BY DEF ShellInv, HandedOverOnce, ShellShowsTheActiveTab, VisibleTabs
  <2> HIDE DEF tab
  <2>3. /\ HandedOverOnce'
        /\ \A t \in TabIds : handedOver'[t] # 0 => t = tab
        /\ code[tab] = "ready" /\ tab \in WithControls => handedOver'[tab] # 0
    BY <2>1, <2>2, SwitchHandsOver
  <2>4. QED
    BY <2>1, <2>2, <2>3 DEF ShellInv, ShellShowsTheActiveTab
<1>6. CASE ShellReload
  <2>1. /\ activeTab' = FirstVisible /\ hasLoadedFromStorage' = FALSE
        /\ code' = [tab \in TabIds |-> "loading"] /\ version' = [tab \in TabIds |-> 1]
        /\ handedOver' = [tab \in TabIds |-> 0] /\ handlersSet' = [tab \in TabIds |-> FALSE]
    BY <1>6 DEF ShellReload
  <2>2. QED
    BY <2>1, FirstVisibleTab DEF ShellInv, HandedOverOnce, ShellShowsTheActiveTab
<1>7. CASE \/ ResizeMoves \/ ResizeEnds \/ UNCHANGED shellVars
           \/ \E value \in BOOLEAN : SetSidebarOpen(value)
  <2>1. UNCHANGED <<activeTab, hasLoadedFromStorage, storedTab, controlVars>>
    BY <1>7 DEF ResizeMoves, ResizeEnds, SetSidebarOpen, shellVars
  <2>2. QED
    BY <2>1 DEF ShellInv, HandedOverOnce, ShellShowsTheActiveTab
<1>8. QED
  BY <1>1, <1>2, <1>3, <1>4, <1>5, <1>6, <1>7 DEF ShellNext

\* The shell (Home.tsx), for any tabs a deployment turns on: the left sidebar has the
\* controls of the tab in front and of no other, and that tab is the stored one.
LEMMA ShellAlwaysShowsTheActiveTab == ShellSpec => []ShellShowsTheActiveTab
<1>1. ShellInit => ShellInv
  BY ShellFreshPage DEF ShellInit
<1>2. ShellInv => ShellShowsTheActiveTab
  BY DEF ShellInv
<1>3. QED
  BY <1>1, <1>2, ShellStep, PTL DEF ShellSpec

\* A page that is loaded again opens the tab that was stored, or the one its address names.
LEMMA ShellReloadsTheTab == ShellSpec => ReloadKeepsTheTab
<1>1. [ShellNext]_shellVars =>
        [~hasLoadedFromStorage /\ hasLoadedFromStorage' /\ storedTab \in VisibleTabs
             => activeTab' = storedTab \/ activeTab' = hash]_shellVars
  <2> SUFFICES ASSUME ShellNext, ~hasLoadedFromStorage, hasLoadedFromStorage',
                      storedTab \in VisibleTabs
               PROVE  activeTab' = storedTab \/ activeTab' = hash
    OBVIOUS
  <2>1. LoadFromStorage
    BY DEF ShellNext, CodeArrives, ControlsChange, SetActiveTab, CallerInfoLink, ShellReload,
    SetSidebarOpen, ResizeMoves, ResizeEnds, tabVars
  <2>2. QED
    BY <2>1 DEF LoadFromStorage, MayStore
<1>2. QED
  BY <1>1, PTL DEF ShellSpec, ReloadKeepsTheTab
-----------------------------------------------------------------------------
(* The table of alerts *)

\* The numbers of n rows each partition the naturals.
LEMMA QuotientOfRank ==
    ASSUME NEW n \in Nat \ {0}, NEW r \in Nat
    PROVE  r \div n \in Nat /\ (r \div n) * n <= r /\ r < (r \div n) * n + n
OBVIOUS

LEMMA ProductsAreOrdered ==
    ASSUME NEW n \in Nat \ {0}, NEW p \in Nat, NEW q \in Nat, p < q
    PROVE  p * n + n <= q * n
<1> DEFINE k == q - p - 1
<1>1. k \in Nat /\ q = p + k + 1
  OBVIOUS
<1>2. k * n \in Nat
  BY <1>1
<1> HIDE DEF k
<1>3. q * n = p * n + k * n + n
  BY <1>1
<1>4. p * n \in Nat
  OBVIOUS
<1>5. QED
  BY <1>2, <1>3, <1>4

LEMMA QuotientIsMonotone ==
    ASSUME NEW n \in Nat \ {0}, NEW r \in Nat, NEW s \in Nat, r <= s
    PROVE  r \div n <= s \div n
<1>1. /\ r \div n \in Nat /\ (r \div n) * n <= r /\ r < (r \div n) * n + n
      /\ s \div n \in Nat /\ (s \div n) * n <= s /\ s < (s \div n) * n + n
  BY QuotientOfRank
<1>2. ASSUME s \div n < r \div n PROVE FALSE
  <2>1. (s \div n) * n + n <= (r \div n) * n
    BY <1>1, <1>2, ProductsAreOrdered
  <2>2. (s \div n) * n \in Nat /\ (r \div n) * n \in Nat
    BY <1>1
  <2>3. QED
    BY <1>1, <2>1, <2>2
<1>3. QED
  BY <1>1, <1>2

\* Every row has a page, there is always one, and more rows never mean fewer pages.
LEMMA PagesHoldTheRows ==
    ASSUME NEW rows, IsFiniteSet(rows), NEW n \in Nat \ {0}
    PROVE  /\ PageCount(rows, n) \in Nat \ {0}
           /\ \A r \in Nat : r < Cardinality(rows) => r \div n + 1 <= PageCount(rows, n)
<1>1. Cardinality(rows) \in Nat /\ (Cardinality(rows) = 0 <=> rows = {})
  BY FS_CardinalityType, FS_EmptySet
<1>2. CASE rows = {}
  BY <1>1, <1>2 DEF PageCount
<1>3. CASE rows # {}
  <2> DEFINE c == Cardinality(rows)
  <2>1. c \in Nat \ {0} /\ PageCount(rows, n) = (c + n - 1) \div n
    BY <1>1, <1>3 DEF PageCount
  <2> HIDE DEF c
  <2>2. c + n - 1 \in Nat
    BY <2>1
  <2>3. /\ (c + n - 1) \div n \in Nat
        /\ c + n - 1 < ((c + n - 1) \div n) * n + n
    BY <2>2, QuotientOfRank
  <2>4. (c + n - 1) \div n # 0
    BY <2>1, <2>3
  <2>5. ASSUME NEW r \in Nat, r < c PROVE r \div n + 1 <= (c + n - 1) \div n
    <3>1. r + n \in Nat /\ r + n <= c + n - 1
      BY <2>1, <2>5
    <3>2. (r + n) \div n <= (c + n - 1) \div n
      BY <2>2, <3>1, QuotientIsMonotone
    <3>3. (r + n) \div n = r \div n + 1
      OBVIOUS
    <3>4. QED
      BY <3>2, <3>3
  <2>6. QED
    BY <2>1, <2>3, <2>4, <2>5 DEF c
<1>4. QED
  BY <1>2, <1>3

LEMMA MoreRowsMorePages ==
    ASSUME NEW rows, IsFiniteSet(rows), NEW all, IsFiniteSet(all), rows \subseteq all,
           NEW n \in Nat \ {0}
    PROVE  PageCount(rows, n) <= PageCount(all, n)
<1>1. Cardinality(rows) \in Nat /\ Cardinality(all) \in Nat
      /\ Cardinality(rows) <= Cardinality(all)
  BY FS_CardinalityType, FS_Subset
<1>2. PageCount(all, n) \in Nat \ {0}
  BY PagesHoldTheRows
<1>3. CASE rows = {}
  BY <1>2, <1>3 DEF PageCount
<1>4. CASE rows # {}
  <2>1. /\ Cardinality(rows) + n - 1 \in Nat /\ Cardinality(all) + n - 1 \in Nat
        /\ Cardinality(rows) + n - 1 <= Cardinality(all) + n - 1
    BY <1>1
  <2>2. QED
    BY <1>4, <2>1, QuotientIsMonotone DEF PageCount
<1>5. QED
  BY <1>3, <1>4

\* The row of buttons: the first, the current and the last page, in order.
ButtonsLead(current, total, items) ==
    /\ {1, current, total} \subseteq ToSet(items)
    /\ \A i \in 2 .. Len(items) :
           IF items[i] = 0 THEN items[i + 1] > items[i - 1] + 1
           ELSE items[i - 1] = 0 \/ items[i] = items[i - 1] + 1

LEMMA ButtonsAreInOrder ==
    ASSUME NEW total \in Nat \ {0}, NEW current \in 1 .. total
    PROVE  ButtonsLead(current, total, PageItems(current, total))
<1>1. CASE total <= 7
  <2> DEFINE items == [i \in 1 .. total |-> i]
  <2>1. PageItems(current, total) = items
    BY <1>1 DEF PageItems
  <2>2. DOMAIN items = 1 .. total /\ Len(items) = total /\ \A i \in 1 .. total : items[i] = i
    OBVIOUS
  <2> HIDE DEF items
  <2>3. {1, current, total} \subseteq ToSet(items)
    BY <2>2 DEF ToSet
  <2>4. \A i \in 2 .. total : items[i] = i /\ items[i - 1] = i - 1
    BY <2>2
  <2>5. QED
    BY <2>1, <2>2, <2>3, <2>4 DEF ButtonsLead
<1>2. CASE total > 7 /\ current <= 3
  <2> DEFINE items == <<1, 2, 3, 4, 5, 0, total>>
  <2>1. PageItems(current, total) = items
    BY <1>2 DEF PageItems
  <2>2. /\ DOMAIN items = 1 .. 7 /\ Len(items) = 7
        /\ items[1] = 1 /\ items[2] = 2 /\ items[3] = 3 /\ items[4] = 4 /\ items[5] = 5
        /\ items[6] = 0 /\ items[7] = total
    OBVIOUS
  <2> HIDE DEF items
  <2>3. current \in {1, 2, 3}
    BY <1>2
  <2>4. {1, current, total} \subseteq ToSet(items)
    BY <2>2, <2>3 DEF ToSet
  <2>5. \A i \in 2 .. 7 : i \in {2, 3, 4, 5, 6, 7}
    OBVIOUS
  <2>6. QED
    BY <1>2, <2>1, <2>2, <2>4, <2>5 DEF ButtonsLead
<1>3. CASE total > 7 /\ current > 3 /\ current >= total - 2
  <2> DEFINE last == [i \in 1 .. 5 |-> total - 5 + i]
             first == <<1, 0>>
             items == first \o last
  <2>1. PageItems(current, total) = items
    BY <1>3 DEF PageItems
  <2>2. last \in Seq(Nat) /\ Len(last) = 5 /\ \A i \in 1 .. 5 : last[i] = total - 5 + i
    BY <1>3
  <2> HIDE DEF last
  <2>3. first \in Seq(Nat) /\ Len(first) = 2 /\ first[1] = 1 /\ first[2] = 0
    OBVIOUS
  <2> HIDE DEF first
  <2>4. /\ items \in Seq(Nat) /\ Len(items) = 7
        /\ \A i \in 1 .. 7 : items[i] = IF i <= 2 THEN first[i] ELSE last[i - 2]
    <3>1. /\ items \in Seq(Nat) /\ Len(items) = Len(first) + Len(last)
          /\ \A i \in 1 .. Len(first) + Len(last) :
                 items[i] = IF i <= Len(first) THEN first[i] ELSE last[i - Len(first)]
      BY <2>2, <2>3, ConcatProperties
    <3> HIDE DEF items
    <3>2. QED
      BY <2>2, <2>3, <3>1
  <2> HIDE DEF items
  <2>5. /\ DOMAIN items = 1 .. 7 /\ Len(items) = 7
        /\ items[1] = 1 /\ items[2] = 0 /\ items[3] = total - 4
        /\ items[4] = total - 3 /\ items[5] = total - 2 /\ items[6] = total - 1
        /\ items[7] = total
    BY <2>2, <2>3, <2>4
  <2>6. current \in {total - 2, total - 1, total}
    BY <1>3
  <2>7. {1, current, total} \subseteq ToSet(items)
    BY <2>5, <2>6 DEF ToSet
  <2>8. \A i \in 2 .. 7 : i \in {2, 3, 4, 5, 6, 7}
    OBVIOUS
  <2>9. QED
    BY <1>3, <2>1, <2>5, <2>7, <2>8 DEF ButtonsLead
<1>4. CASE total > 7 /\ current > 3 /\ current < total - 2
  <2> DEFINE items == <<1, 0, current - 1, current, current + 1, 0, total>>
  <2>1. PageItems(current, total) = items
    BY <1>4 DEF PageItems
  <2>2. /\ DOMAIN items = 1 .. 7 /\ Len(items) = 7
        /\ items[1] = 1 /\ items[2] = 0 /\ items[3] = current - 1 /\ items[4] = current
        /\ items[5] = current + 1 /\ items[6] = 0 /\ items[7] = total
    OBVIOUS
  <2> HIDE DEF items
  <2>3. {1, current, total} \subseteq ToSet(items)
    BY <2>2 DEF ToSet
  <2>4. \A i \in 2 .. 7 : i \in {2, 3, 4, 5, 6, 7}
    OBVIOUS
  <2>5. QED
    BY <1>4, <2>1, <2>2, <2>3, <2>4 DEF ButtonsLead
<1>5. QED
  BY <1>1, <1>2, <1>3, <1>4

\* The smallest end of rows is one of theirs.
LEMMA OldestIsFirst ==
    ASSUME NEW rows \in SUBSET (1 .. MaxAlerts), rows # {}
    PROVE  Oldest(rows) \in rows /\ \A b \in rows : Oldest(rows) <= b
<1>1. rows \in SUBSET Nat
  BY TableConstants
<1>2. QED
  BY <1>1, LeastNatural DEF Oldest

\* The request for older alerts remembers where the rows that sent it ended.
RequestFollowsRows ==
    more.sent => more.rows # {} /\ more.rows \subseteq 1 .. MaxAlerts
                 /\ more.to = OlderThan(more.rows)

TableInv ==
    /\ newest \in 0 .. MaxAlerts /\ loaded \subseteq 1 .. MaxAlerts /\ size \in Sizes
    /\ more.to \in 0 .. MaxAlerts /\ RequestFollowsRows
    /\ page \in 1 .. PageCount(loaded, size)

LEMMA RowsAreFinite ==
    ASSUME NEW rows \in SUBSET (1 .. MaxAlerts) PROVE IsFiniteSet(rows)
<1>1. IsFiniteSet(1 .. MaxAlerts)
  BY TableConstants, FS_Interval
<1>2. QED
  BY <1>1, FS_Subset

LEMMA TableStart == TableInit => TableInv
BY TableConstants DEF TableInit, TableInv, NoRequest, RequestFollowsRows, PageCount

LEMMA TableStep == TableInv /\ [TableNext]_tableVars => TableInv'
<1> SUFFICES ASSUME TableInv, [TableNext]_tableVars PROVE TableInv'
  OBVIOUS
<1> USE TableConstants
<1>0. size \in Nat \ {0} /\ \A n \in Sizes : n \in Nat \ {0}
  BY DEF TableInv
<1>a. \A rows \in SUBSET (1 .. MaxAlerts) : \A n \in Sizes : PageCount(rows, n) \in Nat \ {0}
  BY <1>0, RowsAreFinite, PagesHoldTheRows
<1>b. ASSUME NEW to \in 0 .. MaxAlerts PROVE Newest(to) \subseteq 1 .. MaxAlerts
  BY DEF Newest
<1>1. CASE AlertRaised
  BY <1>1 DEF AlertRaised, TableInv, RequestFollowsRows
<1>2. CASE RefreshLands
  <2>1. /\ loaded' = Newest(newest) /\ page' = PageStill(loaded', size)
        /\ UNCHANGED <<newest, more, size>>
    BY <1>2 DEF RefreshLands
  <2>2. loaded' \subseteq 1 .. MaxAlerts
    BY <1>b, <2>1 DEF TableInv
  <2>3. PageCount(loaded', size) \in Nat \ {0}
    BY <1>a, <2>2 DEF TableInv
  <2>4. PageCount(loaded, size) \in Nat \ {0}
    BY <1>a DEF TableInv
  <2>5. page' \in 1 .. PageCount(loaded', size)
    BY <2>1, <2>3, <2>4 DEF PageStill, TableInv
  <2>6. QED
    BY <2>1, <2>2, <2>5 DEF TableInv, RequestFollowsRows
<1>3. CASE LoadMoreSent
  <2>1. /\ more' = [sent |-> TRUE, to |-> OlderThan(loaded), rows |-> loaded]
        /\ loaded # {} /\ OlderThan(loaded) > 0 /\ UNCHANGED <<newest, loaded, page, size>>
    BY <1>3 DEF LoadMoreSent
  <2>2. Oldest(loaded) \in 1 .. MaxAlerts
    BY <2>1, OldestIsFirst DEF TableInv
  <2>3. OlderThan(loaded) \in 0 .. MaxAlerts
    BY <2>1, <2>2 DEF OlderThan
  <2>4. QED
    BY <2>1, <2>3 DEF TableInv, RequestFollowsRows
<1>4. CASE LoadMoreLands
  <2>1. /\ loaded' = loaded \cup Newest(more.to) /\ more' = NoRequest
        /\ UNCHANGED <<newest, page, size>>
    BY <1>4 DEF LoadMoreLands
  <2>2. loaded' \subseteq 1 .. MaxAlerts
    BY <1>b, <2>1 DEF TableInv
  <2>3. PageCount(loaded, size) <= PageCount(loaded', size)
    BY <1>0, <2>1, <2>2, RowsAreFinite, MoreRowsMorePages DEF TableInv
  <2>4. PageCount(loaded, size) \in Nat /\ PageCount(loaded', size) \in Nat
    BY <1>a, <2>2 DEF TableInv
  <2>5. QED
    BY <2>1, <2>2, <2>3, <2>4 DEF TableInv, RequestFollowsRows, NoRequest
<1>5. CASE LoadMoreFails
  BY <1>5 DEF LoadMoreFails, TableInv, RequestFollowsRows, NoRequest
<1>6. CASE GoToPage
  BY <1>6 DEF GoToPage, TableInv, RequestFollowsRows
<1>7. ASSUME NEW n \in Sizes, ChangePageSize(n) PROVE TableInv'
  <2>1. /\ size' = n /\ page' = IF n = size THEN page ELSE 1
        /\ UNCHANGED <<newest, loaded, more>>
    BY <1>7 DEF ChangePageSize
  <2>2. PageCount(loaded, n) \in Nat \ {0}
    BY <1>a DEF TableInv
  <2>3. QED
    BY <2>1, <2>2 DEF TableInv, RequestFollowsRows
<1>8. CASE (\E key \in SortKeys : HandleSort(key)) \/ ToggleRow \/ UNCHANGED tableVars
  BY <1>8 DEF HandleSort, ToggleRow, tableVars, TableInv, RequestFollowsRows
<1>9. QED
  BY <1>1, <1>2, <1>3, <1>4, <1>5, <1>6, <1>7, <1>8 DEF TableNext

\* A row's place in the order of the table.
LEMMA RankIsAPlace ==
    ASSUME IsFiniteSet(loaded), loaded \subseteq Nat, NEW a \in loaded
    PROVE  Rank(a) \in Nat /\ Rank(a) < Cardinality(loaded)
<1> DEFINE before == {b \in loaded : IF sort.direction = "asc" THEN b < a ELSE b > a}
<1>1. before \subseteq loaded \ {a}
  OBVIOUS
<1>2. /\ IsFiniteSet(loaded \ {a}) /\ Cardinality(loaded \ {a}) = Cardinality(loaded) - 1
      /\ Cardinality(loaded) \in Nat
  BY FS_RemoveElement, FS_CardinalityType
<1>3. IsFiniteSet(before) /\ Cardinality(before) <= Cardinality(loaded \ {a})
  BY <1>1, <1>2, FS_Subset
<1>4. Cardinality(before) \in Nat
  BY <1>3, FS_CardinalityType
<1>5. Rank(a) = Cardinality(before)
  BY DEF Rank
<1>6. QED
  BY <1>2, <1>3, <1>4, <1>5

LEMMA PagesPartitionTheRows ==
    ASSUME TableInv
    PROVE  LET total == PageCount(loaded, size)
           IN  /\ UNION {DisplayedAlerts(p) : p \in 1 .. total} = loaded
               /\ \A p, q \in 1 .. total :
                      p # q => DisplayedAlerts(p) \cap DisplayedAlerts(q) = {}
<1> DEFINE total == PageCount(loaded, size)
<1>1. IsFiniteSet(loaded) /\ loaded \subseteq Nat /\ size \in Nat \ {0}
  BY RowsAreFinite, TableConstants DEF TableInv
<1>2. total \in Nat \ {0}
  BY <1>1, PagesHoldTheRows
<1> HIDE DEF total
<1>3. ASSUME NEW a \in loaded PROVE \E p \in 1 .. total : a \in DisplayedAlerts(p)
  <2>1. Rank(a) \in Nat /\ Rank(a) < Cardinality(loaded)
    BY <1>1, RankIsAPlace
  <2> DEFINE q == Rank(a) \div size
  <2>2. q \in Nat /\ q * size <= Rank(a) /\ Rank(a) < q * size + size
    BY <1>1, <2>1, QuotientOfRank
  <2>3. q + 1 <= total
    BY <1>1, <2>1, PagesHoldTheRows DEF total
  <2> HIDE DEF q
  <2>4. q + 1 \in 1 .. total /\ (q + 1) - 1 = q
    BY <1>2, <2>2, <2>3
  <2>5. a \in DisplayedAlerts(q + 1)
    BY <2>2, <2>4 DEF DisplayedAlerts
  <2>6. QED
    BY <2>4, <2>5
<1>4. ASSUME NEW p \in 1 .. total, NEW q \in 1 .. total, NEW a \in loaded, p < q,
             a \in DisplayedAlerts(p), a \in DisplayedAlerts(q)
      PROVE  FALSE
  <2>1. p - 1 \in Nat /\ q - 1 \in Nat /\ p - 1 < q - 1
    BY <1>2, <1>4
  <2>2. (p - 1) * size + size <= (q - 1) * size
    BY <1>1, <2>1, ProductsAreOrdered
  <2>3. (p - 1) * size \in Nat /\ (q - 1) * size \in Nat /\ Rank(a) \in Nat
    BY <1>1, <2>1, RankIsAPlace
  <2>4. Rank(a) < (p - 1) * size + size /\ (q - 1) * size <= Rank(a)
    BY <1>4 DEF DisplayedAlerts
  <2>5. QED
    BY <1>1, <2>2, <2>3, <2>4
<1>5. \A p \in 1 .. total : DisplayedAlerts(p) \subseteq loaded
  BY DEF DisplayedAlerts
<1>6. \A p, q \in 1 .. total : p # q => DisplayedAlerts(p) \cap DisplayedAlerts(q) = {}
  <2> SUFFICES ASSUME NEW p \in 1 .. total, NEW q \in 1 .. total, p # q, NEW a \in loaded,
                      a \in DisplayedAlerts(p), a \in DisplayedAlerts(q)
               PROVE  FALSE
    BY <1>5
  <2>1. p < q \/ q < p
    BY <1>2
  <2>2. QED
    BY <1>4, <2>1
<1>7. QED
  BY <1>3, <1>5, <1>6 DEF total

\* However the table grows and shrinks, its pages partition its rows, the page shown is
\* one of them, and the buttons lead to it.
LEMMA PagingAlwaysSound == TableSpec => []PagingIsSound
<1>1. ASSUME TableInv PROVE PagingIsSound
  <2>1. PageCount(loaded, size) \in Nat \ {0} /\ page \in 1 .. PageCount(loaded, size)
    BY <1>1, TableConstants, RowsAreFinite, PagesHoldTheRows DEF TableInv
  <2>2. ButtonsLead(page, PageCount(loaded, size), PageItems(page, PageCount(loaded, size)))
    BY <2>1, ButtonsAreInOrder
  <2>3. QED
    BY <1>1, <2>1, <2>2, PagesPartitionTheRows DEF PagingIsSound, ButtonsLead
<1>2. QED
  BY <1>1, TableStart, TableStep, PTL DEF TableSpec

\* "Load more" skips no alert between the oldest row and those it adds.
LEMMA OlderAlertsAlwaysFollow == TableSpec => OlderAlertsFollow
<1> DEFINE Follows ==
      more.sent /\ ~more'.sent /\ loaded # loaded' /\ more.rows = loaded =>
          \A a \in loaded' \ loaded : a .. Oldest(loaded) \subseteq loaded'
<1>1. TableInv /\ [TableNext]_tableVars => [Follows]_tableVars
  <2> SUFFICES ASSUME TableInv, TableNext, more.sent, ~more'.sent, loaded # loaded',
                      more.rows = loaded, NEW a \in loaded' \ loaded,
                      NEW b \in a .. Oldest(loaded)
               PROVE  b \in loaded'
    BY DEF Follows
  <2>1. LoadMoreLands
    BY DEF TableNext, AlertRaised, RefreshLands, LoadMoreSent, LoadMoreFails, GoToPage, ToggleRow,
       ChangePageSize, HandleSort
  <2>2. loaded' = loaded \cup Newest(more.to)
    BY <2>1 DEF LoadMoreLands
  <2>3. Oldest(loaded) \in loaded /\ Oldest(loaded) \in Nat
    <3>1. loaded # {} /\ loaded \in SUBSET (1 .. MaxAlerts)
      BY DEF TableInv, RequestFollowsRows
    <3>2. Oldest(loaded) \in loaded
      BY <3>1, OldestIsFirst
    <3>3. Oldest(loaded) \in 1 .. MaxAlerts
      BY <3>1, <3>2
    <3>4. QED
      BY <3>2, <3>3
  <2>4. more.to = Oldest(loaded) - 1
    BY DEF TableInv, RequestFollowsRows, OlderThan
  <2>5. a \in 1 .. more.to /\ a > more.to - MaxResults
    BY <2>2 DEF Newest
  <2>6. CASE b = Oldest(loaded)
    BY <2>2, <2>3, <2>6
  <2>7. CASE b # Oldest(loaded)
    BY <2>2, <2>3, <2>4, <2>5, <2>7, TableConstants DEF Newest
  <2>8. QED
    BY <2>6, <2>7
<1>2. QED
  BY <1>1, TableStart, TableStep, PTL DEF TableSpec, OlderAlertsFollow, Follows

-----------------------------------------------------------------------------
(* The settings of the alerts *)

\* The error of the custom input is that of its text.
ErrorIsOfTheText ==
    customError = (customText # <<>> /\ (ParseTimeString(customText).bad
                                         \/ TooLong(ParseTimeString(customText).minutes)))

SettingsInv == ErrorIsOfTheText /\ RangeWithinLimit

LEMMA SettingsStart == SettingsInit => SettingsInv
BY DEF SettingsInit, SettingsInv, ErrorIsOfTheText, RangeWithinLimit

LEMMA SettingsStep == SettingsInv /\ [SettingsNext]_settingsVars => SettingsInv'
<1> SUFFICES ASSUME SettingsInv, [SettingsNext]_settingsVars PROVE SettingsInv'
  OBVIOUS
<1> USE DEF SettingsInv
<1>1. ASSUME NEW minutes \in TimeWindowOptions, SelectPeriod(minutes) PROVE SettingsInv'
  BY <1>1 DEF SelectPeriod, ErrorIsOfTheText, RangeWithinLimit
<1>2. ASSUME NEW text \in WindowTexts, HandleCustomTimeChange(text) PROVE SettingsInv'
  <2>1. /\ timeWindow' = timeWindow /\ customText' = text
        /\ customError' = (text # <<>> /\ (ParseTimeString(text).bad
                                           \/ TooLong(ParseTimeString(text).minutes)))
    BY <1>2 DEF HandleCustomTimeChange
  <2>2. QED
    BY <2>1 DEF ErrorIsOfTheText, RangeWithinLimit
\* An empty text is a bad one, so that what is set was looked at when it was typed.
<1>3. CASE HandleSetCustomTime
  <2>1. ~customError /\ ~ParseTimeString(customText).bad
        /\ timeWindow' = ParseTimeString(customText).minutes
        /\ customText' = <<>> /\ customError' = FALSE
    BY <1>3 DEF HandleSetCustomTime
  <2>2. customText # <<>>
    BY <2>1 DEF ParseTimeString, Bad
  <2>3. ~TooLong(timeWindow')
    BY <2>1, <2>2 DEF ErrorIsOfTheText
  <2>4. QED
    BY <2>1, <2>3 DEF ErrorIsOfTheText, RangeWithinLimit, TooLong
<1>4. CASE HandleCancelCustomTime
  BY <1>4 DEF HandleCancelCustomTime, ErrorIsOfTheText, RangeWithinLimit
<1>5. CASE OpenCustomTimeInput \/ (\E n \in FetchSizes : ApplyCustomFetch(n))
           \/ UNCHANGED settingsVars
  BY <1>5 DEF OpenCustomTimeInput, ApplyCustomFetch, settingsVars, windowVars, ErrorIsOfTheText,
     RangeWithinLimit
<1>6. QED
  BY <1>1, <1>2, <1>3, <1>4, <1>5 DEF SettingsNext, ClickOutside

\* However the custom input is used, a range over the limit is never set with it.
LEMMA RangeAlwaysWithinLimit == SettingsSpec => []RangeWithinLimit
<1>1. SettingsInv => RangeWithinLimit
  BY DEF SettingsInv
<1>2. QED
  BY <1>1, SettingsStart, SettingsStep, PTL DEF SettingsSpec

-----------------------------------------------------------------------------
(* Search by image *)

\* An open overlay lies on a paused clip, the one last chosen.
OverlayIsOnThePausedClip ==
    /\ player.paused => player.clip # NoResult /\ player.time \in Times
    /\ overlay.active => player.paused
    /\ ~overlay.active => overlay.frame = NoFrame
    /\ opening # NoResult => player.clip = NoResult /\ activeVideoData = opening
    /\ player.clip # NoResult => player.clip = activeVideoData

\* A look that can still put a frame on the screen looks at what is paused there.
Here == [clip |-> player.clip, time |-> player.time]
WaitedFor(look) == ~look.aborted /\ look.at # "done"
LooksAreHere ==
    \A q \in DOMAIN looks : WaitedFor(looks[q]) => overlay.active /\ looks[q].of = Here

Frames == [of : Spots \cup {NoSpot}, objects : SUBSET Objects]
Players == [clip : Results \cup {NoResult}, paused : BOOLEAN, time : Times \cup {0}]
Overlays == [active : BOOLEAN, loading : BOOLEAN, error : BOOLEAN, frame : Frames]
Look == [of : Spots, at : {"picture", "frames", "both", "done"}, aborted : BOOLEAN]
ObjectSearch == [object : Objects, frame : Frames,
           at : [clip : Results \cup {NoResult}, time : Times \cup {0}]]

ImageInv ==
    /\ ImageTypeOK /\ searched \in Seq(ObjectSearch)
    /\ OverlayIsOnThePausedClip /\ LooksAreHere /\ ImageSearchIsCurrent

LEMMA EmptyFrames == NoFrame \in Frames /\ Inactive \in Overlays /\ Loading \in Overlays
BY DEF NoFrame, Frames, Inactive, Overlays, Loading

\* The players a clip starts in, paused ones and playing ones are players of the type.
LEMMA StartedPlayers ==
    \A c \in Results \cup {NoResult} : [clip |-> c, paused |-> FALSE, time |-> 0] \in Players
BY DEF Players

LEMMA ImageStart == ImageInit => ImageInv
<1> SUFFICES ASSUME ImageInit PROVE ImageInv
  OBVIOUS
<1>1. looks = <<>> /\ searched = <<>> /\ overlay = Inactive /\ player = Closed
      /\ activeVideoData = NoResult /\ opening = NoResult /\ selected = NoObject
  BY DEF ImageInit
<1>2. ImageTypeOK
  BY <1>1, EmptyFrames, ImageConstants DEF ImageTypeOK, Closed, Overlays, Frames
<1>3. QED
  BY <1>1, <1>2 DEF ImageInv, OverlayIsOnThePausedClip, LooksAreHere, ImageSearchIsCurrent,
     Inactive, Closed

\* Every look that is cancelled is left as an aborted one.
LEMMA LooksAreAborted ==
    ASSUME looks \in Seq(Look)
    PROVE  /\ AbortLooks \in Seq(Look) /\ Len(AbortLooks) = Len(looks)
           /\ \A q \in DOMAIN AbortLooks : ~WaitedFor(AbortLooks[q])
<1>1. \A q \in DOMAIN looks : looks[q] \in Look
  OBVIOUS
<1>2. \A q \in DOMAIN looks :
          [looks[q] EXCEPT !.aborted = TRUE] \in Look
          /\ [looks[q] EXCEPT !.aborted = TRUE].aborted = TRUE
  BY <1>1 DEF Look
<1>3. DOMAIN looks = 1 .. Len(looks) /\ Len(looks) \in Nat
  OBVIOUS
<1>4. /\ DOMAIN AbortLooks = 1 .. Len(looks)
      /\ \A q \in DOMAIN looks : AbortLooks[q] \in Look /\ AbortLooks[q].aborted
  BY <1>2, <1>3 DEF AbortLooks
<1>5. AbortLooks \in [1 .. Len(looks) -> Look]
  BY <1>3, <1>4 DEF AbortLooks
<1>6. AbortLooks \in Seq(Look) /\ Len(AbortLooks) = Len(looks)
  BY <1>3, <1>5
<1>7. QED
  BY <1>3, <1>4, <1>6 DEF WaitedFor

\* A pick outlives a step only with its frame.
LEMMA PickStaysOnItsFrame ==
    ASSUME PickAfter, selected \in Objects \cup {NoObject},
           selected # NoObject => selected \in overlay.frame.objects
    PROVE  /\ selected' \in Objects \cup {NoObject}
           /\ selected' # NoObject => selected' \in overlay'.frame.objects
BY DEF PickAfter

LEMMA ImageStep == ImageInv /\ [ImageNext]_imageVars => ImageInv'
<1> SUFFICES ASSUME ImageInv, [ImageNext]_imageVars PROVE ImageInv'
  OBVIOUS
<1>0. /\ player \in Players
      /\ looks \in Seq(Look) /\ Len(looks) <= MaxFrames /\ overlay \in Overlays
      /\ selected \in Objects \cup {NoObject} /\ searched \in Seq(ObjectSearch)
      /\ activeVideoData \in Results \cup {NoResult} /\ opening \in Results \cup {NoResult}
      /\ MaxFrames \in Nat /\ Len(searched) <= MaxFrames
      /\ selected # NoObject => selected \in overlay.frame.objects
  BY ImageConstants DEF ImageInv, ImageTypeOK, Overlays, Frames, Look, Players,
     ImageSearchIsCurrent
\* The clips and their overlay, when the looks stay.
<1>a. ASSUME UNCHANGED <<looks, overlay, selected, searched>>, player' = player,
             activeVideoData' \in Results, opening' = activeVideoData', ~player.paused,
             player.clip = NoResult
      PROVE  ImageInv'
  BY <1>a, <1>0 DEF ImageInv, ImageTypeOK, OverlayIsOnThePausedClip, LooksAreHere, Here,
     ImageSearchIsCurrent
<1>1. ASSUME NEW c \in Results, PlayVideo(c) PROVE ImageInv'
  <2>1. ~player.paused
    BY <1>1 DEF PlayVideo, ImageInv, OverlayIsOnThePausedClip
  <2>2. QED
    BY <1>a, <1>1, <2>1 DEF PlayVideo
<1>2. ASSUME NEW ok \in BOOLEAN, UrlAnswered(ok) PROVE ImageInv'
  <2>1. ~overlay.active /\ ~player.paused /\ player.clip = NoResult
        /\ activeVideoData = opening /\ opening # NoResult
    BY <1>2 DEF UrlAnswered, ImageInv, OverlayIsOnThePausedClip
  <2>2. /\ player' = player \/ player' = [clip |-> opening, paused |-> FALSE, time |-> 0]
        /\ opening' = NoResult
        /\ UNCHANGED <<activeVideoData, looks, overlay, selected, searched>>
    BY <1>2 DEF UrlAnswered, Closed
  <2>3. player' \in Players
    BY <1>0, <2>1, <2>2, StartedPlayers, Zenon
  <2>4. ImageTypeOK'
    BY <1>0, <2>2, <2>3 DEF ImageInv, ImageTypeOK, Players
  <2>5. OverlayIsOnThePausedClip'
    BY <2>1, <2>2 DEF ImageInv, OverlayIsOnThePausedClip
  <2>6. LooksAreHere'
    BY <2>1, <2>2 DEF ImageInv, LooksAreHere
  <2>7. ImageSearchIsCurrent'
    BY <2>1, <2>2 DEF ImageInv, OverlayIsOnThePausedClip, ImageSearchIsCurrent
  <2>8. QED
    BY <2>2, <2>4, <2>5, <2>6, <2>7 DEF ImageInv
<1>3. ASSUME (\E t \in Times : Pause(t)) \/ Resume PROVE ImageInv'
  <2>1. ~overlay.active /\ player.clip # NoResult
    BY <1>3 DEF Pause, Resume, ImageInv, OverlayIsOnThePausedClip
  <2>2. /\ player' \in Players
        /\ player'.clip = player.clip
        /\ player'.paused => player'.time \in Times
        /\ UNCHANGED <<activeVideoData, opening, looks, overlay, selected, searched>>
    BY <1>0, <1>3 DEF Pause, Resume, Players
  <2>3. ImageTypeOK'
    BY <1>0, <2>2 DEF ImageInv, ImageTypeOK, Players
  <2>4. OverlayIsOnThePausedClip'
    BY <2>1, <2>2 DEF ImageInv, OverlayIsOnThePausedClip
  <2>5. LooksAreHere'
    BY <2>1, <2>2 DEF ImageInv, LooksAreHere
  <2>6. ImageSearchIsCurrent'
    BY <2>1, <2>2 DEF ImageInv, OverlayIsOnThePausedClip, ImageSearchIsCurrent
  <2>7. QED
    BY <2>2, <2>3, <2>4, <2>5, <2>6 DEF ImageInv
\* A cancelled overlay leaves nothing behind, whether or not the clip closes with it.
<1>b. ASSUME CancelSearchByImage, PickAfter, UNCHANGED opening,
             searched' \in Seq(ObjectSearch), Len(searched') <= MaxFrames,
             \A i \in DOMAIN searched' :
                 searched'[i].frame.of = searched'[i].at
                 /\ searched'[i].object \in searched'[i].frame.objects,
             \/ UNCHANGED <<player, activeVideoData>>
             \/ player.clip # NoResult /\ player' = Closed /\ activeVideoData' = NoResult
      PROVE  ImageInv'
  <2>1. looks' = AbortLooks /\ overlay' = Inactive
    BY <1>b DEF CancelSearchByImage
  <2>2. looks' \in Seq(Look) /\ Len(looks') = Len(looks)
        /\ \A q \in DOMAIN looks' : ~WaitedFor(looks'[q])
    BY <1>0, <2>1, LooksAreAborted
  <2>3. /\ selected' \in Objects \cup {NoObject}
        /\ selected' # NoObject => selected' \in overlay'.frame.objects
    BY <1>0, <1>b, PickStaysOnItsFrame
  <2>4. /\ player' \in Players
        /\ activeVideoData' \in Results \cup {NoResult}
    BY <1>0, <1>b, StartedPlayers, Zenon DEF Closed
  <2>5. ~overlay'.active /\ overlay'.frame = NoFrame /\ overlay' \in Overlays
    BY <2>1, EmptyFrames DEF Inactive
  <2>6. ImageTypeOK'
    BY <1>0, <1>b, <2>2, <2>3, <2>4, <2>5 DEF ImageTypeOK, Overlays, Frames, Look, Players
  <2>7. OverlayIsOnThePausedClip'
    BY <1>b, <2>5 DEF ImageInv, OverlayIsOnThePausedClip, Closed
  <2>8. LooksAreHere' /\ ImageSearchIsCurrent'
    BY <1>b, <2>2, <2>3, <2>5 DEF LooksAreHere, ImageSearchIsCurrent, WaitedFor
  <2>9. QED
    BY <1>b, <2>6, <2>7, <2>8 DEF ImageInv
<1>4. CASE CancelOverlay \/ HandleCloseVideoModal
  <2>1. /\ CancelSearchByImage /\ PickAfter /\ UNCHANGED <<opening, searched>>
        /\ \/ UNCHANGED <<player, activeVideoData>>
           \/ player.clip # NoResult /\ player' = Closed /\ activeVideoData' = NoResult
    BY <1>4 DEF CancelOverlay, HandleCloseVideoModal
  <2>2. QED
    BY <1>0, <1>b, <2>1 DEF ImageInv, ImageSearchIsCurrent
<1>5. CASE StartSearchByImage
  <2> DEFINE look == [of |-> Here, at |-> "both", aborted |-> FALSE]
  <2>1. /\ looks' = Append(AbortLooks, [of |-> [clip |-> activeVideoData, time |-> player.time],
                                        at |-> "both", aborted |-> FALSE])
        /\ overlay' = Loading /\ PickAfter /\ Len(looks) < MaxFrames
        /\ player.paused /\ activeVideoData # NoResult /\ ~overlay.active
        /\ UNCHANGED <<activeVideoData, opening, player, searched>>
    BY <1>5 DEF StartSearchByImage
  <2>2. player.clip = activeVideoData /\ player.time \in Times /\ player.clip # NoResult
    BY <2>1 DEF ImageInv, OverlayIsOnThePausedClip
  <2>3. looks' = Append(AbortLooks, look) /\ look \in Look
    BY <1>0, <2>1, <2>2 DEF Here, Look, Spots
  <2>4. AbortLooks \in Seq(Look) /\ Len(AbortLooks) = Len(looks)
        /\ \A q \in DOMAIN AbortLooks : ~WaitedFor(AbortLooks[q])
    BY <1>0, LooksAreAborted
  <2>5. look.of = Here
    OBVIOUS
  <2> HIDE DEF look
  <2>6. /\ looks' \in Seq(Look) /\ Len(looks') <= MaxFrames
        /\ \A q \in DOMAIN looks' : WaitedFor(looks'[q]) => looks'[q].of = Here
    BY <1>0, <2>1, <2>3, <2>4, <2>5
  <2>7. overlay' \in Overlays /\ overlay'.active /\ overlay'.frame = NoFrame
    BY <2>1, EmptyFrames DEF Loading
  <2>8. /\ selected' \in Objects \cup {NoObject}
        /\ selected' # NoObject => selected' \in overlay'.frame.objects
    BY <1>0, <2>1, PickStaysOnItsFrame
  <2>9. ImageTypeOK'
    BY <1>0, <2>1, <2>6, <2>7, <2>8 DEF ImageTypeOK, Overlays, Frames, Look, Players
  <2>10. OverlayIsOnThePausedClip'
    BY <2>1, <2>7 DEF ImageInv, OverlayIsOnThePausedClip
  <2>11. LooksAreHere' /\ ImageSearchIsCurrent'
    BY <2>1, <2>6, <2>7, <2>8 DEF ImageInv, LooksAreHere, ImageSearchIsCurrent, WaitedFor, Here
  <2>12. QED
    BY <1>0, <2>1, <2>9, <2>10, <2>11 DEF ImageInv
<1>6. ASSUME NEW q \in DOMAIN looks, NEW half \in {"picture", "frames"}, NEW ok \in BOOLEAN,
             NEW objs \in SUBSET Objects, LookAnswered(q, half, ok, objs)
      PROVE  ImageInv'
  <2>1. PICK at \in {"picture", "frames", "done"} : looks' = [looks EXCEPT ![q].at = at]
    BY <1>6 DEF LookAnswered
  <2> DEFINE shown == [of |-> looks[q].of, objects |-> objs]
  <2>2. /\ PickAfter /\ looks[q].at \in {half, "both"}
        /\ UNCHANGED <<activeVideoData, opening, player, searched>>
    BY <1>6 DEF LookAnswered
  <2>a. looks[q] \in Look
    BY <1>0
  <2>3. looks[q] \in Look /\ looks[q].at # "done" /\ looks[q].of \in Spots
    BY <2>a, <2>2 DEF Look
  <2>4. shown \in Frames
    BY <2>3 DEF Frames
  <2>5. \/ overlay' = overlay
        \/ ~looks[q].aborted /\ overlay' = [overlay EXCEPT !.loading = FALSE, !.error = TRUE]
        \/ /\ ~looks[q].aborted
           /\ overlay' = [active |-> TRUE, loading |-> FALSE, error |-> FALSE, frame |-> shown]
    BY <1>6 DEF LookAnswered, Loading
  <2>6. shown.of = looks[q].of
    OBVIOUS
  <2> HIDE DEF shown
  <2>7. ~looks[q].aborted => overlay.active /\ looks[q].of = Here
    BY <2>3 DEF ImageInv, LooksAreHere, WaitedFor
  <2>8. /\ overlay' \in Overlays /\ overlay'.active = overlay.active
        /\ overlay'.frame = overlay.frame \/ (overlay.active /\ overlay'.frame.of = Here)
    <3> DEFINE failed == [overlay EXCEPT !.loading = FALSE, !.error = TRUE]
               framed == [active |-> TRUE, loading |-> FALSE, error |-> FALSE, frame |-> shown]
    <3>1. /\ failed \in Overlays /\ failed.active = overlay.active
          /\ failed.frame = overlay.frame
          /\ framed \in Overlays /\ framed.active = TRUE /\ framed.frame = shown
          /\ overlay.active \in BOOLEAN
      BY <1>0, <2>4 DEF Overlays
    <3>2. overlay' \in {overlay, failed} \/ (overlay' = framed /\ ~looks[q].aborted)
      BY <2>5
    <3> HIDE DEF failed, framed
    <3>3. overlay' \in Overlays
      BY <1>0, <3>1, <3>2
    <3>4. CASE overlay' \in {overlay, failed}
      BY <3>1, <3>3, <3>4
    <3>5. CASE overlay' = framed /\ ~looks[q].aborted
      <4>1. overlay.active = TRUE /\ looks[q].of = Here
        BY <2>7, <3>1, <3>5
      <4>2. QED
        BY <2>6, <3>1, <3>3, <3>5, <4>1
    <3>6. QED
      BY <3>2, <3>4, <3>5
  <2>9. /\ looks' \in Seq(Look) /\ Len(looks') = Len(looks)
        /\ \A p \in DOMAIN looks' : /\ p \in DOMAIN looks
                                    /\ looks'[p].of = looks[p].of
                                    /\ WaitedFor(looks'[p]) => WaitedFor(looks[p])
    <3>1. [looks[q] EXCEPT !.at = at] \in Look
      BY <2>1, <2>3 DEF Look
    <3>2. /\ [looks[q] EXCEPT !.at = at].of = looks[q].of
          /\ [looks[q] EXCEPT !.at = at].aborted = looks[q].aborted
      BY <2>3 DEF Look
    <3>3. looks' = [looks EXCEPT ![q] = [looks[q] EXCEPT !.at = at]]
      BY <2>1
    <3> DEFINE next == [looks[q] EXCEPT !.at = at]
    <3>4. WaitedFor(next) => WaitedFor(looks[q])
      BY <2>3, <3>2 DEF WaitedFor
    <3>5. next \in Look /\ looks' = [looks EXCEPT ![q] = next] /\ next.of = looks[q].of
      BY <3>1, <3>2, <3>3
    <3> HIDE DEF next
    <3>6. QED
      BY <1>0, <3>4, <3>5
  <2>10. /\ selected' \in Objects \cup {NoObject}
         /\ selected' # NoObject => selected' \in overlay'.frame.objects
    BY <1>0, <2>2, PickStaysOnItsFrame
  <2>11. ImageTypeOK'
    BY <1>0, <2>2, <2>8, <2>9, <2>10 DEF ImageTypeOK, Overlays, Frames, Look, Players
  <2>12. OverlayIsOnThePausedClip'
    BY <2>2, <2>8 DEF ImageInv, OverlayIsOnThePausedClip
  <2>13. LooksAreHere'
    BY <2>2, <2>8, <2>9 DEF ImageInv, LooksAreHere, Here
  <2>14. ImageSearchIsCurrent'
    BY <2>2, <2>8, <2>10 DEF ImageInv, ImageSearchIsCurrent, OverlayIsOnThePausedClip, Here
  <2>15. QED
    BY <1>0, <2>2, <2>11, <2>12, <2>13, <2>14 DEF ImageInv
<1>7. ASSUME NEW o \in Objects, SelectObject(o) PROVE ImageInv'
  BY <1>7 DEF SelectObject, ImageInv, ImageTypeOK, OverlayIsOnThePausedClip, LooksAreHere,
     Here, ImageSearchIsCurrent
<1>8. CASE HandleSearchByImageConfirm
  <2> DEFINE sent == [object |-> selected, frame |-> overlay.frame, at |-> Here]
  <2>1. /\ overlay.active /\ selected # NoObject /\ Len(searched) < MaxFrames
        /\ searched' = Append(searched, sent)
        /\ player' = Closed /\ activeVideoData' = NoResult
        /\ CancelSearchByImage /\ PickAfter /\ UNCHANGED opening
    BY <1>8 DEF HandleSearchByImageConfirm, Here
  <2>2. player.clip # NoResult /\ selected \in overlay.frame.objects
    BY <1>0, <2>1 DEF ImageInv, OverlayIsOnThePausedClip
  <2>3. overlay.frame # NoFrame
    BY <2>2 DEF NoFrame
  <2>4. overlay.frame.of = Here
    BY <2>3 DEF ImageInv, ImageSearchIsCurrent, Here
  <2>5. sent \in ObjectSearch
    <3>1. overlay.frame \in Frames /\ Here \in [clip : Results \cup {NoResult},
                                               time : Times \cup {0}]
      BY <1>0 DEF Here, Overlays, Players
    <3>2. selected \in Objects
      BY <1>0, <2>1
    <3>3. QED
      BY <3>1, <3>2 DEF ObjectSearch
  <2>6. sent.frame.of = sent.at /\ sent.object \in sent.frame.objects
    BY <2>2, <2>4
  <2> HIDE DEF sent
  <2>7. /\ searched' \in Seq(ObjectSearch) /\ Len(searched') <= MaxFrames
        /\ \A i \in DOMAIN searched' :
               searched'[i].frame.of = searched'[i].at
               /\ searched'[i].object \in searched'[i].frame.objects
    BY <1>0, <2>1, <2>5, <2>6 DEF ImageInv, ImageSearchIsCurrent
  <2>8. QED
    BY <1>b, <2>1, <2>2, <2>7
<1>9. CASE UNCHANGED imageVars
  BY <1>9 DEF imageVars, ImageInv, ImageTypeOK, OverlayIsOnThePausedClip, LooksAreHere,
     Here, ImageSearchIsCurrent
<1>10. QED
  BY <1>1, <1>2, <1>3, <1>4, <1>5, <1>6, <1>7, <1>8, <1>9 DEF ImageNext

\* However the answers of the looks are ordered, the frame on screen is that of the
\* paused clip, and an object is searched for where it was picked.
LEMMA ImageSearchAlwaysCurrent == ImageSpec => []ImageSearchIsCurrent
<1>1. ImageInv => ImageSearchIsCurrent
  BY DEF ImageInv
<1>2. QED
  BY <1>1, ImageStart, ImageStep, PTL DEF ImageSpec

-----------------------------------------------------------------------------
(* Tab sessions *)

\* A message is where it was put, and only the first one leaves the queue.
LEMMA ToSetOfConcat ==
    ASSUME NEW M, NEW s \in Seq(M), NEW r \in Seq(M)
    PROVE  /\ s \o r \in Seq(M)
           /\ ToSet(s) \subseteq ToSet(s \o r) /\ ToSet(r) \subseteq ToSet(s \o r)
<1>1. s \o r \in Seq(M) /\ Len(s \o r) = Len(s) + Len(r)
      /\ \A i \in 1 .. Len(s) + Len(r) :
             (s \o r)[i] = IF i <= Len(s) THEN s[i] ELSE r[i - Len(s)]
  BY ConcatProperties
<1>2. Len(s) \in Nat /\ Len(r) \in Nat
  OBVIOUS
<1>3. \A i \in 1 .. Len(s) : i \in 1 .. Len(s \o r) /\ (s \o r)[i] = s[i]
  BY <1>1, <1>2
<1>4. \A i \in 1 .. Len(r) : i + Len(s) \in 1 .. Len(s \o r) /\ (s \o r)[i + Len(s)] = r[i]
  BY <1>1, <1>2
<1>5. DOMAIN s = 1 .. Len(s) /\ DOMAIN r = 1 .. Len(r) /\ DOMAIN (s \o r) = 1 .. Len(s \o r)
  BY <1>1
<1>6. ToSet(s) \subseteq ToSet(s \o r)
  BY <1>3, <1>5 DEF ToSet
<1>7. ToSet(r) \subseteq ToSet(s \o r)
  BY <1>4, <1>5 DEF ToSet
<1>8. QED
  BY <1>1, <1>6, <1>7

LEMMA ToSetOfAppend ==
    ASSUME NEW M, NEW s \in Seq(M), NEW m \in M
    PROVE  Append(s, m) \in Seq(M) /\ ToSet(s) \cup {m} \subseteq ToSet(Append(s, m))
<1>1. Append(s, m) \in Seq(M) /\ Len(Append(s, m)) = Len(s) + 1 /\ Len(s) \in Nat
      /\ (\A i \in 1 .. Len(s) : Append(s, m)[i] = s[i]) /\ Append(s, m)[Len(s) + 1] = m
  BY AppendProperties
<1>2. DOMAIN s = 1 .. Len(s) /\ DOMAIN Append(s, m) = 1 .. Len(s) + 1
  BY <1>1
<1>3. QED
  BY <1>1, <1>2 DEF ToSet

LEMMA ToSetOfTail ==
    ASSUME NEW M, NEW s \in Seq(M), s # <<>>
    PROVE  Tail(s) \in Seq(M) /\ Head(s) \in M /\ ToSet(s) \subseteq {Head(s)} \cup ToSet(Tail(s))
<1>1. /\ Tail(s) \in Seq(M) /\ Head(s) \in M /\ Len(Tail(s)) = Len(s) - 1 /\ Len(s) \in Nat
      /\ Len(s) # 0 /\ Head(s) = s[1]
      /\ \A i \in 1 .. Len(Tail(s)) : Tail(s)[i] = s[i + 1]
  BY HeadTailProperties, EmptySeq
<1>2. \A i \in 1 .. Len(s) : i = 1 \/ (i - 1 \in 1 .. Len(Tail(s)) /\ Tail(s)[i - 1] = s[i])
  BY <1>1
<1>3. DOMAIN s = 1 .. Len(s) /\ DOMAIN Tail(s) = 1 .. Len(Tail(s))
  BY <1>1
<1>4. ASSUME NEW i \in 1 .. Len(s) PROVE s[i] \in {Head(s)} \cup ToSet(Tail(s))
  <2>1. CASE i = 1
    BY <1>1, <2>1
  <2>2. CASE i - 1 \in 1 .. Len(Tail(s)) /\ Tail(s)[i - 1] = s[i]
    BY <1>3, <2>2 DEF ToSet
  <2>3. QED
    BY <1>2, <2>1, <2>2
<1>5. ToSet(s) \subseteq {Head(s)} \cup ToSet(Tail(s))
  BY <1>3, <1>4 DEF ToSet
<1>6. QED
  BY <1>1, <1>5

LEMMA ToSetIsSubset ==
    ASSUME NEW M, NEW s \in Seq(M) PROVE ToSet(s) \subseteq M
BY DEF ToSet

TabMessages == [type : {"announce", "request-presence"}, tab : BrowserTabs]

\* A tab counts itself, and every tab that was there before its search is asked, has
\* answered or is known to live.
SearchReaches(t, u) ==
    /\ OnChannel(t) /\ OnChannel(u) /\ u # t
    /\ \/ RequestPresence(t) \in ToSet(inbox[u]) \/ Announce(u) \in ToSet(inbox[t])
       \/ u \in liveTabs[t]
EldersAreReached == \A t \in BrowserTabs : \A u \in elders[t] : SearchReaches(t, u)
TabsCountThemselves == \A t \in BrowserTabs : OnChannel(t) => t \in liveTabs[t]

TabSessionInv ==
    /\ TabSessionTypeOK /\ inbox \in [BrowserTabs -> Seq(TabMessages)]
    /\ EldersAreReached /\ TabsCountThemselves /\ SweepSparesLiveTabs

LEMMA TabSessionStart == TabSessionInit => TabSessionInv
<1> SUFFICES ASSUME TabSessionInit PROVE TabSessionInv
  OBVIOUS
<1>1. inbox \in [BrowserTabs -> Seq(TabMessages)]
  BY DEF TabSessionInit
<1>2. \A t \in BrowserTabs : ToSet(inbox[t]) \subseteq TabMessages
  BY <1>1, ToSetIsSubset
<1>3. keys \subseteq StoreKeys
  BY DEF TabSessionInit, StoreKeys, StoreKey, Bases
<1>4. swept \in [by : BrowserTabs \cup {Untagged}, tabs : SUBSET (BrowserTabs \cup {Untagged})]
  BY DEF TabSessionInit, NothingSwept
<1>5. TabSessionTypeOK
  BY <1>2, <1>3, <1>4, TabSessionConstants DEF TabSessionInit, TabSessionTypeOK, TabMessages
<1>6. QED
  BY <1>1, <1>5 DEF TabSessionInit, TabSessionInv, EldersAreReached, TabsCountThemselves,
     OnChannel, SweepSparesLiveTabs

\* What the messages of a tab may do to the search of another: they stay or are taken in.
LEMMA EldersStayReached ==
    ASSUME TabSessionInv, elders' = elders,
           \A t \in BrowserTabs : OnChannel(t) => OnChannel(t)' /\ liveTabs[t] \subseteq liveTabs'[t],
           \A t \in BrowserTabs : \A u \in elders[t] :
               /\ RequestPresence(t) \in ToSet(inbox[u]) =>
                      \/ RequestPresence(t) \in ToSet(inbox'[u])
                      \/ Announce(u) \in ToSet(inbox'[t])
               /\ Announce(u) \in ToSet(inbox[t]) =>
                      Announce(u) \in ToSet(inbox'[t]) \/ u \in liveTabs'[t]
    PROVE  EldersAreReached'
<1> SUFFICES ASSUME NEW t \in BrowserTabs, NEW u \in elders[t] PROVE SearchReaches(t, u)'
  BY DEF EldersAreReached
<1>1. u \in BrowserTabs
  BY DEF TabSessionInv, TabSessionTypeOK
<1>2. SearchReaches(t, u)
  BY DEF TabSessionInv, EldersAreReached
<1>3. OnChannel(t)' /\ OnChannel(u)' /\ u # t
  BY <1>1, <1>2 DEF SearchReaches
<1>4. \/ RequestPresence(t) \in ToSet(inbox'[u]) \/ Announce(u) \in ToSet(inbox'[t])
      \/ u \in liveTabs'[t]
  BY <1>2 DEF SearchReaches
<1>5. QED
  BY <1>3, <1>4 DEF SearchReaches, RequestPresence, Announce

LEMMA TabSessionStep == TabSessionInv /\ [TabSessionNext]_tabSessionVars => TabSessionInv'
<1> SUFFICES ASSUME TabSessionInv, [TabSessionNext]_tabSessionVars PROVE TabSessionInv'
  OBVIOUS
<1> DEFINE Places == {"none", "loads", "discovers", "runs"}
<1>0. /\ tabPage \in [BrowserTabs -> Places] /\ pages \in [BrowserTabs -> 0 .. MaxPages]
      /\ liveTabs \in [BrowserTabs -> SUBSET BrowserTabs]
      /\ inbox \in [BrowserTabs -> Seq(TabMessages)] /\ keys \subseteq StoreKeys
      /\ elders \in [BrowserTabs -> SUBSET BrowserTabs]
      /\ EldersAreReached /\ TabsCountThemselves
  BY DEF TabSessionInv, TabSessionTypeOK
<1> HIDE DEF Places
\* The invariant from its parts, for a step that sweeps nothing.
<1>a. ASSUME tabPage' \in [BrowserTabs -> Places], pages' \in [BrowserTabs -> 0 .. MaxPages],
             liveTabs' \in [BrowserTabs -> SUBSET BrowserTabs],
             inbox' \in [BrowserTabs -> Seq(TabMessages)], keys' \subseteq StoreKeys,
             elders' \in [BrowserTabs -> SUBSET BrowserTabs],
             EldersAreReached', TabsCountThemselves', swept' = NothingSwept
      PROVE  TabSessionInv'
  <2>1. \A t \in BrowserTabs : ToSet(inbox'[t]) \subseteq TabMessages
    BY <1>a, ToSetIsSubset
  <2>2. swept' \in [by : BrowserTabs \cup {Untagged}, tabs : SUBSET (BrowserTabs \cup {Untagged})]
    BY <1>a DEF NothingSwept
  <2>3. TabSessionTypeOK'
    BY <1>a, <2>1, <2>2 DEF TabSessionTypeOK, TabMessages, Places
  <2>4. SweepSparesLiveTabs'
    BY <1>a DEF SweepSparesLiveTabs
  <2>5. QED
    BY <1>a, <2>3, <2>4 DEF TabSessionInv
\* A step that only touches keys and pages.
<1>b. ASSUME UNCHANGED <<liveTabs, inbox, elders>>, keys' \subseteq StoreKeys,
             tabPage' \in [BrowserTabs -> Places], pages' \in [BrowserTabs -> 0 .. MaxPages],
             \A t \in BrowserTabs : OnChannel(t)' <=> OnChannel(t), swept' = NothingSwept
      PROVE  TabSessionInv'
  <2>1. EldersAreReached'
    BY <1>b, EldersStayReached
  <2>2. TabsCountThemselves'
    BY <1>0, <1>b DEF TabsCountThemselves
  <2>3. QED
    BY <1>0, <1>a, <1>b, <2>1, <2>2
<1>1. ASSUME NEW t \in BrowserTabs, PageLoads(t) PROVE TabSessionInv'
  <2>1. /\ tabPage' = [tabPage EXCEPT ![t] = "loads"] /\ pages' = [pages EXCEPT ![t] = pages[t] + 1]
        /\ tabPage[t] = "none" /\ pages[t] < MaxPages
        /\ swept' = NothingSwept /\ UNCHANGED <<liveTabs, inbox, keys, elders>>
    BY <1>1 DEF PageLoads
  <2>2. pages' \in [BrowserTabs -> 0 .. MaxPages]
    BY <1>0, <2>1, TabSessionConstants
  <2>3. tabPage' \in [BrowserTabs -> Places] /\ \A u \in BrowserTabs : OnChannel(u)' <=> OnChannel(u)
    BY <1>0, <2>1 DEF Places, OnChannel
  <2>4. QED
    BY <1>0, <1>b, <2>1, <2>2, <2>3
<1>2. ASSUME NEW t \in BrowserTabs, InitConversationSessionLifecycle(t) PROVE TabSessionInv'
  <2> DEFINE posts == <<RequestPresence(t), Announce(t)>>
  <2>1. /\ tabPage[t] = "loads" /\ tabPage' = [tabPage EXCEPT ![t] = "discovers"]
        /\ liveTabs' = [liveTabs EXCEPT ![t] = {t}]
        /\ inbox' = [u \in BrowserTabs |->
                         IF u # t /\ OnChannel(u) THEN inbox[u] \o posts ELSE inbox[u]]
        /\ elders' = [elders EXCEPT ![t] = {u \in BrowserTabs : u # t /\ OnChannel(u)}]
        /\ swept' = NothingSwept /\ UNCHANGED <<pages, keys>>
    BY <1>2 DEF InitConversationSessionLifecycle, Post, OnChannel
  <2>2. posts \in Seq(TabMessages) /\ RequestPresence(t) \in ToSet(posts)
    <3>1. RequestPresence(t) \in TabMessages /\ Announce(t) \in TabMessages
      BY DEF RequestPresence, Announce, TabMessages
    <3>2. DOMAIN posts = 1 .. 2 /\ posts[1] = RequestPresence(t)
      OBVIOUS
    <3>3. QED
      BY <3>1, <3>2 DEF ToSet
  <2> HIDE DEF posts
  <2>3. \A u \in BrowserTabs : /\ inbox[u] \o posts \in Seq(TabMessages)
                               /\ ToSet(inbox[u]) \subseteq ToSet(inbox[u] \o posts)
                               /\ ToSet(posts) \subseteq ToSet(inbox[u] \o posts)
    BY <1>0, <2>2, ToSetOfConcat
  <2>4. /\ inbox' \in [BrowserTabs -> Seq(TabMessages)]
        /\ \A u \in BrowserTabs : ToSet(inbox[u]) \subseteq ToSet(inbox'[u])
        /\ \A u \in elders'[t] : RequestPresence(t) \in ToSet(inbox'[u])
    BY <1>0, <2>1, <2>2, <2>3
  <2>5. /\ tabPage' \in [BrowserTabs -> Places]
        /\ \A u \in BrowserTabs : u # t => (OnChannel(u)' <=> OnChannel(u))
        /\ OnChannel(t)' /\ ~OnChannel(t)
    BY <1>0, <2>1 DEF Places, OnChannel
  <2>6. /\ liveTabs' \in [BrowserTabs -> SUBSET BrowserTabs]
        /\ elders' \in [BrowserTabs -> SUBSET BrowserTabs]
        /\ t \in liveTabs'[t]
        /\ \A u \in BrowserTabs : u # t => liveTabs'[u] = liveTabs[u] /\ elders'[u] = elders[u]
        /\ elders'[t] = {u \in BrowserTabs : u # t /\ OnChannel(u)}
    BY <1>0, <2>1
  <2>7. TabsCountThemselves'
    BY <1>0, <2>5, <2>6 DEF TabsCountThemselves
  <2>8. EldersAreReached'
    <3> SUFFICES ASSUME NEW x \in BrowserTabs, NEW u \in elders'[x] PROVE SearchReaches(x, u)'
      BY DEF EldersAreReached
    <3>1. u \in BrowserTabs
      BY <2>6
    <3>2. CASE x = t
      <4>1. RequestPresence(t) \in ToSet(inbox'[u]) /\ u # t /\ OnChannel(u)
        BY <2>4, <2>6, <3>2
      <4>2. QED
        BY <2>5, <3>1, <3>2, <4>1 DEF SearchReaches, RequestPresence
    <3>3. CASE x # t
      <4>1. SearchReaches(x, u)
        BY <1>0, <2>6, <3>3 DEF EldersAreReached
      <4>2. u # t /\ OnChannel(u)' /\ OnChannel(x)' /\ u # x
        BY <2>5, <3>1, <3>3, <4>1 DEF SearchReaches
      <4>3. \/ RequestPresence(x) \in ToSet(inbox'[u]) \/ Announce(u) \in ToSet(inbox'[x])
            \/ u \in liveTabs'[x]
        BY <2>4, <2>6, <3>1, <3>3, <4>1 DEF SearchReaches
      <4>4. QED
        BY <4>2, <4>3 DEF SearchReaches, RequestPresence, Announce
    <3>4. QED
      BY <3>2, <3>3
  <2>9. QED
    BY <1>0, <1>a, <2>1, <2>4, <2>5, <2>6, <2>7, <2>8
<1>3. ASSUME NEW t \in BrowserTabs, OnMessage(t) PROVE TabSessionInv'
  <2> DEFINE data == Head(inbox[t])
  <2>1. /\ inbox[t] # <<>> /\ swept' = NothingSwept /\ UNCHANGED <<tabPage, pages, keys, elders>>
    BY <1>3 DEF OnMessage
  <2>2. /\ Tail(inbox[t]) \in Seq(TabMessages) /\ data \in TabMessages
        /\ ToSet(inbox[t]) \subseteq {data} \cup ToSet(Tail(inbox[t]))
    BY <1>0, <2>1, ToSetOfTail
  <2>3. \A u \in BrowserTabs : OnChannel(u)' <=> OnChannel(u)
    BY <2>1 DEF OnChannel
  <2>4. CASE data.type = "announce"
    <3>1. /\ liveTabs' = [liveTabs EXCEPT ![t] = liveTabs[t] \cup {data.tab}]
          /\ inbox' = [inbox EXCEPT ![t] = Tail(inbox[t])]
      BY <1>3, <2>4 DEF OnMessage
    <3>2. data.tab \in BrowserTabs
      BY <2>2 DEF TabMessages
    <3> HIDE DEF data
    <3>3. /\ liveTabs' \in [BrowserTabs -> SUBSET BrowserTabs]
          /\ inbox' \in [BrowserTabs -> Seq(TabMessages)]
          /\ \A u \in BrowserTabs : liveTabs[u] \subseteq liveTabs'[u]
          /\ data.tab \in liveTabs'[t] /\ inbox'[t] = Tail(inbox[t])
          /\ \A u \in BrowserTabs : u # t => inbox'[u] = inbox[u]
      BY <1>0, <2>2, <3>1, <3>2
    <3>4. ASSUME NEW x \in BrowserTabs, NEW u \in elders[x]
          PROVE  /\ RequestPresence(x) \in ToSet(inbox[u]) => RequestPresence(x) \in ToSet(inbox'[u])
                 /\ Announce(u) \in ToSet(inbox[x]) =>
                        Announce(u) \in ToSet(inbox'[x]) \/ u \in liveTabs'[x]
      <4>1. u \in BrowserTabs
        BY <1>0
      <4>2. RequestPresence(x) # data
        BY <2>4 DEF RequestPresence
      <4>3. Announce(u) = data => u = data.tab
        BY DEF Announce
      <4>4. RequestPresence(x) \in ToSet(inbox[u]) => RequestPresence(x) \in ToSet(inbox'[u])
        BY <2>2, <3>3, <4>1, <4>2
      <4>5. Announce(u) \in ToSet(inbox[x]) =>
                Announce(u) \in ToSet(inbox'[x]) \/ u \in liveTabs'[x]
        BY <2>2, <3>3, <4>1, <4>3
      <4>6. QED
        BY <4>4, <4>5
    <3>5. EldersAreReached'
      BY <2>1, <2>3, <3>3, <3>4, EldersStayReached
    <3>6. TabsCountThemselves'
      BY <1>0, <2>3, <3>3 DEF TabsCountThemselves
    <3>7. QED
      BY <1>0, <1>a, <2>1, <3>3, <3>5, <3>6
  <2>5. CASE data.type # "announce"
    <3> DEFINE rest == [inbox EXCEPT ![t] = Tail(inbox[t])]
    <3>1. /\ inbox' = [u \in BrowserTabs |-> IF u # t /\ OnChannel(u)
                                             THEN Append(rest[u], Announce(t)) ELSE rest[u]]
          /\ liveTabs' = liveTabs
      BY <1>3, <2>5 DEF OnMessage
    <3>2. \A u \in BrowserTabs : rest[u] = IF u = t THEN Tail(inbox[t]) ELSE inbox[u]
      BY <1>0
    <3> HIDE DEF rest, data
    <3>3. Announce(t) \in TabMessages
      BY DEF Announce, TabMessages
    <3>4. \A u \in BrowserTabs : /\ Append(inbox[u], Announce(t)) \in Seq(TabMessages)
                                 /\ ToSet(inbox[u]) \cup {Announce(t)}
                                        \subseteq ToSet(Append(inbox[u], Announce(t)))
      BY <1>0, <3>3, ToSetOfAppend
    <3>5. /\ inbox' \in [BrowserTabs -> Seq(TabMessages)] /\ inbox'[t] = Tail(inbox[t])
          /\ \A u \in BrowserTabs : u # t => ToSet(inbox[u]) \subseteq ToSet(inbox'[u])
          /\ \A u \in BrowserTabs : u # t /\ OnChannel(u) => Announce(t) \in ToSet(inbox'[u])
      <4>1. \A u \in BrowserTabs :
                inbox'[u] = IF u = t THEN Tail(inbox[t])
                            ELSE IF OnChannel(u) THEN Append(inbox[u], Announce(t)) ELSE inbox[u]
        BY <3>1, <3>2
      <4>2. \A u \in BrowserTabs : inbox'[u] \in Seq(TabMessages)
        BY <1>0, <2>2, <3>4, <4>1
      <4>3. inbox' \in [BrowserTabs -> Seq(TabMessages)]
        BY <3>1, <4>2
      <4>4. QED
        BY <3>4, <4>1, <4>3
    <3>6. ASSUME NEW x \in BrowserTabs, NEW u \in elders[x]
          PROVE  /\ RequestPresence(x) \in ToSet(inbox[u]) =>
                        \/ RequestPresence(x) \in ToSet(inbox'[u])
                        \/ Announce(u) \in ToSet(inbox'[x])
                 /\ Announce(u) \in ToSet(inbox[x]) => Announce(u) \in ToSet(inbox'[x])
      <4>1. u \in BrowserTabs /\ OnChannel(x) /\ u # x
        BY <1>0 DEF EldersAreReached, SearchReaches
      <4>2. Announce(u) # data
        BY <2>5 DEF Announce
      <4>3. u = t => Announce(u) \in ToSet(inbox'[x])
        BY <3>5, <4>1
      <4>4. QED
        BY <2>2, <3>5, <4>1, <4>2, <4>3
    <3>7. EldersAreReached'
      BY <2>1, <2>3, <3>1, <3>6, EldersStayReached
    <3>8. TabsCountThemselves'
      BY <1>0, <2>3, <3>1 DEF TabsCountThemselves
    <3>9. QED
      BY <1>0, <1>a, <2>1, <3>1, <3>5, <3>7, <3>8
  <2>6. QED
    BY <2>4, <2>5
<1>4. ASSUME NEW t \in BrowserTabs, SweepOrphans(t) PROVE TabSessionInv'
  <2>1. /\ tabPage[t] = "discovers" /\ tabPage' = [tabPage EXCEPT ![t] = "runs"] /\ Answered(t)
        /\ keys' = {k \in keys : k.tab \in BrowserTabs \ (BrowserTabs \ liveTabs[t])}
        /\ swept' = [by |-> t, tabs |-> {k.tab : k \in keys \ keys'}]
        /\ UNCHANGED <<pages, liveTabs, inbox, elders>>
    BY <1>4 DEF SweepOrphans, Kept
  <2>2. tabPage' \in [BrowserTabs -> Places] /\ \A u \in BrowserTabs : OnChannel(u)' <=> OnChannel(u)
    BY <1>0, <2>1 DEF Places, OnChannel
  <2>3. EldersAreReached'
    BY <2>1, <2>2, EldersStayReached
  <2>4. TabsCountThemselves'
    BY <1>0, <2>1, <2>2 DEF TabsCountThemselves
  <2>5. \A k \in StoreKeys : k.tab \in BrowserTabs \cup {Untagged}
    BY DEF StoreKeys
  <2>6. /\ swept'.by = t /\ swept'.tabs = {k.tab : k \in keys \ keys'}
        /\ swept' \in [by : BrowserTabs \cup {Untagged}, tabs : SUBSET (BrowserTabs \cup {Untagged})]
    BY <1>0, <2>1, <2>5
  <2>7. elders[t] \cup {t} \subseteq liveTabs[t]
    BY <1>0, <2>1 DEF Answered, EldersAreReached, SearchReaches, TabsCountThemselves, OnChannel
  <2>8. \A k \in keys \ keys' : k.tab \notin liveTabs[t]
    BY <1>0, <2>1
  <2>9. SweepSparesLiveTabs'
    BY <2>1, <2>6, <2>7, <2>8 DEF SweepSparesLiveTabs
  <2>10. \A u \in BrowserTabs : ToSet(inbox[u]) \subseteq TabMessages
    BY <1>0, ToSetIsSubset
  <2>11. TabSessionTypeOK'
    BY <1>0, <2>1, <2>2, <2>6, <2>10 DEF TabSessionTypeOK, TabMessages, Places
  <2>12. QED
    BY <1>0, <2>1, <2>3, <2>4, <2>9, <2>11 DEF TabSessionInv
<1>5. ASSUME NEW t \in BrowserTabs,
             \/ \E base \in Bases : SaveToDb(t, base)
             \/ \E bases \in {{"selectedConversation"}, Bases} : RemoveFromDb(t, bases)
      PROVE  TabSessionInv'
  <2>1. /\ \/ \E base \in Bases : keys' = keys \cup {StoreKey(t, base)}
           \/ keys' \subseteq keys
        /\ swept' = NothingSwept /\ UNCHANGED <<tabPage, pages, liveTabs, inbox, elders>>
    BY <1>5 DEF SaveToDb, RemoveFromDb
  <2>2. \A base \in Bases : StoreKey(t, base) \in StoreKeys
    BY DEF StoreKey, StoreKeys
  <2>3. keys' \subseteq StoreKeys
    BY <1>0, <2>1, <2>2
  <2>4. \A u \in BrowserTabs : OnChannel(u)' <=> OnChannel(u)
    BY <2>1 DEF OnChannel
  <2>5. QED
    BY <1>0, <1>b, <2>1, <2>3, <2>4
<1>6. ASSUME NEW t \in BrowserTabs, NEW cleans \in BOOLEAN, PageHides(t, cleans) PROVE TabSessionInv'
  <2>1. /\ tabPage' = [tabPage EXCEPT ![t] = "none"] /\ inbox' = [inbox EXCEPT ![t] = <<>>]
        /\ elders' = [u \in BrowserTabs |-> IF u = t THEN {} ELSE elders[u] \ {t}]
        /\ swept' = NothingSwept /\ UNCHANGED <<pages, liveTabs>>
        /\ keys' \subseteq keys
    BY <1>6 DEF PageHides, Kept
  <2>2. /\ tabPage' \in [BrowserTabs -> Places] /\ inbox' \in [BrowserTabs -> Seq(TabMessages)]
        /\ elders' \in [BrowserTabs -> SUBSET BrowserTabs] /\ keys' \subseteq StoreKeys
    BY <1>0, <2>1 DEF Places
  <2>3. \A u \in BrowserTabs : /\ u # t => inbox'[u] = inbox[u] /\ (OnChannel(u)' <=> OnChannel(u))
                               /\ u = t => ~OnChannel(u)'
    BY <1>0, <2>1 DEF OnChannel
  <2>4. TabsCountThemselves'
    BY <1>0, <2>1, <2>3 DEF TabsCountThemselves
  <2>5. EldersAreReached'
    <3> SUFFICES ASSUME NEW x \in BrowserTabs, NEW u \in elders'[x] PROVE SearchReaches(x, u)'
      BY DEF EldersAreReached
    <3>1. x # t /\ u # t /\ u \in elders[x] /\ u \in BrowserTabs
      BY <1>0, <2>1
    <3>2. SearchReaches(x, u)
      BY <1>0, <3>1 DEF EldersAreReached
    <3>3. QED
      BY <2>1, <2>3, <3>1, <3>2 DEF SearchReaches, RequestPresence, Announce
  <2>6. QED
    BY <1>0, <1>a, <2>1, <2>2, <2>4, <2>5
<1>7. CASE UNCHANGED tabSessionVars
  <2>1. UNCHANGED <<tabPage, pages, liveTabs, inbox, keys, elders, swept>>
    BY <1>7 DEF tabSessionVars
  <2>2. EldersAreReached' /\ TabsCountThemselves'
    BY <1>0, <2>1 DEF EldersAreReached, TabsCountThemselves, SearchReaches, OnChannel,
       RequestPresence, Announce
  <2>3. TabSessionTypeOK' /\ SweepSparesLiveTabs'
    BY <2>1 DEF TabSessionInv, TabSessionTypeOK, SweepSparesLiveTabs
  <2>4. QED
    BY <1>0, <2>1, <2>2, <2>3 DEF TabSessionInv
<1>8. QED
  BY <1>1, <1>2, <1>3, <1>4, <1>5, <1>6, <1>7 DEF TabSessionNext

\* The start of a page deletes no conversation of a tab that lives, for any number of
\* tabs, whatever order the messages between them are taken in.
THEOREM LiveTabsAreSpared == TabSessionSpec => []SweepSparesLiveTabs
<1>1. TabSessionInv => SweepSparesLiveTabs
  BY DEF TabSessionInv
<1>2. QED
  BY <1>1, TabSessionStart, TabSessionStep, PTL DEF TabSessionSpec

-----------------------------------------------------------------------------
(* The dialog of uploads *)

\* Rows whose ids differ and are in use, with metadata that was chosen for them.
RowsOwn(rows, made, chosen) ==
    \A i \in DOMAIN rows :
        /\ rows[i].id \in 1 .. made
        /\ rows[i].metadata \in {NoJson} \cup (chosen[rows[i].id] \cap ValidJson)
        /\ \A j \in DOMAIN rows : rows[j].id = rows[i].id => i = j

EntriesHaveNames == \A i \in DOMAIN entries : ~IsUploadFilenameInvalid(entries[i].name)
ChecksAreChosen == \A check \in checks : check.file \in chosenJson[check.row]

DialogInv ==
    /\ DialogTypeOK
    /\ RowsOwn(fileRows, rowsMade, chosenJson)
    /\ RowsOwn(entries, rowsMade, chosenJson)
    /\ EntriesHaveNames
    /\ ChecksAreChosen

LEMMA DialogInitInv == UploadDialogConstants /\ DialogInit => DialogInv
<1> SUFFICES ASSUME UploadDialogConstants, DialogInit PROVE DialogInv
  OBVIOUS
<1> USE DEF DialogInit, UploadDialogConstants
<1>1. DialogTypeOK
  <2>1. <<>> \in Seq(DialogRows)
    OBVIOUS
  <2>2. rowsMade \in 0 .. MaxRows /\ pending \in 0 .. rowsMade
    OBVIOUS
  <2>6. dialogShown \in BOOLEAN
    OBVIOUS
  <2>3. checks \subseteq [row : 1 .. rowsMade, file : JsonFiles]
    OBVIOUS
  <2>4. chosenJson \in [1 .. MaxRows -> SUBSET JsonFiles]
    OBVIOUS
  <2>5. fileRows \in Seq(DialogRows) /\ entries \in Seq(DialogRows)
    BY <2>1
  <2> QED BY <2>2, <2>3, <2>4, <2>5, <2>6 DEF DialogTypeOK
<1>2. RowsOwn(<<>>, 0, chosenJson)
  BY DEF RowsOwn
<1> QED BY <1>1, <1>2 DEF DialogInv, EntriesHaveNames, ChecksAreChosen

\* Rows keep what they own when there are more rows and more files to own.
LEMMA OwnGrows ==
    ASSUME NEW rows, NEW m \in Nat, NEW m2 \in Nat, m <= m2, NEW c, NEW c2, RowsOwn(rows, m, c),
           \A r \in 1 .. m : c[r] \subseteq c2[r]
    PROVE  RowsOwn(rows, m2, c2)
<1> SUFFICES ASSUME NEW i \in DOMAIN rows
             PROVE  /\ rows[i].id \in 1 .. m2
                    /\ rows[i].metadata \in {NoJson} \cup (c2[rows[i].id] \cap ValidJson)
                    /\ \A j \in DOMAIN rows : rows[j].id = rows[i].id => i = j
  BY DEF RowsOwn
<1>1. /\ rows[i].id \in 1 .. m
      /\ rows[i].metadata \in {NoJson} \cup (c[rows[i].id] \cap ValidJson)
      /\ \A j \in DOMAIN rows : rows[j].id = rows[i].id => i = j
  BY DEF RowsOwn
<1>2. rows[i].id \in 1 .. m2
  BY <1>1
<1>3. c[rows[i].id] \subseteq c2[rows[i].id]
  BY <1>1
<1> QED BY <1>1, <1>2, <1>3

\* New rows have their own numbers and no metadata.
LEMMA NewRowsOwn ==
    ASSUME UploadDialogConstants, rowsMade \in Nat, NEW names \in Seq(UploadNames),
           rowsMade + Len(names) <= MaxRows, NEW c
    PROVE  /\ NewRows(names) \in Seq(DialogRows) /\ Len(NewRows(names)) = Len(names)
           /\ \A i \in 1 .. Len(names) : NewRows(names)[i].id = rowsMade + i
                /\ NewRows(names)[i].metadata = NoJson
           /\ RowsOwn(NewRows(names), rowsMade + Len(names), c)
<1> DEFINE new == NewRows(names)
<1>1. DOMAIN names = 1 .. Len(names) /\ Len(names) \in Nat
  OBVIOUS
<1>2. \A i \in 1 .. Len(names) : new[i] = [id |-> rowsMade + i, name |-> names[i], metadata |-> NoJson]
  BY <1>1 DEF NewRows
<1>3. ASSUME NEW i \in 1 .. Len(names)
      PROVE  [id |-> rowsMade + i, name |-> names[i], metadata |-> NoJson] \in DialogRows
  <2>1. rowsMade + i \in 1 .. MaxRows
    BY DEF UploadDialogConstants
  <2>2. names[i] \in UploadNames
    BY <1>1
  <2> QED BY <2>1, <2>2 DEF DialogRows
<1>4. new = [i \in 1 .. Len(names) |-> new[i]]
  BY <1>1 DEF NewRows
<1> HIDE DEF new
<1>5. new \in [1 .. Len(names) -> DialogRows]
  BY <1>2, <1>3, <1>4
<1>6. new \in Seq(DialogRows) /\ Len(new) = Len(names) /\ DOMAIN new = 1 .. Len(names)
  BY <1>1, <1>5
<1>7. ASSUME NEW i \in 1 .. Len(names) PROVE new[i].id = rowsMade + i /\ new[i].metadata = NoJson
  <2>1. new[i] = [id |-> rowsMade + i, name |-> names[i], metadata |-> NoJson]
    BY <1>2
  <2> QED BY <2>1
<1>8. RowsOwn(new, rowsMade + Len(names), c)
  BY <1>1, <1>6, <1>7 DEF RowsOwn
<1> QED BY <1>6, <1>7, <1>8 DEF new

\* New rows after the old ones own what they have.
LEMMA MoreRowsOwn ==
    ASSUME NEW a \in Seq(DialogRows), NEW b \in Seq(DialogRows), NEW m \in Nat, NEW n \in Nat, NEW c,
           RowsOwn(a, m, c), RowsOwn(b, n, c), m <= n, \A i \in 1 .. Len(b) : b[i].id > m
    PROVE  a \o b \in Seq(DialogRows) /\ RowsOwn(a \o b, n, c)
<1> DEFINE s == a \o b
<1>1. s \in Seq(DialogRows) /\ Len(s) = Len(a) + Len(b)
      /\ \A i \in 1 .. Len(a) + Len(b) : s[i] = IF i <= Len(a) THEN a[i] ELSE b[i - Len(a)]
  BY ConcatProperties
<1>2. Len(a) \in Nat /\ Len(b) \in Nat /\ DOMAIN a = 1 .. Len(a) /\ DOMAIN b = 1 .. Len(b)
  OBVIOUS
<1> HIDE DEF s
<1>3. DOMAIN s = 1 .. Len(a) + Len(b)
  BY <1>1
<1>4. ASSUME NEW i \in 1 .. Len(a)
      PROVE  /\ s[i] = a[i] /\ a[i].id \in 1 .. m
             /\ a[i].metadata \in {NoJson} \cup (c[a[i].id] \cap ValidJson)
             /\ \A j \in 1 .. Len(a) : a[j].id = a[i].id => i = j
  <2>1. s[i] = a[i]
    BY <1>1, <1>2
  <2>2. i \in DOMAIN a
    BY <1>2
  <2>3. /\ a[i].id \in 1 .. m
        /\ a[i].metadata \in {NoJson} \cup (c[a[i].id] \cap ValidJson)
        /\ \A j \in DOMAIN a : a[j].id = a[i].id => i = j
    BY <2>2 DEF RowsOwn
  <2> QED BY <1>2, <2>1, <2>3
<1>5. ASSUME NEW i \in 1 .. Len(a) + Len(b), i > Len(a)
      PROVE  /\ i - Len(a) \in 1 .. Len(b)
             /\ s[i] = b[i - Len(a)] /\ s[i].id \in 1 .. n /\ s[i].id > m
             /\ s[i].metadata \in {NoJson} \cup (c[s[i].id] \cap ValidJson)
             /\ \A j \in 1 .. Len(b) : b[j].id = s[i].id => i - Len(a) = j
  <2>1. i - Len(a) \in 1 .. Len(b)
    BY <1>2, <1>5
  <2>2. s[i] = b[i - Len(a)]
    BY <1>1, <1>2, <1>5
  <2> QED BY <1>2, <2>1, <2>2 DEF RowsOwn
<1>6. ASSUME NEW i \in 1 .. Len(a) + Len(b)
      PROVE  /\ s[i].id \in 1 .. n
             /\ s[i].metadata \in {NoJson} \cup (c[s[i].id] \cap ValidJson)
  <2>1. CASE i <= Len(a)
    <3>1. i \in 1 .. Len(a)
      BY <1>2, <2>1
    <3> QED BY <1>4, <3>1
  <2>2. CASE i > Len(a)
    BY <1>5, <2>2
  <2> QED BY <1>2, <2>1, <2>2
<1>7. ASSUME NEW i \in 1 .. Len(a) + Len(b), NEW j \in 1 .. Len(a) + Len(b), s[j].id = s[i].id
      PROVE  i = j
  <2>1. CASE i <= Len(a) /\ j <= Len(a)
    <3>1. i \in 1 .. Len(a) /\ j \in 1 .. Len(a)
      BY <1>2, <2>1
    <3> QED BY <1>4, <1>7, <3>1
  <2>2. CASE i <= Len(a) /\ j > Len(a)
    <3>1. i \in 1 .. Len(a) /\ s[j].id > m
      BY <1>2, <1>5, <2>2
    <3>2. s[i].id \in 1 .. m
      BY <1>4, <3>1
    <3> QED BY <1>7, <3>1, <3>2
  <2>3. CASE i > Len(a) /\ j <= Len(a)
    <3>1. j \in 1 .. Len(a) /\ s[i].id > m
      BY <1>2, <1>5, <2>3
    <3>2. s[j].id \in 1 .. m
      BY <1>4, <3>1
    <3> QED BY <1>7, <3>1, <3>2
  <2>4. CASE i > Len(a) /\ j > Len(a)
    <3>1. /\ i - Len(a) \in 1 .. Len(b) /\ j - Len(a) \in 1 .. Len(b) /\ s[j] = b[j - Len(a)]
          /\ \A k \in 1 .. Len(b) : b[k].id = s[i].id => i - Len(a) = k
      BY <1>5, <2>4
    <3>2. i - Len(a) = j - Len(a)
      BY <1>7, <3>1
    <3> QED BY <1>2, <3>2
  <2> QED BY <1>2, <2>1, <2>2, <2>3, <2>4
<1>8. RowsOwn(s, n, c)
  BY <1>3, <1>6, <1>7 DEF RowsOwn
<1> QED BY <1>1, <1>8 DEF s

\* So do those that are left when some are removed.
LEMMA FewerRowsOwn ==
    ASSUME NEW rows \in Seq(DialogRows), NEW m, NEW c, NEW K, RowsOwn(rows, m, c)
    PROVE  Filtered(rows, K) \in Seq(DialogRows) /\ RowsOwn(Filtered(rows, K), m, c)
<1> DEFINE kept == Filtered(rows, K)
<1>1. kept \in Seq(DialogRows)
  BY FilteredType
<1>2. PICK h : Embeds(h, kept, rows, K)
  BY FilteredEmbeds
<1> HIDE DEF kept
<1>3. DOMAIN kept = 1 .. Len(kept) /\ DOMAIN rows = 1 .. Len(rows) /\ Len(kept) \in Nat /\ Len(rows) \in Nat
  BY <1>1
<1>4. /\ h \in [1 .. Len(kept) -> 1 .. Len(rows)]
      /\ \A i \in 1 .. Len(kept) : kept[i] = rows[h[i]]
      /\ \A i, j \in 1 .. Len(kept) : i < j => h[i] < h[j]
  BY <1>2 DEF Embeds
<1>5. ASSUME NEW i \in 1 .. Len(kept)
      PROVE  /\ kept[i].id \in 1 .. m
             /\ kept[i].metadata \in {NoJson} \cup (c[kept[i].id] \cap ValidJson)
  BY <1>3, <1>4 DEF RowsOwn
<1>6. ASSUME NEW i \in 1 .. Len(kept), NEW j \in 1 .. Len(kept), kept[j].id = kept[i].id
      PROVE  i = j
  <2>1. h[i] = h[j]
    BY <1>3, <1>4, <1>6 DEF RowsOwn
  <2>2. ~ (i < j) /\ ~ (j < i)
    <3>1. h[i] \in 1 .. Len(rows) /\ h[j] \in 1 .. Len(rows)
      BY <1>4
    <3> QED BY <1>4, <2>1, <3>1
  <2> QED BY <1>3, <2>2
<1>7. RowsOwn(kept, m, c)
  BY <1>3, <1>5, <1>6 DEF RowsOwn
<1> QED BY <1>1, <1>7 DEF kept

LEMMA NameListsType == NameLists \subseteq Seq(UploadNames)
<1>1. "plain" \in UploadNames /\ "blank" \in UploadNames
  BY DEF UploadNames
<1>2. <<>> \in Seq(UploadNames) /\ <<"plain", "plain">> \in Seq(UploadNames)
  BY <1>1
<1>3. \A n \in {"plain", "blank"} : <<n>> \in Seq(UploadNames)
  BY <1>1
<1> QED BY <1>2, <1>3 DEF NameLists

\* One row changed, its id kept.
LEMMA ChangedRowOwn ==
    ASSUME NEW rows \in Seq(DialogRows), NEW m, NEW c, RowsOwn(rows, m, c), NEW new \in Seq(DialogRows),
           Len(new) = Len(rows),
           \A i \in 1 .. Len(rows) :
               /\ new[i].id = rows[i].id
               /\ new[i].metadata \in {rows[i].metadata, NoJson} \cup (c[rows[i].id] \cap ValidJson)
    PROVE  RowsOwn(new, m, c)
<1>1. DOMAIN rows = 1 .. Len(rows) /\ DOMAIN new = 1 .. Len(rows)
  OBVIOUS
<1> SUFFICES ASSUME NEW i \in 1 .. Len(rows)
             PROVE  /\ new[i].id \in 1 .. m
                    /\ new[i].metadata \in {NoJson} \cup (c[new[i].id] \cap ValidJson)
                    /\ \A j \in 1 .. Len(rows) : new[j].id = new[i].id => i = j
  BY <1>1 DEF RowsOwn
<1>2. /\ rows[i].id \in 1 .. m
      /\ rows[i].metadata \in {NoJson} \cup (c[rows[i].id] \cap ValidJson)
      /\ \A j \in 1 .. Len(rows) : rows[j].id = rows[i].id => i = j
  BY <1>1 DEF RowsOwn
<1>3. /\ new[i].id = rows[i].id
      /\ new[i].metadata \in {rows[i].metadata, NoJson} \cup (c[rows[i].id] \cap ValidJson)
  OBVIOUS
<1>4. ASSUME NEW j \in 1 .. Len(rows), new[j].id = new[i].id PROVE i = j
  BY <1>2, <1>3, <1>4
<1> QED BY <1>2, <1>3, <1>4

\* What the actions that leave the rows alone keep.
LEMMA SameRows ==
    ASSUME UploadDialogConstants, DialogInv, dialogShown' \in BOOLEAN, pending' \in 0 .. rowsMade,
           UNCHANGED <<fileRows, rowsMade, checks, entries, chosenJson>>
    PROVE  DialogInv'
BY DEF DialogInv, DialogTypeOK, EntriesHaveNames, ChecksAreChosen

\* What the actions that change the rows keep, when no metadata is chosen.
LEMMA OtherRows ==
    ASSUME UploadDialogConstants, DialogInv, dialogShown' \in BOOLEAN, pending' \in 0 .. rowsMade',
           rowsMade' \in rowsMade .. MaxRows, fileRows' \in Seq(DialogRows),
           RowsOwn(fileRows', rowsMade', chosenJson), checks' \subseteq checks,
           UNCHANGED <<entries, chosenJson>>
    PROVE  DialogInv'
<1> USE DEF DialogInv, DialogTypeOK, UploadDialogConstants
<1>1. rowsMade \in Nat /\ rowsMade' \in Nat /\ rowsMade <= rowsMade' /\ rowsMade' \in 0 .. MaxRows
  OBVIOUS
<1>2. RowsOwn(entries, rowsMade', chosenJson)
  BY <1>1, OwnGrows
<1>3. checks' \subseteq [row : 1 .. rowsMade', file : JsonFiles]
  <2> SUFFICES ASSUME NEW check \in checks PROVE check \in [row : 1 .. rowsMade', file : JsonFiles]
    OBVIOUS
  <2>1. check \in [row : 1 .. rowsMade, file : JsonFiles]
    OBVIOUS
  <2>2. check.row \in 1 .. rowsMade' /\ check.file \in JsonFiles
          /\ check = [row |-> check.row, file |-> check.file]
    BY <2>1, <1>1
  <2> QED BY <2>2
<1>4. DialogTypeOK'
  BY <1>1, <1>3
<1> QED BY <1>2, <1>4 DEF EntriesHaveNames, ChecksAreChosen

\* What each handler of the dialog does.
LEMMA OpenDialogOwn ==
    ASSUME UploadDialogConstants, DialogInv, NEW names \in NameLists, OpenDialog(names)
    PROVE  DialogInv'
<1> USE DEF OpenDialog
<1>1. names \in Seq(UploadNames) /\ rowsMade \in Nat /\ Len(names) \in Nat
  BY NameListsType DEF DialogInv, DialogTypeOK
<1>2. /\ NewRows(names) \in Seq(DialogRows)
      /\ RowsOwn(NewRows(names), rowsMade + Len(names), chosenJson)
  BY <1>1, NewRowsOwn
<1>3. rowsMade' \in rowsMade .. MaxRows /\ pending' \in 0 .. rowsMade'
  BY <1>1 DEF UploadDialogConstants
<1> QED BY <1>2, <1>3, OtherRows

LEMMA NewFilesOwn ==
    ASSUME UploadDialogConstants, DialogInv, NEW names \in NameLists, ProcessNewFiles(names)
    PROVE  DialogInv'
<1> USE DEF ProcessNewFiles
<1>1. names \in Seq(UploadNames) /\ rowsMade \in Nat /\ Len(names) \in Nat
  BY NameListsType DEF DialogInv, DialogTypeOK
<1> DEFINE new == NewRows(names)
<1>2. /\ new \in Seq(DialogRows) /\ Len(new) = Len(names)
      /\ RowsOwn(new, rowsMade + Len(names), chosenJson)
  BY <1>1, NewRowsOwn
<1>4. \A i \in 1 .. Len(names) : new[i].id = rowsMade + i
  BY <1>1, NewRowsOwn
<1>3. rowsMade' \in rowsMade .. MaxRows /\ pending' \in 0 .. rowsMade' /\ rowsMade' = rowsMade + Len(names)
  BY <1>1 DEF UploadDialogConstants, DialogInv, DialogTypeOK
<1>5. fileRows' = fileRows \o new /\ fileRows \in Seq(DialogRows) /\ RowsOwn(fileRows, rowsMade, chosenJson)
  BY DEF DialogInv, DialogTypeOK
<1> HIDE DEF new
<1>6. \A i \in 1 .. Len(new) : new[i].id > rowsMade
  BY <1>1, <1>2, <1>4
<1>7. fileRows' \in Seq(DialogRows) /\ RowsOwn(fileRows', rowsMade', chosenJson)
  BY <1>1, <1>2, <1>3, <1>5, <1>6, MoreRowsOwn
<1>8. dialogShown' \in BOOLEAN
  BY DEF DialogInv, DialogTypeOK
<1> QED BY <1>3, <1>7, <1>8, OtherRows

LEMMA RemoveFileOwn ==
    ASSUME UploadDialogConstants, DialogInv, NEW id \in 1 .. MaxRows, HandleRemoveFile(id)
    PROVE  DialogInv'
<1> USE DEF HandleRemoveFile
<1> DEFINE others == {r \in DialogRows : r.id # id}
<1>1. fileRows \in Seq(DialogRows) /\ RowsOwn(fileRows, rowsMade, chosenJson)
  BY DEF DialogInv, DialogTypeOK
<1>2. fileRows' = Filtered(fileRows, others)
  <2>1. \A i \in DOMAIN fileRows : fileRows[i] \in DialogRows
    BY <1>1
  <2>2. [i \in DOMAIN fileRows |-> IF fileRows[i].id = id THEN <<>> ELSE <<fileRows[i]>>]
          = Chosen(fileRows, others)
    BY <2>1 DEF Chosen
  <2> QED BY <2>2 DEF Filtered
<1> HIDE DEF others
<1>3. fileRows' \in Seq(DialogRows) /\ RowsOwn(fileRows', rowsMade, chosenJson)
  BY <1>1, <1>2, FewerRowsOwn
<1>4. rowsMade' \in rowsMade .. MaxRows /\ pending' \in 0 .. rowsMade' /\ dialogShown' \in BOOLEAN
  BY DEF UploadDialogConstants, DialogInv, DialogTypeOK
<1> QED BY <1>3, <1>4, OtherRows

LEMMA FilenameChangeOwn ==
    ASSUME UploadDialogConstants, DialogInv, NEW id \in 1 .. MaxRows, NEW name \in UploadNames,
           HandleUploadFilenameChange(id, name)
    PROVE  DialogInv'
<1> USE DEF HandleUploadFilenameChange
<1>1. fileRows \in Seq(DialogRows) /\ RowsOwn(fileRows, rowsMade, chosenJson)
  BY DEF DialogInv, DialogTypeOK
<1>2. fileRows' = [i \in DOMAIN fileRows |->
                       IF fileRows[i].id = id THEN [fileRows[i] EXCEPT !.name = name] ELSE fileRows[i]]
  BY DEF SetRow
<1>3. DOMAIN fileRows = 1 .. Len(fileRows) /\ Len(fileRows) \in Nat
  BY <1>1
<1>4. ASSUME NEW i \in 1 .. Len(fileRows)
      PROVE  /\ fileRows'[i] \in DialogRows
             /\ fileRows'[i].id = fileRows[i].id /\ fileRows'[i].metadata = fileRows[i].metadata
  <2>1. fileRows[i] \in DialogRows
    BY <1>1
  <2>2. [fileRows[i] EXCEPT !.name = name] \in DialogRows
    BY <2>1 DEF DialogRows
  <2>3. /\ [fileRows[i] EXCEPT !.name = name].id = fileRows[i].id
        /\ [fileRows[i] EXCEPT !.name = name].metadata = fileRows[i].metadata
    BY <2>1 DEF DialogRows
  <2> QED BY <1>2, <1>3, <2>1, <2>2, <2>3
<1>5. fileRows' \in [1 .. Len(fileRows) -> DialogRows]
  BY <1>2, <1>3, <1>4
<1>6. fileRows' \in Seq(DialogRows) /\ Len(fileRows') = Len(fileRows)
  BY <1>3, <1>5
<1>7. RowsOwn(fileRows', rowsMade, chosenJson)
  BY <1>1, <1>4, <1>6, ChangedRowOwn
<1>8. rowsMade' \in rowsMade .. MaxRows /\ pending' \in 0 .. rowsMade' /\ dialogShown' \in BOOLEAN
  BY DEF UploadDialogConstants, DialogInv, DialogTypeOK
<1> QED BY <1>6, <1>7, <1>8, OtherRows

\* A row takes metadata that was chosen for it, or loses what it had.
LEMMA MetadataOwn ==
    ASSUME UploadDialogConstants, DialogInv, NEW id, NEW file \in JsonFiles \cup {NoJson},
           file \in {NoJson} \cup (chosenJson[id] \cap ValidJson),
           SetRow(id, LAMBDA r : [r EXCEPT !.metadata = file]), checks' \subseteq checks,
           UNCHANGED <<dialogShown, rowsMade, pending, entries, chosenJson>>
    PROVE  DialogInv'
<1>1. fileRows \in Seq(DialogRows) /\ RowsOwn(fileRows, rowsMade, chosenJson)
  BY DEF DialogInv, DialogTypeOK
<1>2. fileRows' = [i \in DOMAIN fileRows |->
                       IF fileRows[i].id = id THEN [fileRows[i] EXCEPT !.metadata = file] ELSE fileRows[i]]
  BY DEF SetRow
<1>3. DOMAIN fileRows = 1 .. Len(fileRows) /\ Len(fileRows) \in Nat
  BY <1>1
<1>4. ASSUME NEW i \in 1 .. Len(fileRows)
      PROVE  /\ fileRows'[i] \in DialogRows
             /\ fileRows'[i].id = fileRows[i].id
             /\ fileRows'[i].metadata
                   \in {fileRows[i].metadata, NoJson} \cup (chosenJson[fileRows[i].id] \cap ValidJson)
  <2>1. fileRows[i] \in DialogRows
    BY <1>1
  <2>2. [fileRows[i] EXCEPT !.metadata = file] \in DialogRows
    BY <2>1 DEF DialogRows
  <2>3. /\ [fileRows[i] EXCEPT !.metadata = file].id = fileRows[i].id
        /\ [fileRows[i] EXCEPT !.metadata = file].metadata = file
    BY <2>1 DEF DialogRows
  <2>4. CASE fileRows[i].id = id
    BY <1>2, <1>3, <2>2, <2>3, <2>4
  <2>5. CASE fileRows[i].id # id
    BY <1>2, <1>3, <2>1, <2>5
  <2> QED BY <2>4, <2>5
<1>5. fileRows' \in [1 .. Len(fileRows) -> DialogRows]
  BY <1>2, <1>3, <1>4
<1>6. fileRows' \in Seq(DialogRows) /\ Len(fileRows') = Len(fileRows)
  BY <1>3, <1>5
<1>7. RowsOwn(fileRows', rowsMade, chosenJson)
  BY <1>1, <1>4, <1>6, ChangedRowOwn
<1>8. rowsMade' \in rowsMade .. MaxRows /\ pending' \in 0 .. rowsMade' /\ dialogShown' \in BOOLEAN
  BY DEF UploadDialogConstants, DialogInv, DialogTypeOK
<1>9. RowsOwn(fileRows', rowsMade', chosenJson)
  BY <1>7
<1> QED BY <1>6, <1>8, <1>9, OtherRows

LEMMA CheckedOwn ==
    ASSUME UploadDialogConstants, DialogInv, NEW check \in checks, MetadataChecked(check)
    PROVE  DialogInv'
<1> USE DEF MetadataChecked
<1>1. check.file \in JsonFiles /\ check.file \in chosenJson[check.row]
  BY DEF DialogInv, DialogTypeOK, ChecksAreChosen
<1>2. CASE check.file \in ValidJson
  <2>1. SetRow(check.row, LAMBDA r : [r EXCEPT !.metadata = check.file])
    BY <1>2 DEF RowOf, SetRow
  <2>2. checks' \subseteq checks
    OBVIOUS
  <2> QED BY <1>1, <1>2, <2>1, <2>2, MetadataOwn DEF SetRow
<1>3. CASE check.file \notin ValidJson
  <2>1. rowsMade' \in rowsMade .. MaxRows /\ pending' \in 0 .. rowsMade' /\ dialogShown' \in BOOLEAN
    BY DEF UploadDialogConstants, DialogInv, DialogTypeOK
  <2>2. fileRows' \in Seq(DialogRows) /\ RowsOwn(fileRows', rowsMade', chosenJson)
    BY <1>3 DEF DialogInv, DialogTypeOK
  <2> QED BY <2>1, <2>2, OtherRows
<1> QED BY <1>2, <1>3

LEMMA RemoveMetadataOwn ==
    ASSUME UploadDialogConstants, DialogInv, NEW id \in 1 .. MaxRows, HandleMetadataRemove(id)
    PROVE  DialogInv'
<1>1. SetRow(id, LAMBDA r : [r EXCEPT !.metadata = NoJson])
      /\ UNCHANGED <<dialogShown, rowsMade, pending, checks, entries, chosenJson>>
  BY DEF HandleMetadataRemove, SetRow
<1> QED BY <1>1, MetadataOwn DEF SetRow

\* A file chosen for a row is checked for that row.
LEMMA ChosenFileOwn ==
    ASSUME UploadDialogConstants, DialogInv, NEW id \in 1 .. rowsMade, NEW file \in JsonFiles,
             StartCheck(id, file),
           pending' \in 0 .. rowsMade, UNCHANGED <<dialogShown, fileRows, rowsMade, entries>>
    PROVE  DialogInv'
<1> USE DEF StartCheck
<1>1. id \in 1 .. MaxRows /\ rowsMade \in Nat /\ chosenJson \in [1 .. MaxRows -> SUBSET JsonFiles]
  BY DEF DialogInv, DialogTypeOK, UploadDialogConstants
<1>2. chosenJson' \in [1 .. MaxRows -> SUBSET JsonFiles]
  BY <1>1
<1>3. \A r \in 1 .. MaxRows : chosenJson[r] \subseteq chosenJson'[r]
  BY <1>1
<1>4. file \in chosenJson'[id]
  BY <1>1
<1>5. \A r \in 1 .. rowsMade : chosenJson[r] \subseteq chosenJson'[r]
  BY <1>1, <1>3 DEF DialogInv, DialogTypeOK, UploadDialogConstants
<1>6. RowsOwn(fileRows', rowsMade', chosenJson') /\ RowsOwn(entries', rowsMade', chosenJson')
  <2>1. RowsOwn(fileRows, rowsMade, chosenJson) /\ RowsOwn(entries, rowsMade, chosenJson)
    BY DEF DialogInv
  <2> DEFINE m == rowsMade
             c == chosenJson
             c2 == chosenJson'
  <2>2. m \in Nat /\ m <= m /\ \A r \in 1 .. m : c[r] \subseteq c2[r]
    BY <1>1, <1>5
  <2>3. RowsOwn(fileRows, m, c) /\ RowsOwn(entries, m, c)
    BY <2>1
  <2>4. fileRows' = fileRows /\ entries' = entries /\ rowsMade' = m
    OBVIOUS
  <2> HIDE DEF m, c, c2
  <2>5. RowsOwn(fileRows, m, c2)
    BY <2>2, <2>3, OwnGrows
  <2>6. RowsOwn(entries, m, c2)
    BY <2>2, <2>3, OwnGrows
  <2> QED BY <2>4, <2>5, <2>6 DEF c2
<1>7. checks' \subseteq [row : 1 .. rowsMade', file : JsonFiles]
  BY DEF DialogInv, DialogTypeOK
<1>8. ChecksAreChosen'
  <2> SUFFICES ASSUME NEW check \in checks' PROVE check.file \in chosenJson'[check.row]
    BY DEF ChecksAreChosen
  <2>1. CASE check \in checks
    <3>1. check.row \in 1 .. rowsMade /\ check.file \in chosenJson[check.row]
      BY <2>1 DEF DialogInv, DialogTypeOK, ChecksAreChosen
    <3> QED BY <1>5, <3>1
  <2>2. CASE check = [row |-> id, file |-> file]
    BY <1>4, <2>2
  <2> QED BY <2>1, <2>2
<1>9. DialogTypeOK'
  BY <1>2, <1>7 DEF DialogInv, DialogTypeOK
<1>10. EntriesHaveNames'
  BY DEF DialogInv, EntriesHaveNames
<1> QED BY <1>6, <1>8, <1>9, <1>10 DEF DialogInv

LEMMA ConfirmOwn ==
    ASSUME UploadDialogConstants, DialogInv, ConfirmUpload
    PROVE  DialogInv'
BY DEF DialogInv, DialogTypeOK, ConfirmUpload, HasInvalidFilenames, EntriesHaveNames, ChecksAreChosen

\* A row that offers metadata is one of the rows.
LEMMA OfferedRows ==
    ASSUME DialogInv, NEW id, OffersMetadata(id)
    PROVE  id \in 1 .. rowsMade
<1>1. PICK i \in DOMAIN fileRows : fileRows[i].id = id
  BY DEF OffersMetadata
<1> QED BY <1>1 DEF DialogInv, RowsOwn

\* No step of the dialog hands over what belongs to another row.
LEMMA DialogStepInv == UploadDialogConstants /\ DialogInv /\ [DialogNext]_dialogVars => DialogInv'
<1> SUFFICES ASSUME UploadDialogConstants, DialogInv, [DialogNext]_dialogVars PROVE DialogInv'
  OBVIOUS
<1>0. rowsMade \in Nat /\ pending \in 0 .. rowsMade /\ dialogShown \in BOOLEAN
  BY DEF DialogInv, DialogTypeOK
<1>1. ASSUME NEW names \in NameLists, OpenDialog(names) PROVE DialogInv'
  BY <1>1, OpenDialogOwn
<1>2. ASSUME NEW names \in NameLists, ProcessNewFiles(names) PROVE DialogInv'
  BY <1>2, NewFilesOwn
<1>3. ASSUME NEW id \in 1 .. MaxRows, HandleRemoveFile(id) PROVE DialogInv'
  BY <1>3, RemoveFileOwn
<1>4. ASSUME NEW id \in 1 .. MaxRows, HandleMetadataSelect(id) PROVE DialogInv'
  <2>1. id \in 1 .. rowsMade
    BY <1>4, OfferedRows DEF HandleMetadataSelect
  <2>2. pending' \in 0 .. rowsMade /\ dialogShown' \in BOOLEAN
        /\ UNCHANGED <<fileRows, rowsMade, checks, entries, chosenJson>>
    BY <1>0, <1>4, <2>1 DEF HandleMetadataSelect
  <2> QED BY <2>2, SameRows
<1>5. ASSUME NEW id \in 1 .. MaxRows, HandleMetadataRemove(id) PROVE DialogInv'
  BY <1>5, RemoveMetadataOwn
<1>6. ASSUME NEW id \in 1 .. MaxRows, NEW name \in UploadNames, HandleUploadFilenameChange(id,
               name) PROVE DialogInv'
  BY <1>6, FilenameChangeOwn
<1>7. ASSUME NEW id \in 1 .. MaxRows, NEW file \in JsonFiles, HandleMetadataDrop(id, file) PROVE DialogInv'
  <2>1. id \in 1 .. rowsMade
    BY <1>7, OfferedRows DEF HandleMetadataDrop
  <2>2. StartCheck(id, file) /\ pending' \in 0 .. rowsMade
          /\ UNCHANGED <<dialogShown, fileRows, rowsMade, entries>>
    BY <1>0, <1>7 DEF HandleMetadataDrop
  <2> QED BY <2>1, <2>2, ChosenFileOwn
<1>8. ASSUME NEW file \in JsonFiles, HandleMetadataInputChange(file) PROVE DialogInv'
  <2>1. StartCheck(pending, file) /\ pending' \in 0 .. rowsMade
          /\ UNCHANGED <<dialogShown, fileRows, rowsMade, entries>>
    BY <1>0, <1>8 DEF HandleMetadataInputChange
  <2>2. pending \in 1 .. rowsMade
    BY <1>0, <1>8 DEF HandleMetadataInputChange
  <2> QED BY <2>1, <2>2, ChosenFileOwn
<1>9. ASSUME NEW check \in checks, MetadataChecked(check) PROVE DialogInv'
  BY <1>9, CheckedOwn
<1>10. ASSUME ConfirmUpload PROVE DialogInv'
  BY <1>10, ConfirmOwn
<1>11. ASSUME CloseDialog PROVE DialogInv'
  <2>1. pending' \in 0 .. rowsMade /\ dialogShown' \in BOOLEAN
        /\ UNCHANGED <<fileRows, rowsMade, checks, entries, chosenJson>>
    BY <1>0, <1>11 DEF CloseDialog
  <2> QED BY <2>1, SameRows
<1>12. ASSUME UNCHANGED dialogVars PROVE DialogInv'
  <2>1. pending' \in 0 .. rowsMade /\ dialogShown' \in BOOLEAN
        /\ UNCHANGED <<fileRows, rowsMade, checks, entries, chosenJson>>
    BY <1>0, <1>12 DEF dialogVars
  <2> QED BY <2>1, SameRows
<1> QED BY <1>1, <1>2, <1>3, <1>4, <1>5, <1>6, <1>7, <1>8, <1>9, <1>10, <1>11, <1>12 DEF DialogNext

\* However validations, removals and openings of the dialog overlap, what is handed to
\* the upload has names it accepts, and each file the metadata chosen for it
\* (handleConfirm and handleMetadataInputChange in UploadFilesDialog.tsx).
THEOREM MetadataGoesToItsFile == DialogSpec => [](DialogTypeOK /\ EntriesAreTheirOwn)
<1>1. DialogInit => DialogInv
  BY DialogInitInv, UploadDialogConstants
<1>2. DialogInv /\ [DialogNext]_dialogVars => DialogInv'
  BY DialogStepInv, UploadDialogConstants
<1>3. DialogInv => DialogTypeOK /\ EntriesAreTheirOwn
  <2> SUFFICES ASSUME DialogInv, NEW i \in DOMAIN entries
               PROVE  /\ ~IsUploadFilenameInvalid(entries[i].name)
                      /\ entries[i].metadata \in {NoJson} \cup (chosenJson[entries[i].id] \cap ValidJson)
                      /\ \A j \in DOMAIN entries : entries[j].id = entries[i].id => i = j
    BY DEF EntriesAreTheirOwn, DialogInv
  <2> QED BY DEF DialogInv, RowsOwn, EntriesHaveNames
<1> QED BY <1>1, <1>2, <1>3, PTL DEF DialogSpec

-----------------------------------------------------------------------------
(* The label of a time range *)

-----------------------------------------------------------------------------
\* The tokens of a duration, and the minutes that one of them stands for.
DurationTokens == [n : Nat, unit : {"y", "M", "w", "d", "h", "m"}]
Worth(x) == x.n * TimeConversions[x.unit]

LEMMA Conversions ==
    /\ TimeConversions["y"] = 525600 /\ TimeConversions["M"] = 43200 /\ TimeConversions["w"] = 10080
    /\ TimeConversions["d"] = 1440 /\ TimeConversions["h"] = 60 /\ TimeConversions["m"] = 1
BY DEF TimeConversions

LEMMA UnitOrders ==
    /\ UnitOrder("y") = 1 /\ UnitOrder("M") = 2 /\ UnitOrder("w") = 3
    /\ UnitOrder("d") = 4 /\ UnitOrder("h") = 5 /\ UnitOrder("m") = 6
<1>1. DOMAIN Units = 1 .. 6
  BY DEF Units
<1>2. Units[1] = "y" /\ Units[2] = "M" /\ Units[3] = "w" /\ Units[4] = "d" /\ Units[5] = "h" /\ Units[6] = "m"
  BY DEF Units
<1>3. \A i \in 1 .. 6 : i \in {1, 2, 3, 4, 5, 6}
  OBVIOUS
<1>4. ASSUME NEW k \in 1 .. 6 PROVE UnitOrder(Units[k]) = k
  <2>1. \A i \in DOMAIN Units : Units[i] = Units[k] => i = k
    BY <1>1, <1>2, <1>3
  <2>2. k \in DOMAIN Units
    BY <1>1
  <2> QED BY <2>1, <2>2, Zenon DEF UnitOrder
<1> QED BY <1>2, <1>4

LEMMA WorthIsNat ==
    ASSUME NEW x \in DurationTokens
    PROVE  Worth(x) \in Nat
<1>1. x.n \in Nat /\ x.unit \in {"y", "M", "w", "d", "h", "m"}
  BY DEF DurationTokens
<1>2. TimeConversions[x.unit] \in Nat
  BY <1>1, Conversions
<1> QED BY <1>1, <1>2 DEF Worth

\* The partial results of TotalMinutes.
SumsTo(g, text, n) ==
    \A i \in 0 .. n : g[i] = IF i = 0 THEN 0 ELSE g[i - 1] + Worth(text[i])

LEMMA SumsStep ==
    ASSUME NEW g, NEW text, NEW n, SumsTo(g, text, n), NEW i \in 0 .. n
    PROVE  g[i] = IF i = 0 THEN 0 ELSE g[i - 1] + Worth(text[i])
BY Zenon DEF SumsTo

\* The sums that the recursion of TotalMinutes builds exist, as one function.
LEMMA SumsExist ==
    ASSUME NEW text \in Seq(DurationTokens)
    PROVE  \A n \in Nat : n <= Len(text) => \E g \in [0 .. n -> Nat] : SumsTo(g, text, n)
<1> DEFINE T == {n \in Nat : n <= Len(text) => \E g \in [0 .. n -> Nat] : SumsTo(g, text, n)}
<1>1. 0 \in T
  <2>1. [i \in 0 .. 0 |-> 0] \in [0 .. 0 -> Nat] /\ SumsTo([i \in 0 .. 0 |-> 0], text, 0)
    BY DEF SumsTo
  <2> QED BY <2>1
<1>2. ASSUME NEW n \in Nat, n \in T PROVE n + 1 \in T
  <2> SUFFICES ASSUME n + 1 <= Len(text)
               PROVE  \E g \in [0 .. n + 1 -> Nat] : SumsTo(g, text, n + 1)
    OBVIOUS
  <2>0. Len(text) \in Nat /\ DOMAIN text = 1 .. Len(text)
    OBVIOUS
  <2>1. PICK g \in [0 .. n -> Nat] : SumsTo(g, text, n)
    BY <1>2, <2>0
  <2>2. Worth(text[n + 1]) \in Nat /\ g[n] \in Nat
    BY <2>0, WorthIsNat
  <2> DEFINE h == [i \in 0 .. n + 1 |-> IF i = n + 1 THEN g[n] + Worth(text[n + 1]) ELSE g[i]]
  <2>3. h \in [0 .. n + 1 -> Nat]
    BY <2>2
  <2>4. ASSUME NEW i \in 0 .. n + 1
        PROVE  h[i] = IF i = 0 THEN 0 ELSE h[i - 1] + Worth(text[i])
    <3>1. CASE i # n + 1
      <4>1. i \in 0 .. n /\ (i # 0 => i - 1 \in 0 .. n /\ i - 1 # n + 1)
        BY <3>1
      <4>2. g[i] = IF i = 0 THEN 0 ELSE g[i - 1] + Worth(text[i])
        BY <2>1, <4>1, Zenon DEF SumsTo
      <4>3. h[i] = g[i] /\ (i # 0 => h[i - 1] = g[i - 1])
        BY <3>1, <4>1
      <4> QED BY <4>2, <4>3
    <3>2. CASE i = n + 1
      <4>1. i # 0 /\ i - 1 = n /\ n \in 0 .. n + 1 /\ n # n + 1
        BY <3>2
      <4>2. h[i - 1] = g[n] /\ h[i] = g[n] + Worth(text[n + 1])
        BY <3>2, <4>1
      <4> QED BY <3>2, <4>1, <4>2
    <3> QED BY <3>1, <3>2
  <2>5. SumsTo(h, text, n + 1)
    BY <2>4 DEF SumsTo
  <2> HIDE DEF h
  <2> QED BY <2>3, <2>5
<1> HIDE DEF T
<1>3. Nat \subseteq T
  BY <1>1, <1>2, FullByInduction
<1> QED BY <1>3 DEF T

\* Two of them agree on the tokens they have in common.
LEMMA SumsUnique ==
    ASSUME NEW g, NEW h, NEW s, NEW t, NEW m \in Nat, NEW n \in Nat, n <= m,
           \A i \in 1 .. n : s[i] = t[i],
           SumsTo(g, s, m), SumsTo(h, t, n)
    PROVE  \A i \in 0 .. n : g[i] = h[i]
<1> DEFINE T == {i \in Nat : i \in 0 .. n => g[i] = h[i]}
<1>1. 0 \in T
  <2>1. 0 \in 0 .. m /\ 0 \in 0 .. n
    OBVIOUS
  <2>2. g[0] = 0 /\ h[0] = 0
    BY <2>1, SumsStep
  <2> QED BY <2>2
<1>2. ASSUME NEW i \in Nat, i \in T PROVE i + 1 \in T
  <2> SUFFICES ASSUME i + 1 \in 0 .. n PROVE g[i + 1] = h[i + 1]
    OBVIOUS
  <2>1. i + 1 \in 0 .. m /\ i + 1 # 0 /\ i + 1 - 1 = i /\ i \in 0 .. n /\ i + 1 \in 1 .. n
    OBVIOUS
  <2>2. g[i + 1] = g[i + 1 - 1] + Worth(s[i + 1]) /\ h[i + 1] = h[i + 1 - 1] + Worth(t[i + 1])
    BY <2>1, SumsStep
  <2>3. g[i] = h[i] /\ s[i + 1] = t[i + 1]
    BY <1>2, <2>1
  <2> QED BY <2>1, <2>2, <2>3
<1> HIDE DEF T
<1>3. Nat \subseteq T
  BY <1>1, <1>2, FullByInduction
<1> QED BY <1>3 DEF T

\* So TotalMinutes is the last sum.
LEMMA TotalDefined ==
    ASSUME NEW text \in Seq(DurationTokens)
    PROVE  \E g \in [0 .. Len(text) -> Nat] : SumsTo(g, text, Len(text)) /\ TotalMinutes(text) = g[Len(text)]
<1>0. Len(text) \in Nat
  OBVIOUS
<1> DEFINE f == CHOOSE total :
                    total = [i \in 0 .. Len(text) |->
                        IF i = 0 THEN 0 ELSE total[i - 1] + text[i].n * TimeConversions[text[i].unit]]
<1>1. PICK g \in [0 .. Len(text) -> Nat] : SumsTo(g, text, Len(text))
  BY <1>0, SumsExist
<1>2. g = [i \in 0 .. Len(text) |->
               IF i = 0 THEN 0 ELSE g[i - 1] + text[i].n * TimeConversions[text[i].unit]]
  BY <1>1 DEF SumsTo, Worth
<1>3. f = [i \in 0 .. Len(text) |->
               IF i = 0 THEN 0 ELSE f[i - 1] + text[i].n * TimeConversions[text[i].unit]]
  BY <1>2
<1>4. TotalMinutes(text) = f[Len(text)]
  BY DEF TotalMinutes
<1> HIDE DEF f
<1>5. SumsTo(f, text, Len(text))
  BY <1>3 DEF SumsTo, Worth
<1>6. \A i \in 0 .. Len(text) : f[i] = g[i]
  BY <1>0, <1>1, <1>5, SumsUnique
<1> QED BY <1>0, <1>1, <1>4, <1>6

LEMMA TotalIsNat ==
    ASSUME NEW text \in Seq(DurationTokens)
    PROVE  TotalMinutes(text) \in Nat
<1>1. PICK g \in [0 .. Len(text) -> Nat] : TotalMinutes(text) = g[Len(text)]
  BY TotalDefined
<1>2. Len(text) \in 0 .. Len(text)
  OBVIOUS
<1> QED BY <1>1, <1>2

LEMMA TotalEmpty == TotalMinutes(<<>>) = 0
<1>1. <<>> \in Seq(DurationTokens) /\ Len(<<>>) = 0
  OBVIOUS
<1>2. PICK g \in [0 .. 0 -> Nat] : SumsTo(g, <<>>, 0) /\ TotalMinutes(<<>>) = g[0]
  BY <1>1, TotalDefined
<1>3. g[0] = 0
  BY <1>2 DEF SumsTo
<1> QED BY <1>2, <1>3

\* One more token adds what it is worth.
LEMMA TotalAppend ==
    ASSUME NEW text \in Seq(DurationTokens), NEW x \in DurationTokens
    PROVE  TotalMinutes(Append(text, x)) = TotalMinutes(text) + Worth(x)
<1> DEFINE t == Append(text, x)
           m == Len(t)
           n == Len(text)
<1>1. t \in Seq(DurationTokens) /\ m = n + 1 /\ t[n + 1] = x /\ \A i \in 1 .. n : t[i] = text[i]
  BY AppendProperties
<1>2. n \in Nat
  OBVIOUS
<1>3. \E g \in [0 .. n -> Nat] : SumsTo(g, text, n) /\ TotalMinutes(text) = g[n]
  BY TotalDefined
<1>4. \E h \in [0 .. m -> Nat] : SumsTo(h, t, m) /\ TotalMinutes(t) = h[m]
  BY <1>1, TotalDefined
<1> HIDE DEF t, m, n
<1>5. PICK g \in [0 .. n -> Nat] : SumsTo(g, text, n) /\ TotalMinutes(text) = g[n]
  BY <1>3
<1>6. PICK h \in [0 .. m -> Nat] : SumsTo(h, t, m) /\ TotalMinutes(t) = h[m]
  BY <1>4
<1>7. m \in 0 .. m /\ m # 0 /\ m - 1 = n /\ n \in 0 .. n /\ m \in Nat /\ n <= m
  BY <1>1, <1>2
<1>a. SumsTo(h, t, m)
  BY <1>6
<1>b. SumsTo(g, text, n)
  BY <1>5
<1>8. h[m] = h[m - 1] + Worth(t[m])
  <2>1. h[m] = IF m = 0 THEN 0 ELSE h[m - 1] + Worth(t[m])
    <3>1. m \in 0 .. m
      BY <1>7
    <3> QED BY <1>a, <3>1, Zenon DEF SumsTo
  <2> QED BY <1>7, <2>1
<1>9. \A i \in 0 .. n : h[i] = g[i]
  <2>1. \A i \in 1 .. n : t[i] = text[i]
    BY <1>1
  <2>2. m \in Nat /\ n \in Nat /\ n <= m
    BY <1>2, <1>7
  <2> QED BY <1>a, <1>b, <2>1, <2>2, SumsUnique, SMTT(60)
<1>10. TotalMinutes(t) = TotalMinutes(text) + Worth(x)
  BY <1>1, <1>5, <1>6, <1>7, <1>8, <1>9
<1> QED BY <1>10 DEF t

-----------------------------------------------------------------------------
\* A label that is written down to the units of order k, with this much left of it.
WrittenTo(text, k, left, minutes) ==
    /\ text \in Seq(DurationTokens) /\ left \in Nat
    /\ HasValidUnitOrder(text)
    /\ \A i \in DOMAIN text : UnitOrder(text[i].unit) <= k
    /\ TotalMinutes(text) + left = minutes

\* A number of minutes is so many of a unit and a rest.
LEMMA WholeAndRest ==
    ASSUME NEW left \in Nat, NEW c \in {525600, 43200, 10080, 1440, 60, 1}
    PROVE  /\ left \div c \in Nat /\ left % c \in Nat /\ left % c < c
           /\ ((left \div c) * c) + (left % c) = left
OBVIOUS

\* One unit after another is written, each no more than the units above it leave.
LEMMA PartIsWritten ==
    ASSUME NEW text, NEW k \in Nat, NEW left, NEW minutes \in Nat, WrittenTo(text, k, left, minutes),
           NEW u \in {"y", "M", "w", "d", "h", "m"}, UnitOrder(u) = k + 1
    PROVE  WrittenTo(text \o Part(left, u), k + 1, left % TimeConversions[u], minutes)
<1> DEFINE c == TimeConversions[u]
           n == left \div c
           rest == left % c
           x == [n |-> n, unit |-> u]
<1>1. /\ text \in Seq(DurationTokens) /\ left \in Nat /\ HasValidUnitOrder(text)
      /\ TotalMinutes(text) + left = minutes
      /\ \A i \in DOMAIN text : UnitOrder(text[i].unit) <= k
  BY DEF WrittenTo
<1>2. c \in {525600, 43200, 10080, 1440, 60, 1}
  BY Conversions
<1> HIDE DEF c
<1>3. n \in Nat /\ rest \in Nat /\ (n * c) + rest = left
  BY <1>1, <1>2, WholeAndRest
<1>4. DOMAIN text = 1 .. Len(text) /\ Len(text) \in Nat
  BY <1>1
<1>5. \A i \in 1 .. Len(text) : UnitOrder(text[i].unit) \in Nat /\ UnitOrder(text[i].unit) <= k
  <2> SUFFICES ASSUME NEW i \in 1 .. Len(text)
               PROVE  UnitOrder(text[i].unit) \in Nat /\ UnitOrder(text[i].unit) <= k
    OBVIOUS
  <2>1. text[i].unit \in {"y", "M", "w", "d", "h", "m"}
    <3>1. text[i] \in DurationTokens
      BY <1>1, <1>4
    <3> QED BY <3>1 DEF DurationTokens
  <2>2. UnitOrder(text[i].unit) \in Nat
    BY <2>1, UnitOrders
  <2> QED BY <1>1, <1>4, <2>2
<1>6. CASE n > 0
  <2>1. x \in DurationTokens /\ x.unit = u /\ Worth(x) = n * c
    BY <1>3 DEF DurationTokens, Worth, c
  <2>2. Part(left, u) = <<x>>
    BY <1>6 DEF Part, c
  <2> HIDE DEF n, rest, x
  <2> DEFINE t == Append(text, x)
  <2>3. text \o <<x>> = t
    BY <1>1, <2>1, AppendIsConcat
  <2>4. t \in Seq(DurationTokens) /\ Len(t) = Len(text) + 1 /\ t[Len(text) + 1] = x
        /\ \A i \in 1 .. Len(text) : t[i] = text[i]
    BY <1>1, <2>1, AppendProperties
  <2>5. TotalMinutes(t) = TotalMinutes(text) + n * c
    BY <1>1, <2>1, TotalAppend
  <2> HIDE DEF t
  <2>6. TotalMinutes(t) + rest = minutes
    <3>1. TotalMinutes(text) \in Nat /\ n * c \in Nat
      BY <1>1, <1>2, <1>3, TotalIsNat
    <3> QED BY <1>1, <1>3, <2>5, <3>1
  <2>7. \A i \in DOMAIN t : UnitOrder(t[i].unit) <= k + 1
    <3> SUFFICES ASSUME NEW i \in DOMAIN t PROVE UnitOrder(t[i].unit) <= k + 1
      OBVIOUS
    <3>1. i \in 1 .. Len(text) \/ i = Len(text) + 1
      BY <1>4, <2>4
    <3> QED BY <1>5, <2>1, <2>4, <3>1
  <2>8. HasValidUnitOrder(t)
    <3> SUFFICES ASSUME NEW i \in 2 .. Len(t)
                 PROVE  UnitOrder(t[i - 1].unit) < UnitOrder(t[i].unit)
      BY DEF HasValidUnitOrder
    <3>1. CASE i = Len(text) + 1
      <4>1. i - 1 \in 1 .. Len(text)
        BY <1>4, <2>4, <3>1
      <4> QED BY <1>5, <2>1, <2>4, <3>1, <4>1
    <3>2. CASE i # Len(text) + 1
      <4>1. i \in 2 .. Len(text) /\ i \in 1 .. Len(text) /\ i - 1 \in 1 .. Len(text)
        BY <1>4, <2>4, <3>2
      <4> QED BY <1>1, <2>4, <4>1 DEF HasValidUnitOrder
    <3> QED BY <3>1, <3>2
  <2>9. WrittenTo(t, k + 1, rest, minutes)
    BY <1>3, <2>4, <2>6, <2>7, <2>8 DEF WrittenTo
  <2> QED BY <2>2, <2>3, <2>9 DEF rest, c
<1>7. CASE ~(n > 0)
  <2>1. n = 0 /\ rest = left
    BY <1>3, <1>7, <1>2
  <2>2. Part(left, u) = <<>>
    BY <1>7 DEF Part, c
  <2> HIDE DEF n, rest, x
  <2>3. text \o <<>> = text
    BY <1>1, ConcatEmptySeq
  <2>4. \A i \in DOMAIN text : UnitOrder(text[i].unit) <= k + 1
    BY <1>4, <1>5
  <2>5. WrittenTo(text, k + 1, rest, minutes)
    BY <1>1, <2>1, <2>4 DEF WrittenTo
  <2> QED BY <2>2, <2>3, <2>5 DEF rest, c
<1> QED BY <1>6, <1>7

\* The label of any number of minutes, read again, is that number.
LEMMA LabelsRoundTrip ==
    ASSUME NEW minutes \in Nat \ {0}
    PROVE  ParseTimeString(FormatTimeWindow(minutes)) = [minutes |-> minutes, bad |-> FALSE]
<1> DEFINE a1 == minutes % TimeConversions["y"]
           a2 == a1 % TimeConversions["M"]
           a3 == a2 % TimeConversions["w"]
           a4 == a3 % TimeConversions["d"]
           a5 == a4 % TimeConversions["h"]
           a6 == a5 % TimeConversions["m"]
           p1 == Part(minutes, "y")
           p2 == p1 \o Part(a1, "M")
           p3 == p2 \o Part(a2, "w")
           p4 == p3 \o Part(a3, "d")
           p5 == p4 \o Part(a4, "h")
           p6 == p5 \o Part(a5, "m")
<1>0. FormatTimeWindow(minutes) = p6
  BY Zenon DEF FormatTimeWindow
<1>1. WrittenTo(<<>>, 0, minutes, minutes)
  BY TotalEmpty DEF WrittenTo, HasValidUnitOrder
<1>2. WrittenTo(<<>> \o p1, 1, a1, minutes)
  <2>1. UnitOrder("y") = 0 + 1 /\ 0 + 1 = 1
    BY UnitOrders
  <2> HIDE DEF p1
  <2>2. WrittenTo(<<>> \o Part(minutes, "y"), 0 + 1, minutes % TimeConversions["y"], minutes)
    BY <1>1, <2>1, PartIsWritten
  <2> QED BY <2>1, <2>2 DEF p1
<1>3. <<>> \o p1 = p1
  <2>1. p1 \in Seq({[n |-> minutes \div TimeConversions["y"], unit |-> "y"]})
    <3> DEFINE x == [n |-> minutes \div TimeConversions["y"], unit |-> "y"]
    <3>1. p1 = <<x>> \/ p1 = <<>>
      BY Zenon DEF Part
    <3> HIDE DEF x, p1
    <3>2. p1 \in Seq({x})
      <4>1. <<>> \in Seq({x}) /\ <<x>> \in Seq({x})
        OBVIOUS
      <4> QED BY <3>1, <4>1
    <3> QED BY <3>2 DEF x
  <2> QED BY <2>1, ConcatEmptySeq
<1> HIDE DEF p1
<1>4. WrittenTo(p1, 1, a1, minutes)
  BY <1>2, <1>3
<1> HIDE DEF a1
<1>5. WrittenTo(p2, 2, a2, minutes)
  BY <1>4, UnitOrders, PartIsWritten
<1> HIDE DEF p2, a2
<1>6. WrittenTo(p3, 3, a3, minutes)
  BY <1>5, UnitOrders, PartIsWritten
<1> HIDE DEF p3, a3
<1>7. WrittenTo(p4, 4, a4, minutes)
  BY <1>6, UnitOrders, PartIsWritten
<1> HIDE DEF p4, a4
<1>8. WrittenTo(p5, 5, a5, minutes)
  BY <1>7, UnitOrders, PartIsWritten
<1> HIDE DEF p5, a5
<1>9. WrittenTo(p6, 6, a6, minutes)
  BY <1>8, UnitOrders, PartIsWritten
<1>10. a5 \in Nat
  BY <1>8 DEF WrittenTo
<1>11. a6 = 0
  BY <1>10, Conversions
<1> HIDE DEF p6, a6
<1>12. p6 \in Seq(DurationTokens) /\ HasValidUnitOrder(p6) /\ TotalMinutes(p6) = minutes
  <2>1. p6 \in Seq(DurationTokens) /\ HasValidUnitOrder(p6) /\ TotalMinutes(p6) + a6 = minutes
    BY <1>9 DEF WrittenTo
  <2>2. TotalMinutes(p6) \in Nat
    BY <2>1, TotalIsNat
  <2> QED BY <1>11, <2>1, <2>2
<1>13. p6 # <<>>
  BY <1>12, TotalEmpty
<1> QED BY <1>0, <1>12, <1>13 DEF ParseTimeString

-----------------------------------------------------------------------------
LEMMA ParsedMinutes ==
    ASSUME NEW text \in Seq(DurationTokens), ~ParseTimeString(text).bad
    PROVE  ParseTimeString(text).minutes \in Nat \ {0}
<1>1. TotalMinutes(text) \in Nat
  BY TotalIsNat
<1>2. ParseTimeString(text) = [minutes |-> TotalMinutes(text), bad |-> FALSE] /\ TotalMinutes(text) # 0
  BY DEF ParseTimeString, Bad
<1> QED BY <1>1, <1>2

LEMMA SettingsStartTyped == SettingsInit => SettingsTypeOK
<1> SUFFICES ASSUME SettingsInit PROVE SettingsTypeOK
  OBVIOUS
<1>1. customOpen \in BOOLEAN /\ customError \in BOOLEAN
  BY DEF SettingsInit
<1> QED BY <1>1, SettingsConstants DEF SettingsInit, SettingsTypeOK

LEMMA SettingsStepTyped == SettingsTypeOK /\ [SettingsNext]_settingsVars => SettingsTypeOK'
<1> SUFFICES ASSUME SettingsTypeOK, [SettingsNext]_settingsVars PROVE SettingsTypeOK'
  OBVIOUS
<1>0. timeWindow \in Nat \ {0} /\ customOpen \in BOOLEAN /\ customError \in BOOLEAN
      /\ customText \in WindowTexts \cup {<<>>} /\ fetchSize \in 10 .. 5000
  BY DEF SettingsTypeOK
<1>a. customText \in Seq(DurationTokens)
  <2>1. <<>> \in Seq(DurationTokens)
    OBVIOUS
  <2>2. WindowTexts \subseteq Seq(DurationTokens)
    BY SettingsConstants DEF DurationTokens
  <2> DEFINE E == Seq(DurationTokens)
  <2>3. <<>> \in E /\ WindowTexts \subseteq E
    BY <2>1, <2>2
  <2> HIDE DEF E
  <2>4. customText \in E
    BY <1>0, <2>3
  <2> QED BY <2>4 DEF E
<1>1. ASSUME NEW minutes \in TimeWindowOptions, SelectPeriod(minutes) PROVE SettingsTypeOK'
  BY <1>0, <1>1 DEF SelectPeriod, SettingsTypeOK, TimeWindowOptions
<1>2. ASSUME OpenCustomTimeInput PROVE SettingsTypeOK'
  BY <1>0, <1>2 DEF OpenCustomTimeInput, SettingsTypeOK
<1>3. ASSUME NEW text \in WindowTexts, HandleCustomTimeChange(text) PROVE SettingsTypeOK'
  <2>1. customError' \in BOOLEAN
    BY <1>3, Zenon DEF HandleCustomTimeChange
  <2> QED BY <1>0, <1>3, <2>1 DEF HandleCustomTimeChange, SettingsTypeOK
<1>4. ASSUME HandleSetCustomTime PROVE SettingsTypeOK'
  <2>1. ParseTimeString(customText).minutes \in Nat \ {0}
    BY <1>a, <1>4, ParsedMinutes DEF HandleSetCustomTime
  <2>2. customOpen' = FALSE /\ customError' = FALSE /\ customText' = <<>> /\ fetchSize' = fetchSize
        /\ timeWindow' = ParseTimeString(customText).minutes
    BY <1>4 DEF HandleSetCustomTime
  <2>3. customOpen' \in BOOLEAN /\ customError' \in BOOLEAN
    BY <2>2
  <2> QED BY <1>0, <2>1, <2>2, <2>3 DEF SettingsTypeOK
<1>5. ASSUME HandleCancelCustomTime PROVE SettingsTypeOK'
  <2>1. customOpen' \in BOOLEAN /\ customError' \in BOOLEAN
    BY <1>5 DEF HandleCancelCustomTime
  <2> QED BY <1>0, <1>5, <2>1 DEF HandleCancelCustomTime, SettingsTypeOK
<1>6. ASSUME NEW n \in FetchSizes, ApplyCustomFetch(n) PROVE SettingsTypeOK'
  BY <1>0, <1>6 DEF ApplyCustomFetch, SettingsTypeOK, windowVars
<1>7. ASSUME UNCHANGED settingsVars PROVE SettingsTypeOK'
  BY <1>0, <1>7 DEF settingsVars, windowVars, SettingsTypeOK
<1> QED BY <1>1, <1>2, <1>3, <1>4, <1>5, <1>6, <1>7 DEF SettingsNext, ClickOutside

\* The label of the range, typed again, means the range, whatever was typed to set it.
THEOREM LabelAlwaysMeansItsRange == SettingsSpec => [](SettingsTypeOK /\ LabelMeansItsRange)
<1>1. SettingsTypeOK => SettingsTypeOK /\ LabelMeansItsRange
  BY LabelsRoundTrip DEF SettingsTypeOK, LabelMeansItsRange
<1> QED BY <1>1, SettingsStartTyped, SettingsStepTyped, PTL DEF SettingsSpec

-----------------------------------------------------------------------------
(* The types of the table and the shell *)

\* There are never more pages than alerts, or one when there is none.
LEMMA PagesAreFew ==
    ASSUME NEW rows \in SUBSET (1 .. MaxAlerts), NEW n \in Nat \ {0}
    PROVE  PageCount(rows, n) <= MaxAlerts + 1
<1> USE TableConstants
<1>1. IsFiniteSet(1 .. MaxAlerts) /\ Cardinality(1 .. MaxAlerts) = MaxAlerts
  <2>1. Cardinality(1 .. MaxAlerts) = IF 1 > MaxAlerts THEN 0 ELSE MaxAlerts - 1 + 1
    BY FS_Interval
  <2>2. QED
    BY <2>1, FS_Interval
<1>2. IsFiniteSet(rows) /\ Cardinality(rows) <= MaxAlerts
  BY <1>1, FS_Subset
<1> DEFINE c == Cardinality(rows)
<1>3. c \in Nat /\ c <= MaxAlerts /\ (rows # {} => c # 0)
  BY <1>2, FS_CardinalityType, FS_EmptySet
<1>4. CASE rows = {}
  BY <1>4 DEF PageCount
<1>5. CASE rows # {}
  <2> DEFINE r == c + n - 1
             q == r \div n
  <2>1. PageCount(rows, n) = q
    BY <1>5 DEF PageCount
  <2> HIDE DEF c
  <2>2. r \in Nat /\ c # 0 /\ c + n - 1 = r
    BY <1>3, <1>5
  <2>3. q \in Nat /\ q * n <= r
    <3> HIDE DEF r
    <3>1. QED
      BY <2>2, QuotientOfRank
  <2> HIDE DEF q, r
  <2>4. ASSUME c < q PROVE FALSE
    <3>1. c * n + n <= q * n
      BY <1>3, <2>3, <2>4, ProductsAreOrdered
    <3>2. c <= c * n /\ c * n \in Nat
      <4> DEFINE k == n - 1
      <4>1. k \in Nat /\ n = k + 1
        OBVIOUS
      <4>2. c * k \in Nat
        BY <1>3, <4>1
      <4> HIDE DEF k
      <4>3. c * n = c * k + c
        BY <1>3, <4>1
      <4>4. QED
        BY <1>3, <4>2, <4>3
    <3>3. q * n \in Nat
      BY <2>3
    <3>4. QED
      BY <1>3, <2>2, <2>3, <3>1, <3>2, <3>3
  <2>5. QED
    BY <1>3, <2>1, <2>3, <2>4
<1>6. QED
  BY <1>4, <1>5

LEMMA TablePageTyped ==
    ASSUME TableInv
    PROVE  page \in 1 .. MaxAlerts + 1 /\ size \in Sizes /\ newest \in 0 .. MaxAlerts
             /\ loaded \subseteq 1 .. MaxAlerts
<1> USE TableConstants
<1>1. size \in Nat \ {0} /\ loaded \in SUBSET (1 .. MaxAlerts)
  BY DEF TableInv
<1>2. PageCount(loaded, size) <= MaxAlerts + 1 /\ PageCount(loaded, size) \in Nat
  BY <1>1, PagesAreFew, PagesHoldTheRows, RowsAreFinite
<1>3. QED
  BY <1>2 DEF TableInv

LEMMA TableStepTyped ==
    ASSUME TableInv, TableTypeOK, [TableNext]_tableVars
    PROVE  TableTypeOK'
<1> USE TableConstants
<1> DEFINE OlderRequests == [sent : BOOLEAN, to : 0 .. MaxAlerts, rows : SUBSET (1 .. MaxAlerts)]
           Orders == {NotSorted} \cup [key : SortKeys, direction : {"asc", "desc"}]
<1>0. more \in OlderRequests /\ sort \in Orders /\ fullBatch \in BOOLEAN /\ expanded \in BOOLEAN
  BY DEF TableTypeOK
<1>1. TableInv'
  BY TableStep
<1>2. page' \in 1 .. MaxAlerts + 1 /\ size' \in Sizes /\ newest' \in 0 .. MaxAlerts
        /\ loaded' \subseteq 1 .. MaxAlerts
  <2>1. (TableInv => page \in 1 .. MaxAlerts + 1 /\ size \in Sizes /\ newest \in 0 .. MaxAlerts
                     /\ loaded \subseteq 1 .. MaxAlerts)'
    BY TablePageTyped, PTL
  <2>2. QED
    BY <1>1, <2>1
<1>3. more' \in OlderRequests
  <2>1. CASE LoadMoreSent
    <3>1. more' = [sent |-> TRUE, to |-> OlderThan(loaded), rows |-> loaded]
      BY <2>1 DEF LoadMoreSent
    <3>2. OlderThan(loaded) \in 0 .. MaxAlerts
      BY <1>1, <3>1 DEF TableInv
    <3>3. QED
      BY <3>1, <3>2 DEF TableInv
  <2>2. CASE LoadMoreLands \/ LoadMoreFails
    <3>1. more' = NoRequest
      BY <2>2 DEF LoadMoreLands, LoadMoreFails
    <3>2. QED
      BY <3>1 DEF NoRequest
  <2>3. CASE ~(LoadMoreSent \/ LoadMoreLands \/ LoadMoreFails)
    <3>1. UNCHANGED more
      BY <2>3 DEF TableNext, AlertRaised, RefreshLands, GoToPage, ToggleRow, ChangePageSize,
           HandleSort, tableVars
    <3>2. QED
      BY <1>0, <3>1
  <2>4. QED
    BY <2>1, <2>2, <2>3
<1>4. fullBatch' \in BOOLEAN
  <2>1. CASE RefreshLands
    <3>1. fullBatch' = (Cardinality(loaded') >= MaxResults)
      BY <2>1 DEF RefreshLands
    <3>2. (Cardinality(loaded') >= MaxResults) \in BOOLEAN
      OBVIOUS
    <3>3. QED
      BY <3>1, <3>2, Zenon
  <2>2. CASE LoadMoreLands
    <3>1. fullBatch' = (Cardinality(Newest(more.to)) >= MaxResults)
      BY <2>2 DEF LoadMoreLands
    <3>2. (Cardinality(Newest(more.to)) >= MaxResults) \in BOOLEAN
      OBVIOUS
    <3>3. QED
      BY <3>1, <3>2, Zenon
  <2>3. CASE ~(RefreshLands \/ LoadMoreLands)
    BY <1>0, <2>3 DEF TableNext, AlertRaised, LoadMoreSent, LoadMoreFails, GoToPage,
       ToggleRow, ChangePageSize, HandleSort, tableVars
  <2>4. QED
    BY <2>1, <2>2, <2>3
<1>5. expanded' \in BOOLEAN
  BY <1>0 DEF TableNext, AlertRaised, RefreshLands, LoadMoreSent, LoadMoreLands, LoadMoreFails, GoToPage,
     ToggleRow, ChangePageSize, HandleSort, tableVars
<1>6. sort' \in Orders
  <2>1. ASSUME NEW key \in SortKeys, HandleSort(key) PROVE sort' \in Orders
    <3>1. sort' \in {[key |-> key, direction |-> "asc"], [key |-> key, direction |-> "desc"], NotSorted}
      BY <2>1 DEF HandleSort
    <3>2. QED
      BY <3>1
  <2>2. CASE ~ \E key \in SortKeys : HandleSort(key)
    <3>1. UNCHANGED sort
      BY <2>2 DEF TableNext, AlertRaised, RefreshLands, LoadMoreSent, LoadMoreLands, LoadMoreFails, GoToPage,
         ToggleRow, ChangePageSize, tableVars
    <3>2. QED
      BY <1>0, <3>1
  <2>3. QED
    BY <2>1, <2>2
<1>7. QED
  BY <1>2, <1>3, <1>4, <1>5, <1>6 DEF TableTypeOK

LEMMA TableAlwaysTyped == TableSpec => []TableTypeOK
<1>1. TableInit => TableTypeOK
  <2> SUFFICES ASSUME TableInit PROVE TableTypeOK
    OBVIOUS
  <2>1. fullBatch = FALSE /\ expanded = FALSE
    BY DEF TableInit
  <2>2. more \in [sent : BOOLEAN, to : 0 .. MaxAlerts, rows : SUBSET (1 .. MaxAlerts)]
    BY TableConstants DEF TableInit, NoRequest
  <2>3. newest \in 0 .. MaxAlerts /\ loaded \subseteq 1 .. MaxAlerts /\ page \in 1 .. MaxAlerts + 1
          /\ size \in Sizes
    BY TableConstants DEF TableInit
  <2>4. QED
    BY <2>1, <2>2, <2>3 DEF TableTypeOK, TableInit
<1>2. TableInv /\ TableTypeOK /\ [TableNext]_tableVars => TableInv' /\ TableTypeOK'
  BY TableStep, TableStepTyped
<1>3. QED
  BY <1>1, <1>2, TableStart, PTL DEF TableSpec

ShellTyped ==
    /\ hasLoadedFromStorage \in BOOLEAN
    /\ storedTab \in TabIds \cup {NoTab, "chat"} /\ hash \in TabIds \cup {NoTab}
    /\ open \in BOOLEAN /\ storedOpen \in {"true", "false", Unsaved}
    /\ width \in Widths /\ storedWidth \in Widths \cup {Unsaved}

LEMMA ShellStepTyped ==
    ASSUME ShellInv, ShellInv', ShellTyped, [ShellNext]_shellVars
    PROVE  ShellTyped'
<1> USE DEF tabVars, chatSidebarVars, controlVars
<1>0. /\ hasLoadedFromStorage \in BOOLEAN /\ open \in BOOLEAN
      /\ activeTab \in TabIds /\ activeTab' \in TabIds
  BY DEF ShellTyped, ShellInv, HandedOverOnce
<1>1. CASE \E tab \in TabIds : (\E ok \in BOOLEAN : CodeArrives(tab, ok)) \/ ControlsChange(tab)
  BY <1>1 DEF CodeArrives, ControlsChange, ShellTyped
<1>2. ASSUME NEW tab \in TabIds, SetActiveTab(tab) PROVE ShellTyped'
  BY <1>2 DEF SetActiveTab, StoreTab, ShellTyped
<1>3. ASSUME NEW tab \in TabIds, CallerInfoLink(tab) PROVE ShellTyped'
  BY <1>3 DEF CallerInfoLink, StoreTab, ShellTyped
<1>4. CASE LoadFromStorage
  <2>1. hasLoadedFromStorage' = TRUE /\ storedTab' = activeTab' /\ hash' \in {NoTab, hash}
    BY <1>4 DEF LoadFromStorage
  <2>2. open' \in BOOLEAN
    BY <1>0, <1>4 DEF LoadFromStorage
  <2>3. width' \in Widths /\ storedOpen' = storedOpen /\ storedWidth' = storedWidth
    BY <1>4 DEF LoadFromStorage, ShellTyped, Widths, Unsaved
  <2>4. QED
    BY <1>0, <2>1, <2>2, <2>3 DEF ShellTyped
<1>5. CASE ShellReload
  BY <1>5 DEF ShellReload, ShellTyped, Widths
<1>6. ASSUME NEW value \in BOOLEAN, SetSidebarOpen(value) PROVE ShellTyped'
  BY <1>0, <1>6 DEF SetSidebarOpen, ShellTyped
<1>7. CASE ResizeMoves \/ ResizeEnds
  BY <1>0, <1>7 DEF ResizeMoves, ResizeEnds, ShellTyped, Widths
<1>8. CASE UNCHANGED shellVars
  BY <1>8 DEF shellVars, ShellTyped
<1>9. QED
  BY <1>1, <1>2, <1>3, <1>4, <1>5, <1>6, <1>7, <1>8 DEF ShellNext

LEMMA ShellAlwaysTyped == ShellSpec => []ShellTypeOK
<1>1. ShellInit => ShellInv /\ ShellTyped
  BY ShellFreshPage DEF ShellInit, ShellTyped, Widths
<1>2. ShellInv /\ ShellTyped /\ [ShellNext]_shellVars => ShellInv' /\ ShellTyped'
  BY ShellStep, ShellStepTyped
<1>3. ShellInv /\ ShellTyped => ShellTypeOK
  <2>1. {1, 2} = 1 .. 2 /\ {0, 1, 2} = 0 .. 2
    OBVIOUS
  <2>2. QED
    BY <2>1 DEF ShellInv, HandedOverOnce, ShellTyped, ShellTypeOK
<1>4. QED
  BY <1>1, <1>2, <1>3, PTL DEF ShellSpec

-----------------------------------------------------------------------------
(* The panels together *)

\* The console does in each panel what the panel does on its own.
LEMMA ConsoleRunsThePanels ==
    Spec => /\ AlertsSpec /\ TableSpec /\ SettingsSpec /\ PanelSpec /\ RulesSpec /\ PlayerSpec
            /\ ThumbnailSpec /\ ImageSpec /\ FilterSpec /\ SearchTabSpec /\ ShellSpec
            /\ TabSessionSpec /\ StreamSpec /\ StepSpec /\ DialogSpec
<1>1. Init => /\ AlertsInit /\ TableInit /\ SettingsInit /\ PanelInit /\ RulesInit /\ PlayerInit
              /\ ThumbnailInit /\ ImageInit /\ FilterInit /\ SearchTabInit /\ ShellInit
              /\ TabSessionInit /\ StreamInit /\ StepInit /\ DialogInit
  BY DEF Init
<1>2. [Next]_consoleVars =>
          /\ [AlertsNext]_alertsVars /\ [TableNext]_tableVars /\ [SettingsNext]_settingsVars
          /\ [PanelNext]_panelVars /\ [RulesNext]_rulesVars /\ [PlayerNext]_playerVars
          /\ [ThumbnailNext]_thumbnailVars /\ [ImageNext]_imageVars /\ [FilterNext]_filterVars
          /\ [SearchTabNext]_searchTabVars /\ [ShellNext]_shellVars
          /\ [TabSessionNext]_tabSessionVars /\ [StreamNext]_streamVars /\ [StepNext]_stepVars
          /\ [DialogNext]_dialogVars
  BY DEF Next, consoleVars
<1>3. QED
  BY <1>1, <1>2, PTL DEF Spec, AlertsSpec, TableSpec, SettingsSpec, PanelSpec, RulesSpec,
     PlayerSpec, ThumbnailSpec, ImageSpec, FilterSpec, SearchTabSpec, ShellSpec,
     TabSessionSpec, StreamSpec, StepSpec, DialogSpec

\* Alerts, rules, search and tabs of the browser keep their types.
LEMMA ListPanelsTyped ==
    /\ AlertsSpec => []AlertsTypeOK
    /\ RulesSpec => []RulesTypeOK
    /\ SearchTabSpec => []SearchTabTypeOK
    /\ TabSessionSpec => []TabSessionTypeOK
<1>1. /\ AlertsInv => AlertsTypeOK
      /\ RulesInv => RulesTypeOK
      /\ SearchInv => SearchTabTypeOK
      /\ TabSessionInv => TabSessionTypeOK
  BY DEF AlertsInv, RulesInv, SearchInv, TabSessionInv
<1>2. AlertsSpec => []AlertsTypeOK
  BY <1>1, AlertsStart, AlertsStep, PTL DEF AlertsSpec
<1>3. RulesSpec => []RulesTypeOK
  BY <1>1, RulesStart, RulesStep, PTL DEF RulesSpec
<1>4. SearchTabSpec => []SearchTabTypeOK
  BY <1>1, SearchStart, SearchStep, PTL DEF SearchTabSpec
<1>5. TabSessionSpec => []TabSessionTypeOK
  BY <1>1, TabSessionStart, TabSessionStep, PTL DEF TabSessionSpec
<1> QED BY <1>2, <1>3, <1>4, <1>5

\* So do the refresh panel, the player, the thumbnails, the image search and the filters.
LEMMA MediaPanelsTyped ==
    /\ PanelSpec => []PanelTypeOK
    /\ PlayerSpec => []PlayerTypeOK
    /\ ThumbnailSpec => []ThumbnailTypeOK
    /\ ImageSpec => []ImageTypeOK
    /\ FilterSpec => []FilterTypeOK
<1>1. /\ PanelInv => PanelTypeOK
      /\ PlayerInv => PlayerTypeOK
      /\ ThumbnailInv => ThumbnailTypeOK
      /\ ImageInv => ImageTypeOK
      /\ FilterInv => FilterTypeOK
  BY DEF PanelInv, PlayerInv, ThumbnailInv, ImageInv, FilterInv
<1>2. PanelSpec => []PanelTypeOK
  BY <1>1, PanelStart, PanelStep, PTL DEF PanelSpec
<1>3. PlayerSpec => []PlayerTypeOK
  BY <1>1, PlayerStart, PlayerStep, PTL DEF PlayerSpec
<1>4. ThumbnailSpec => []ThumbnailTypeOK
  BY <1>1, ThumbnailStart, ThumbnailStep, PTL DEF ThumbnailSpec
<1>5. ImageSpec => []ImageTypeOK
  BY <1>1, ImageStart, ImageStep, PTL DEF ImageSpec
<1>6. FilterSpec => []FilterTypeOK
  BY <1>1, FilterStart, FilterStep, PTL DEF FilterSpec
<1> QED BY <1>2, <1>3, <1>4, <1>5, <1>6

\* Every panel keeps its types, for any number of alerts, rules, rows, files, tabs,
\* messages and tokens.
THEOREM ConsoleAlwaysTyped == Spec => []ConsoleTypeOK
BY ConsoleRunsThePanels, ListPanelsTyped, MediaPanelsTyped, TableAlwaysTyped, ShellAlwaysTyped,
   LabelAlwaysMeansItsRange, AnswerAlwaysWhole, StepTreeAlwaysSound, MetadataGoesToItsFile, PTL
   DEF ConsoleTypeOK

\* An answer comes out of its streams as it was sent, however it was cut into chunks, and
\* the label of a time window reads back as the minutes it was made of.
THEOREM TextsAlwaysComeBackWhole == Spec => []TextsComeBackWhole
BY ConsoleRunsThePanels, AnswerAlwaysWhole, LabelAlwaysMeansItsRange, PTL DEF TextsComeBackWhole

\* The tree of an answer has its steps under their parents and in the order they came,
\* each once and with its last message where messages override; what the dialog hands over
\* has metadata chosen for that very file, a name that is accepted, and no file twice.
THEOREM PiecesAlwaysFindTheirPlace == Spec => []PiecesFindTheirPlace
BY ConsoleRunsThePanels, StepTreeAlwaysSound, MetadataGoesToItsFile, PTL DEF PiecesFindTheirPlace

\* Pages, ranges and intervals stay in their bounds, for any number of alerts, any page
\* sizes and any texts typed.
THEOREM BoundsAlwaysKept == Spec => []BoundsAreKept
BY ConsoleRunsThePanels, PagingAlwaysSound, RangeAlwaysWithinLimit, IntervalAlwaysShown, PTL
   DEF BoundsAreKept

\* Thumbnails, the image search, filter tags and sidebar controls belong to what was chosen
\* last, for any number of rows, looks, sources and tabs.
THEOREM PanelsAlwaysCurrent == Spec => []PanelsAreCurrent
BY ConsoleRunsThePanels, ThumbnailsAlwaysCurrent, ImageSearchAlwaysCurrent,
   TagsAlwaysShowTheFilters, ShellAlwaysShowsTheActiveTab, PTL DEF PanelsAreCurrent

\* No draft is lost but by the user's own hand, and no older alert is skipped.
THEOREM NothingIsEverSkipped == Spec => NothingIsSkipped
BY ConsoleRunsThePanels, DraftsAreNotLost, OlderAlertsAlwaysFollow DEF NothingIsSkipped

\* The clip asked for last plays, and a reload opens the tab chosen last.
THEOREM LastChoiceAlwaysWins == Spec => LastChoiceWins
BY ConsoleRunsThePanels, PlayerAlwaysFollows, ShellReloadsTheTab DEF LastChoiceWins
=============================================================================
