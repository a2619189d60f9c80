----------------------------- MODULE AlertRules -----------------------------
(* Manage Alerts: the real-time rules of the alert service and the draft rows *)
(* that become rules (CreateAlertRulesView.tsx, useRealtimeAlertRules.ts).     *)
(* Requests for the list overlap with each other, with saves and with deletes. *)
EXTENDS Naturals, FiniteSets

CONSTANTS
    Drafts,       \* bound: draft rows, each made once
    MaxRules,     \* bound: rules ever created
    MaxLists      \* bound: requests for the list under way at once

ASSUME RulesConstants == MaxRules \in Nat /\ MaxLists \in Nat \ {0}

VARIABLES
    server,       \* rules of the service: their number and the draft they came from
    createdRules,  \* rules ever created
    rules,        \* numbers of the rules of the table
    lists,        \* requests for the list: the draft that waits, and what the service had
    rulesLoading,
    drafts,       \* rows, with what is shown of them: "edit", "saving", "error"
    saver,        \* saveDraft of each draft
    lost,         \* drafts whose rule was created and whose answer was lost
    pendingDelete, deletingId, deletes,
    ruleStreams   \* the catalog of the sensor picker

listVars == <<rules, lists, rulesLoading>>
draftVars == <<drafts, saver, lost>>
deleteVars == <<pendingDelete, deletingId, deletes>>
rulesVars == <<server, createdRules, listVars, draftVars, deleteVars, ruleStreams>>

Numbers == 1 .. MaxRules
Ids == {r.id : r \in server}

RulesTypeOK ==
    /\ server \subseteq [id : Numbers, from : Drafts] /\ createdRules \in 0 .. MaxRules
    /\ rules \subseteq Numbers /\ rulesLoading \in BOOLEAN
    /\ \A l \in lists : l.seen \subseteq Numbers
    /\ Cardinality(lists) <= MaxLists
    /\ drafts \in [Drafts -> {"new", "edit", "saving", "error", "gone"}]
    /\ saver \in [Drafts -> {"idle", "resolve", "post", "list"}] /\ lost \subseteq Drafts
    /\ pendingDelete \in 0 .. MaxRules /\ deletingId \in 0 .. MaxRules /\ deletes \subseteq Numbers
    /\ ruleStreams \in {"none", "loading", "loaded", "error"}

RulesInit ==
    /\ server = {} /\ createdRules = 0 /\ rules = {} /\ lists = {[for |-> {}, seen |-> {}]} /\ rulesLoading = TRUE
    /\ drafts = [d \in Drafts |-> "new"] /\ saver = [d \in Drafts |-> "idle"] /\ lost = {}
    /\ pendingDelete = 0 /\ deletingId = 0 /\ deletes = {} /\ ruleStreams = "none"

-----------------------------------------------------------------------------
(* useRealtimeAlertRules.                                                    *)

\* fetchRules: of the mount, of the button, or of a save that waits for it.
FetchRules(for) ==
    /\ Cardinality(lists) < MaxLists
    /\ lists' = lists \cup {[for |-> for, seen |-> Ids]}
    /\ rulesLoading' = TRUE /\ UNCHANGED rules

RefreshRules ==
    /\ ~rulesLoading
    /\ FetchRules({})
    /\ UNCHANGED <<server, createdRules, draftVars, deleteVars, ruleStreams>>

\* A list is what the service had when it was asked, or has by now; whichever
\* answer comes last is the table, and any answer ends the spinner. A save that
\* waited for it is done, and drops its row, even when the list failed.
ListAnswered(l) ==
    /\ l \in lists
    /\ lists' = lists \ {l}
    /\ rules' \in {rules, l.seen, Ids}
    /\ rulesLoading' = FALSE
    /\ saver' = [d \in Drafts |-> IF d \in l.for THEN "idle" ELSE saver[d]]
    /\ drafts' = [d \in Drafts |-> IF d \in l.for THEN "gone" ELSE drafts[d]]
    /\ UNCHANGED <<server, createdRules, lost, deleteVars, ruleStreams>>

-----------------------------------------------------------------------------
(* Draft rows.                                                               *)

LoadLiveStreams == ruleStreams' = "loading"

StreamsAnswered ==
    /\ ruleStreams = "loading"
    /\ ruleStreams' \in {"loaded", "error"}
    /\ UNCHANGED <<server, createdRules, listVars, draftVars, deleteVars>>

RetryStreams ==
    /\ ruleStreams = "error"
    /\ LoadLiveStreams
    /\ UNCHANGED <<server, createdRules, listVars, draftVars, deleteVars>>

\* A new row, or a copy of a rule or of a row.
AddDraft(d) ==
    /\ drafts[d] = "new"
    /\ drafts' = [drafts EXCEPT ![d] = "edit"]
    /\ LoadLiveStreams
    /\ UNCHANGED <<server, createdRules, listVars, saver, lost, deleteVars>>

RemoveDraft(d) ==
    /\ drafts[d] \in {"edit", "saving", "error"}
    /\ drafts' = [drafts EXCEPT ![d] = "gone"]
    /\ UNCHANGED <<server, createdRules, listVars, saver, lost, deleteVars, ruleStreams>>

\* Mutant: the row does not show that it is being saved.
StaysOpen(d) == drafts

MarkedSaving(d) == [drafts EXCEPT ![d] = "saving"]

\* Save, on a row whose fields are filled in and whose button is not disabled;
\* an empty field is an error at once.
SaveDraft(d) ==
    /\ drafts[d] \in {"edit", "error"}
    /\ \/ drafts' = [drafts EXCEPT ![d] = "error"] /\ UNCHANGED saver
       \/ drafts' = MarkedSaving(d) /\ saver' = [saver EXCEPT ![d] = "resolve"]
    /\ UNCHANGED <<server, createdRules, listVars, lost, deleteVars, ruleStreams>>

\* Mutant: the row is dropped whether or not the rule was created.
DroppedAnyway(d) == [drafts EXCEPT ![d] = "gone"]

\* updateDraft finds the row only when it is still there.
Failed(d) == [drafts EXCEPT ![d] = IF @ = "gone" THEN "gone" ELSE "error"]

SensorResolved(d) ==
    /\ saver[d] = "resolve"
    /\ \/ saver' = [saver EXCEPT ![d] = "post"] /\ UNCHANGED drafts
       \/ saver' = [saver EXCEPT ![d] = "idle"] /\ drafts' = Failed(d)
    /\ UNCHANGED <<server, createdRules, listVars, lost, deleteVars, ruleStreams>>

RuleCreated(d) ==
    /\ createdRules < MaxRules
    /\ createdRules' = createdRules + 1
    /\ server' = server \cup {[id |-> createdRules + 1, from |-> d]}

\* createRule: the POST is refused, its answer is lost after the rule was made, or
\* it succeeds and the list is asked for.
PostAnswered(d) ==
    /\ saver[d] = "post"
    /\ \/ /\ saver' = [saver EXCEPT ![d] = "idle"] /\ drafts' = Failed(d)
          /\ UNCHANGED <<server, createdRules, lost, listVars>>
       \/ /\ RuleCreated(d)
          /\ saver' = [saver EXCEPT ![d] = "idle"] /\ drafts' = Failed(d)
          /\ lost' = lost \cup {d}
          /\ UNCHANGED listVars
       \/ /\ RuleCreated(d)
          /\ saver' = [saver EXCEPT ![d] = "list"]
          /\ Cardinality(lists) < MaxLists
          /\ lists' = lists \cup {[for |-> {d}, seen |-> {r.id : r \in server'}]}
          /\ rulesLoading' = TRUE
          /\ UNCHANGED <<drafts, lost, rules>>
    /\ UNCHANGED <<deleteVars, ruleStreams>>

-----------------------------------------------------------------------------
(* Deleting a rule, in two clicks.                                           *)

AskDelete(r) ==
    /\ r \in rules /\ deletingId # r
    /\ pendingDelete' = r
    /\ UNCHANGED <<server, createdRules, listVars, draftVars, deletingId, deletes, ruleStreams>>

CancelDelete ==
    /\ pendingDelete \in rules
    /\ pendingDelete' = 0
    /\ UNCHANGED <<server, createdRules, listVars, draftVars, deletingId, deletes, ruleStreams>>

Confirmed(r) == r \in rules /\ pendingDelete = r

HandleDelete(r) ==
    /\ Confirmed(r) /\ deletingId # r
    /\ pendingDelete' = 0 /\ deletingId' = r
    /\ deletes' = deletes \cup {r}
    /\ UNCHANGED <<server, createdRules, listVars, draftVars, ruleStreams>>

DeleteAnswered(r) ==
    /\ r \in deletes
    /\ deletes' = deletes \ {r}
    /\ deletingId' = IF deletingId = r THEN 0 ELSE deletingId
    /\ \/ /\ server' = {s \in server : s.id # r}
          /\ rules' = rules \ {r}
       \/ UNCHANGED <<server, rules>>
    /\ UNCHANGED <<createdRules, lists, rulesLoading, draftVars, pendingDelete, ruleStreams>>

-----------------------------------------------------------------------------

RulesNext ==
    \/ RefreshRules \/ StreamsAnswered \/ RetryStreams \/ CancelDelete
    \/ \E l \in lists : ListAnswered(l)
    \/ \E d \in Drafts :
           AddDraft(d) \/ RemoveDraft(d) \/ SaveDraft(d) \/ SensorResolved(d) \/ PostAnswered(d)
    \/ \E r \in Numbers : AskDelete(r) \/ HandleDelete(r) \/ DeleteAnswered(r)

RulesSpec == RulesInit /\ [][RulesNext]_rulesVars

-----------------------------------------------------------------------------

\* A draft makes one rule, however often Save is clicked, discarded or not; only a
\* save whose answer was lost may be repeated by the user.
OneRulePerDraft ==
    \A r, s \in server : r.from = s.from /\ r # s => r.from \in lost

\* A row leaves the table when its rule was created or when the user discards it,
\* never by a save that failed; and no rule is deleted that was not asked about first.
NothingIsLost ==
    [][/\ \A d \in Drafts : drafts[d] = "saving" /\ drafts'[d] = "gone" =>
              saver[d] = "list" \/ RemoveDraft(d)
       /\ deletes' \subseteq deletes \cup {pendingDelete}]_rulesVars
=============================================================================
