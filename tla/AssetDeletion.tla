--------------------------- MODULE AssetDeletion ---------------------------
(***************************************************************************)
(* DELETE /api/v1/videos/{asset_id}: DeletionService.delete                *)
(* (api/recorded_video.py) with its steps and step claims (repository.py), *)
(* next to the workers, the index and the files of RecordedVideoWorker.    *)
(*                                                                         *)
(* A request runs prepare_asset_deletion, then four external steps in a    *)
(* fixed order, each claimed, carried out and recorded, then               *)
(* finalize_asset_deletion.  Several requests for one asset may overlap,   *)
(* a request may stop at any point, and a later one resumes after the      *)
(* recorded steps.                                                         *)
(***************************************************************************)
EXTENDS RecordedVideoWorker

CONSTANTS Callers,       \* requests that can be under way together
          NoCaller,
          ClaimSeconds,  \* lease of a step claim
          EarlyDeletes   \* TRUE if clients delete assets that are uploading

ASSUME CallersAssumption == NoCaller \notin Callers /\ Assets # {}
ASSUME ClaimAssumption == /\ ClaimSeconds \in Nat
                          /\ ClaimSeconds > MaxLag
                          /\ EarlyDeletes \in BOOLEAN

VARIABLES callers,  \* [Callers -> Call]
          done,     \* done[a]: rows of asset_deletion_steps
          stepOf,   \* stepOf[a][x]: the row of asset_deletion_step_claims
          files,    \* files[a]: the parts of the asset in the file store
          strays    \* assets something was written to by a job without a lease

deletion == <<callers, done, stepOf, files, strays>>
deletionVars == <<vars, deletion>>

External == <<"projection", "derived", "source", "upload">>
Steps == {External[i] : i \in DOMAIN External}
FileParts == {"derived", "source", "upload"}

Unclaimed == [owner |-> NoCaller, lease |-> 0]

\* pc: between requests; before, in and after the operation of step at; the
\* claim was refused; the operation failed; all steps are done.
Call == [pc : {"idle", "step", "operate", "record", "refused", "release",
               "finalize"},
         asset : Assets, at : DOMAIN External]

IdleCall == [pc |-> "idle", asset |-> CHOOSE a \in Assets : TRUE, at |-> 1]

\* The assets have been uploaded, and POST .../complete has not been sent yet.
DeletionInit ==
    /\ Init
    /\ callers = [c \in Callers |-> IdleCall]
    /\ done = [a \in Assets |-> {}]
    /\ stepOf = [a \in Assets |-> [x \in Steps |-> Unclaimed]]
    /\ files = [a \in Assets |-> {"source", "upload"}]
    /\ strays = {}

StepAt(c) == External[callers[c].at]
CallGoes(c, pc) == callers' = [callers EXCEPT ![c].pc = pc]
CallEnds(c) == callers' = [callers EXCEPT ![c] = IdleCall]

-----------------------------------------------------------------------------
(* DeletionService.delete *)

\* Nobody has the token of this request: a claim may outlive its request.
FreshCaller(c) == \A a \in Assets, x \in Steps : stepOf[a][x].owner # c

\* The answer is 204 for a deleted asset and 202 while a job is running.
BeginDelete(c, a, d) ==
    /\ callers[c].pc = "idle"
    /\ FreshCaller(c)
    /\ EarlyDeletes \/ assets[a].status # "uploading"
    /\ PrepareAssetDeletion(a, d)
    /\ IF assets[a].status = "deleted" \/ HasRunningJob(a, jobs')
       THEN UNCHANGED callers
       ELSE callers' = [callers EXCEPT ![c] = [pc |-> "step", asset |-> a, at |-> 1]]
    /\ UNCHANGED <<slots, index, faults, done, stepOf, files, strays>>

NextStep(c) ==
    LET call == callers[c] IN
    callers' = [callers EXCEPT ![c] =
        IF call.at = Len(External) THEN [call EXCEPT !.pc = "finalize"]
        ELSE [call EXCEPT !.pc = "step", !.at = call.at + 1]]

\* Mutant: a claim is taken over while its lease is live.
ClaimAnyway(c, d) == TRUE

\* Mutant: the claim of a request that died is never given up.
ClaimOnlyOwn(c, d) ==
    stepOf[callers[c].asset][StepAt(c)].owner \in {NoCaller, c}

\* The row is free, is this request's own, or has expired.
ClaimIsFree(c, d) ==
    LET claim == stepOf[callers[c].asset][StepAt(c)]
    IN  claim.owner \in {NoCaller, c} \/ claim.lease <= -d

\* claim_deletion_step, and the look at the recorded steps before it.
ClaimStep(c, d) ==
    LET a == callers[c].asset IN
    /\ callers[c].pc = "step"
    /\ \/ /\ StepAt(c) \in done[a]
          /\ NextStep(c)
          /\ UNCHANGED stepOf
       \/ /\ StepAt(c) \notin done[a]
          /\ ClaimIsFree(c, d)
          /\ stepOf' = [stepOf EXCEPT ![a][StepAt(c)] =
                           [owner |-> c, lease |-> ClaimSeconds - d]]
          /\ CallGoes(c, "operate")
       \/ /\ StepAt(c) \notin done[a]
          /\ ~ClaimIsFree(c, d)
          /\ CallGoes(c, "refused")
          /\ UNCHANGED stepOf
    /\ UNCHANGED <<vars, done, files, strays>>

\* The step may have been recorded since; if not, the request answers 202.
LookAgain(c) ==
    /\ callers[c].pc = "refused"
    /\ IF StepAt(c) \in done[callers[c].asset] THEN NextStep(c)
                                               ELSE CallEnds(c)
    /\ UNCHANGED <<vars, done, stepOf, files, strays>>

Operate(c) ==
    LET a == callers[c].asset IN
    /\ callers[c].pc = "operate"
    /\ IF StepAt(c) = "projection"
       THEN /\ docs' = [j \in Jobs |-> IF AssetOf[j] = a
                                       THEN [g \in Segments |-> 0] ELSE docs[j]]
            /\ UNCHANGED files
       ELSE /\ files' = [files EXCEPT ![a] = @ \ {StepAt(c)}]
            /\ UNCHANGED docs
    /\ CallGoes(c, "record")
    /\ UNCHANGED <<tables, slots, flight, faults, done, stepOf, strays>>

\* Mutant: an operation that failed is recorded.
FailureGoesUnnoticed(c) ==
    /\ callers[c].pc = "operate"
    /\ faults < MaxFaults
    /\ faults' = faults + 1
    /\ CallGoes(c, "record")
    /\ UNCHANGED <<tables, slots, index, done, stepOf, files, strays>>

OperateFails(c) ==
    /\ callers[c].pc = "operate"
    /\ faults < MaxFaults
    /\ faults' = faults + 1
    /\ CallGoes(c, "release")
    /\ UNCHANGED <<tables, slots, index, done, stepOf, files, strays>>

Owns(c) == stepOf[callers[c].asset][StepAt(c)].owner = c

\* release_deletion_step, then the request answers 500.
Release(c) ==
    /\ callers[c].pc = "release"
    /\ stepOf' = IF Owns(c)
                 THEN [stepOf EXCEPT ![callers[c].asset][StepAt(c)] = Unclaimed]
                 ELSE stepOf
    /\ CallEnds(c)
    /\ UNCHANGED <<vars, done, files, strays>>

\* record_deletion_step; who lost the claim meanwhile answers 500.
Record(c) ==
    LET a == callers[c].asset IN
    /\ callers[c].pc = "record"
    /\ IF Owns(c)
       THEN /\ done' = [done EXCEPT ![a] = @ \cup {StepAt(c)}]
            /\ stepOf' = [stepOf EXCEPT ![a][StepAt(c)] = Unclaimed]
            /\ NextStep(c)
       ELSE CallEnds(c) /\ UNCHANGED <<done, stepOf>>
    /\ UNCHANGED <<vars, files, strays>>

\* finalize_asset_deletion; it raises while a job is running.
Finalize(c) ==
    LET a == callers[c].asset IN
    /\ callers[c].pc = "finalize"
    /\ \/ /\ FinalizeAssetDeletion(a)
          /\ stepOf' = [stepOf EXCEPT ![a] = [x \in Steps |-> Unclaimed]]
          /\ done' = [done EXCEPT ![a] = @ \cup {"sqlite"}]
       \/ /\ HasRunningJob(a, jobs)
          /\ UNCHANGED <<tables, stepOf, done>>
    /\ CallEnds(c)
    /\ UNCHANGED <<slots, index, faults, files, strays>>

\* A call to the repository raises, or the request is cancelled outside an
\* operation: its claim stays.
CallDies(c) ==
    /\ callers[c].pc # "idle"
    /\ faults < MaxFaults
    /\ faults' = faults + 1
    /\ CallEnds(c)
    /\ UNCHANGED <<tables, slots, index, done, stepOf, files, strays>>

\* The API process is killed and started again.
CrashApi ==
    /\ faults < MaxFaults
    /\ faults' = faults + 1
    /\ callers' = [c \in Callers |-> IdleCall]
    /\ UNCHANGED <<tables, slots, index, done, stepOf, files, strays>>

-----------------------------------------------------------------------------
(* The workers beside it *)

\* Nobody holds the lease of job j, and yet something of it is written.
Strays(j) ==
    strays' = IF \E s \in Slots : slots[s].h.job = j /\ Holds(slots[s].h, 0)
              THEN strays ELSE strays \cup {AssetOf[j]}

\* An operation writes frames, a proxy or a manifest, behind the cancel point
\* that let it begin.
WriteFiles(s) ==
    LET j == slots[s].h.job IN
    /\ slots[s].pc = "work"
    /\ files' = [files EXCEPT ![AssetOf[j]] = @ \cup {"derived"}]
    /\ Strays(j)
    /\ UNCHANGED <<vars, callers, done, stepOf>>

IndexStep == \E u \in flight : /\ ApplyUpdate(u)
                               /\ Strays(u.job)
                               /\ UNCHANGED <<callers, done, stepOf, files>>

HasSource(s) == "source" \in files[AssetOf[slots[s].h.job]]
AtFirstStage(s) == slots[s].pc = "stage" /\ slots[s].at = 1

\* resolve_source_path raises before the first stage.
SourceIsMissing(s) ==
    /\ AtFirstStage(s)
    /\ ~HasSource(s)
    /\ Unwind(s, "fail")
    /\ UNCHANGED <<tables, index, faults, deletion>>

\* Slots go on as they do, except that the first stage needs the source.
SlotAdvances(s) ==
    /\ Advances(s)
    /\ AtFirstStage(s) /\ slots'[s].pc \in {"work", "stage", "publish"} => HasSource(s)
    /\ UNCHANGED deletion

SlotStep(s) ==
    \/ SlotAdvances(s)
    \/ (Claims(s) \/ Renews(s) \/ Fails(s)) /\ UNCHANGED deletion

\* POST .../complete looks for the source file some time before it commits, so
\* that the file may be gone by then.
WorkerStep ==
    /\ \/ \E w \in Workers : NewRound(w) \/ Interrupt(w) \/ Crash(w)
       \/ \E j \in Jobs, d \in Lags : ApiCall(j, d)
    /\ UNCHANGED deletion

Lowers(claim) == IF claim.owner = NoCaller THEN claim
                 ELSE [claim EXCEPT !.lease = Lowered(@)]

\* Would a request lose its claim to this tick?
ClaimLapses == \E c \in Callers : /\ callers[c].pc \in {"operate", "record", "release"}
                                  /\ Owns(c)
                                  /\ stepOf[callers[c].asset][StepAt(c)].lease = 1

\* That a request is too slow for its claim is a fault, as with the slots.
DeletionTick ==
    /\ Lapses \/ ClaimLapses => faults < MaxFaults
    /\ faults' = IF Lapses \/ ClaimLapses THEN faults + 1 ELSE faults
    /\ TablesTick
    /\ stepOf' = [a \in Assets |-> [x \in Steps |-> Lowers(stepOf[a][x])]]
    /\ UNCHANGED <<slots, index, callers, done, files, strays>>

-----------------------------------------------------------------------------

CallStep(c) ==
    \/ LookAgain(c) \/ Operate(c) \/ Release(c) \/ Record(c) \/ Finalize(c)
    \/ \E d \in Lags : ClaimStep(c, d)

DeletionNext ==
    \/ \E s \in Slots : SlotStep(s) \/ WriteFiles(s) \/ SourceIsMissing(s)
    \/ WorkerStep \/ IndexStep \/ DeletionTick \/ CrashApi
    \/ \E c \in Callers : CallStep(c) \/ OperateFails(c) \/ CallDies(c)
    \/ \E c \in Callers, a \in Assets, d \in Lags : BeginDelete(c, a, d)

DeletionSpec == DeletionInit /\ [][DeletionNext]_deletionVars

\* Beside the fairness of the workers: requests go on, and a client repeats a
\* DELETE until it is answered 204 (the 202 answer has a Retry-After header).
DeletionFairness ==
    /\ \A s \in Slots : /\ WF_deletionVars(Claims(s) /\ UNCHANGED deletion)
                        /\ WF_deletionVars(SlotAdvances(s))
                        /\ WF_deletionVars(SourceIsMissing(s))
    /\ \A w \in Workers : WF_deletionVars(NewRound(w) /\ UNCHANGED deletion)
    /\ WF_deletionVars(IndexStep)
    /\ WF_deletionVars(DeletionTick)
    /\ \A c \in Callers : WF_deletionVars(CallStep(c))
    /\ \A a \in Assets : WF_deletionVars(a \in requests /\
           \E c \in Callers, d \in Lags : BeginDelete(c, a, d))

FairDeletionSpec == DeletionSpec /\ DeletionFairness

-----------------------------------------------------------------------------
(* Properties *)

\* Types; a claim row is for a step that is not recorded.
DeletionTypeOK ==
    /\ TypeOK
    /\ callers \in [Callers -> Call]
    /\ done \in [Assets -> SUBSET (Steps \cup {"sqlite"})]
    /\ files \in [Assets -> SUBSET FileParts]
    /\ strays \subseteq Assets
    /\ \A a \in Assets, x \in Steps :
           /\ stepOf[a][x].owner \in Callers \cup {NoCaller}
           /\ stepOf[a][x].lease \in (-MaxLag)..ClaimSeconds
           /\ x \in done[a] => stepOf[a][x] = Unclaimed

NoDocuments(a) ==
    \A j \in Jobs : AssetOf[j] = a => \A g \in Segments : docs[j][g] = 0

Emptied(a, x) == IF x = "projection" THEN NoDocuments(a) ELSE x \notin files[a]

\* A recorded step stays done: what it removed is not there again, so that the
\* next DELETE may skip it.  Excepted are writes of a job that has lost its
\* lease: a bulk applied late, or a coroutine that was too slow.
RecordedStepsHold ==
    \A a \in Assets \ strays : \A x \in done[a] \cap Steps : Emptied(a, x)

\* spec.md: once an asset is deleted there is no document of it in the index
\* and none of its files is left, with the same exception.
DeletedAssetsLeaveNothing ==
    \A a \in Assets \ strays : assets[a].status = "deleted" =>
        \A x \in Steps : Emptied(a, x)

\* After the deletion of an asset was requested, its steps wait until no job of
\* the asset runs, not even one that is being cleaned up, and none starts
\* between two steps or two requests.
DeletersRunAlone ==
    \A c \in Callers : callers[c].pc # "idle" /\ callers[c].asset \in requests =>
        ~HasRunningJob(callers[c].asset, jobs)

\* Requests that resume each other's deletion do all of it, and alone.
DeletionIsSound ==
    /\ DeletionTypeOK /\ RecordedStepsHold /\ DeletedAssetsLeaveNothing /\ DeletersRunAlone

\* A claim on a step is given up by its own request or expires; another request
\* can end it neither by claiming the step nor by finalize_asset_deletion, which
\* drops every claim of the asset.
LiveClaimKept ==
    [][\A a \in Assets, x \in Steps : LET c == stepOf[a][x].owner IN
          c # NoCaller /\ stepOf[a][x].lease > 0 =>
              \/ stepOf'[a][x].owner = c
              \/ callers'[c] # callers[c]]_deletionVars

\* A requested deletion is completed although requests and workers die between
\* any two steps and leave claims, leases and cleanups behind.
DeletionsEnd ==
    \A a \in Assets : a \in requests ~> assets[a].status = "deleted"
=============================================================================
