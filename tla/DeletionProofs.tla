--------------------------- MODULE DeletionProofs ---------------------------
(***************************************************************************)
(* Deletions that overlap, die and are resumed do all of their steps, and  *)
(* no job of the asset runs beside them or brings anything back, for any   *)
(* number of requests, assets, workers and faults.                         *)
(***************************************************************************)
EXTENDS AssetDeletion, WorkerProofs

USE DEF Lags

-----------------------------------------------------------------------------
(* No job starts under a deletion *)

\* No job of asset a runs, and none can be started.
Quiet(a) ==
    /\ \A j \in Jobs : AssetOf[j] = a => jobs[j].status # "running"
    /\ \/ a \in requests
       \/ /\ assets[a].status = "deleted"
          /\ \A j \in Jobs : AssetOf[j] = a => jobs[j].status = "absent"

\* A transaction that wakes up no quiet asset and deletes none.
Undisturbed ==
    \A a \in Assets : /\ Quiet(a) => Quiet(a)'
                      /\ assets'[a].status = "deleted" => assets[a].status = "deleted"

LEMMA RowsRestUndisturbed ==
    ASSUME assets' = assets, requests \subseteq requests',
           \A j \in Jobs : /\ jobs'[j].status = "running" => jobs[j].status = "running"
                           /\ jobs[j].status = "absent" => jobs'[j].status = "absent"
    PROVE  Undisturbed
BY DEF Undisturbed, Quiet

\* The job's asset is awake, and nothing else is written.
LEMMA OneAssetUndisturbed ==
    ASSUME TablesTypeOK, NEW j \in Jobs, ~Quiet(AssetOf[j]), requests' = requests,
           \A k \in Jobs \ {j} : jobs'[k] = jobs[k],
           \A a \in Assets \ {AssetOf[j]} : assets'[a] = assets[a],
           \/ assets'[AssetOf[j]].status # "deleted"
           \/ assets'[AssetOf[j]].status = assets[AssetOf[j]].status
    PROVE  Undisturbed
<1>1. ASSUME NEW a \in Assets, a # AssetOf[j], Quiet(a)
      PROVE  Quiet(a)'
  <2>1. \A k \in Jobs : AssetOf[k] = a => jobs'[k] = jobs[k]
    BY <1>1
  <2> QED BY <1>1, <2>1 DEF Quiet
<1> QED BY <1>1 DEF Undisturbed

LEMMA RunningIsAwake ==
    ASSUME NEW j \in Jobs, jobs[j].status = "running"
    PROVE  ~Quiet(AssetOf[j])
BY DEF Quiet

LEMMA JobCallUndisturbed ==
    ASSUME TablesTypeOK, NEW j \in Jobs, NEW d \in Lags, JobCall(j, d)
    PROVE  Undisturbed
<1>1. AssetOf[j] \in Assets /\ jobs[j] \in JobRow
  BY JobsAssumption DEF TablesTypeOK
<1>2. CASE CompleteUpload(j, d)
  <2>1. ~Quiet(AssetOf[j])
    BY <1>2 DEF CompleteUpload, Quiet
  <2>2. /\ \A k \in Jobs \ {j} : jobs'[k] = jobs[k]
        /\ \A a \in Assets \ {AssetOf[j]} : assets'[a] = assets[a]
        /\ requests' = requests
    BY <1>2 DEF CompleteUpload, TablesTypeOK
  <2>3. assets'[AssetOf[j]].status = "ready"
    BY <1>1, <1>2 DEF CompleteUpload, TablesTypeOK
  <2> QED BY <2>1, <2>2, <2>3, OneAssetUndisturbed
<1>3. CASE RequestCancel(j, d)
  <2>1. CancelRow(jobs[j], d).status \in {"cancelled", jobs[j].status}
    BY <1>1, Zenon DEF CancelRow, Unleased, JobRow
  <2>2. jobs' = [jobs EXCEPT ![j] = CancelRow(jobs[j], d)] /\ jobs[j].status # "absent"
    BY <1>3 DEF RequestCancel
  <2>3. jobs'[j].status \in {"cancelled", jobs[j].status}
    BY <2>1, <2>2 DEF TablesTypeOK
  <2>4. \A k \in Jobs \ {j} : jobs'[k] = jobs[k]
    BY <2>2 DEF TablesTypeOK
  <2>5. UNCHANGED <<assets, requests>>
    BY <1>3 DEF RequestCancel
  <2> QED BY <2>2, <2>3, <2>4, <2>5, RowsRestUndisturbed
<1>4. CASE RetryFailedJob(j, d)
  <2>1. ~Quiet(AssetOf[j])
    BY <1>4 DEF RetryFailedJob, Quiet
  <2>2. /\ \A k \in Jobs \ {j} : jobs'[k] = jobs[k]
        /\ assets' = assets /\ requests' = requests
    BY <1>4 DEF RetryFailedJob, TablesTypeOK
  <2> QED BY <2>1, <2>2, OneAssetUndisturbed
<1> QED BY <1>2, <1>3, <1>4 DEF JobCall

\* Whoever presents a handle that the repository takes has a running job.
LEMMA HolderUndisturbed ==
    ASSUME TablesTypeOK, NEW h \in Handle,
           (\E d \in Lags : LeaseCall(h, d)) \/ PipelineCall(h)
    PROVE  Undisturbed
<1> DEFINE a == AssetOf[h.job]
<1>1. h.job \in Jobs /\ a \in Assets
  BY JobsAssumption DEF Handle
<1>2. /\ jobs[h.job].status = "running" /\ requests' = requests
      /\ \A k \in Jobs \ {h.job} : jobs'[k] = jobs[k]
      /\ \/ assets' = assets
         \/ \E shown \in {"processing", "ready", "failed"} :
                assets' = [assets EXCEPT ![a].status = shown]
  <2>1. ASSUME NEW d \in Lags, LeaseCall(h, d)
        PROVE  /\ jobs[h.job].status = "running" /\ requests' = requests
               /\ \A k \in Jobs \ {h.job} : jobs'[k] = jobs[k]
               /\ \/ assets' = assets
                  \/ \E shown \in {"processing", "ready", "failed"} :
                         assets' = [assets EXCEPT ![a].status = shown]
    BY <2>1 DEF LeaseCall, RenewLease, RenewCleanupLease, ReleaseClaim, MarkFailed,
                FinishCancel, ScheduleRetry, HoldsUncancelled, CleanupLease, Holds,
                TablesTypeOK
  <2>2. CASE StartPipeline(h) \/ CompletePipeline(h)
    BY <2>2 DEF StartPipeline, CompletePipeline, CancelNotSeen, ActiveLease, Holds,
                TablesTypeOK
  <2>3. ASSUME NEW n \in Stages, CheckpointStep(h, n) \/ ResetStepsFrom(h, n)
        PROVE  /\ jobs[h.job].status = "running" /\ requests' = requests
               /\ \A k \in Jobs \ {h.job} : jobs'[k] = jobs[k]
               /\ assets' = assets
    BY <2>3 DEF CheckpointStep, ResetStepsFrom, CancelNotSeen, ActiveLease, Holds,
                TablesTypeOK
  <2> QED BY <2>1, <2>2, <2>3 DEF PipelineCall
<1>3. ASSUME NEW shown \in {"processing", "ready", "failed"},
             assets' = [assets EXCEPT ![a].status = shown]
      PROVE  /\ assets'[a].status # "deleted"
             /\ \A b \in Assets \ {a} : assets'[b] = assets[b]
  BY <1>1, <1>3 DEF TablesTypeOK, AssetRow
<1> QED BY <1>1, <1>2, <1>3, RunningIsAwake, OneAssetUndisturbed

LEMMA RefreshedStatus ==
    ASSUME TablesTypeOK, NEW d \in Lags, NEW j \in Jobs
    PROVE  /\ RefreshedJobs(d)[j].status = "running" => jobs[j].status = "running"
           /\ jobs[j].status = "absent" => RefreshedJobs(d)[j].status = "absent"
<1> DEFINE old == RecoverRow(j, jobs[j], d)
<1>1. /\ old.status = "running" => jobs[j].status = "running"
      /\ jobs[j].status = "absent" => old.status = "absent"
      /\ old \in JobRow
  BY RecoverRowType DEF RecoverRow, Unleased, JobRow, TablesTypeOK
<1>2. RefreshedJobs(d)[j] = DueRow(j, old, d)
  BY DEF RefreshedJobs
<1> HIDE DEF old
<1>3. \/ DueRow(j, old, d) = old
      \/ DueRow(j, old, d).status = "queued" /\ old.status = "retry_wait"
  <2>1. [old EXCEPT !.status = "queued"].status = "queued"
    BY <1>1 DEF JobRow
  <2> QED BY <2>1 DEF DueRow
<1> QED BY <1>1, <1>2, <1>3

LEMMA SweepUndisturbed ==
    ASSUME TablesTypeOK, NEW d \in Lags, ClaimFindsNothing(d) \/ TablesTick
    PROVE  Undisturbed
<1>1. \A j \in Jobs : TickRow(jobs[j]).status = jobs[j].status
  <2>1. \A row \in JobRow : TickRow(row).status = row.status
    BY Zenon DEF TickRow, JobRow
  <2> QED BY <2>1 DEF TablesTypeOK
<1>2. UNCHANGED <<assets, requests>>
  BY DEF ClaimFindsNothing, TablesTick
<1>3. \A j \in Jobs : /\ jobs'[j].status = "running" => jobs[j].status = "running"
                      /\ jobs[j].status = "absent" => jobs'[j].status = "absent"
  BY <1>1, RefreshedStatus DEF ClaimFindsNothing, TablesTick
<1> QED BY <1>2, <1>3, RowsRestUndisturbed

\* Neither a cleanup nor an attempt is due in a quiet asset.
LEMMA ClaimUndisturbed ==
    ASSUME TablesTypeOK, NEW j \in Jobs, NEW o \in Owners, NEW d \in Lags,
           ClaimDueJob(j, o, d)
    PROVE  Undisturbed
<1>1. ~Quiet(AssetOf[j])
  <2>1. \/ RefreshedJobs(d)[j].status = "running"
        \/ RefreshedJobs(d)[j].status = "queued" /\ AssetOf[j] \notin requests
    BY DEF ClaimDueJob, Claimable, DueForCleanup, DueForAttempt
  <2> QED BY <2>1, RefreshedStatus DEF Quiet
<1>2. \A k \in Jobs \ {j} : jobs'[k] = RefreshedJobs(d)[k]
  BY DEF ClaimDueJob, RefreshedJobs
<1>3. UNCHANGED <<assets, requests>>
  BY DEF ClaimDueJob
<1>4. ASSUME NEW a \in Assets, Quiet(a)
      PROVE  Quiet(a)'
  <2>1. ASSUME NEW k \in Jobs, AssetOf[k] = a
        PROVE  /\ jobs'[k].status = "running" => jobs[k].status = "running"
               /\ jobs[k].status = "absent" => jobs'[k].status = "absent"
    BY <1>1, <1>2, <1>4, <2>1, RefreshedStatus
  <2> QED BY <1>3, <1>4, <2>1 DEF Quiet
<1> QED BY <1>3, <1>4 DEF Undisturbed

\* Workers, the API beside deletions and the clock leave quiet assets quiet.
LEMMA WorkerUndisturbed ==
    ASSUME Good, [Next]_vars
    PROVE  Undisturbed
<1>1. TablesTypeOK
  BY DEF Good, TypeOK
<1>2. CASE UNCHANGED tables
  BY <1>2, RowsRestUndisturbed DEF tables
<1>3. CASE TableCall
  <2>1. \A h \in Held : h \in Handle
    BY SlotFacts DEF Held, SlotOK, Slot
  <2>2. 0 \in Lags
    BY TimeAssumption
  <2> QED BY <1>1, <1>3, <2>1, <2>2, JobCallUndisturbed, HolderUndisturbed,
             SweepUndisturbed DEF TableCall
<1>4. ASSUME NEW s \in Slots, NEW j \in Jobs, NEW o \in Owners, NEW d \in Lags,
             ClaimJob(s, j, o, d)
      PROVE  Undisturbed
  BY <1>1, <1>4, ClaimUndisturbed DEF ClaimJob
<1> QED BY <1>2, <1>3, <1>4, TableCases

-----------------------------------------------------------------------------
(* The inductive invariant *)

\* A step of the deletion of asset a is recorded, or a request is at work on it.
UnderWay(a) ==
    \/ done[a] # {}
    \/ \E c \in Callers : callers[c].pc # "idle" /\ callers[c].asset = a

\* A request has the steps before its own behind it.
Progresses(c) ==
    callers[c].pc # "idle" =>
        /\ \A i \in 1..(callers[c].at - 1) : External[i] \in done[callers[c].asset]
        /\ callers[c].pc = "finalize" => Steps \subseteq done[callers[c].asset]

\* Besides, what it is about to record is so.
CallFits(c) ==
    /\ Progresses(c)
    /\ callers[c].pc = "record" /\ callers[c].asset \notin strays =>
           Emptied(callers[c].asset, StepAt(c))

ClaimRow == [owner : Callers \cup {NoCaller}, lease : (-MaxLag)..ClaimSeconds]

DeletionRowsOK ==
    /\ callers \in [Callers -> Call]
    /\ done \in [Assets -> SUBSET (Steps \cup {"sqlite"})]
    /\ stepOf \in [Assets -> [Steps -> ClaimRow]]
    /\ files \in [Assets -> SUBSET FileParts]
    /\ strays \subseteq Assets
    /\ \A a \in Assets, x \in Steps : x \in done[a] => stepOf[a][x] = Unclaimed

\* What the claims of requests need, whatever workers do beside them.
ClaimsOK ==
    /\ callers \in [Callers -> Call]
    /\ done \in [Assets -> SUBSET (Steps \cup {"sqlite"})]
    /\ stepOf \in [Assets -> [Steps -> ClaimRow]]
    /\ \A a \in Assets, x \in Steps : x \in done[a] => stepOf[a][x] = Unclaimed
    /\ \A c \in Callers : Progresses(c)

DeletionInv ==
    /\ Good /\ DeletionRowsOK /\ RecordedStepsHold
    /\ \A a \in Assets :
           /\ UnderWay(a) => Quiet(a)
           /\ assets[a].status = "deleted" => Steps \subseteq done[a]
    /\ \A c \in Callers : CallFits(c)

LEMMA ExternalFacts ==
    /\ DOMAIN External = 1..4 /\ Len(External) = 4
    /\ Steps = {"projection", "derived", "source", "upload"}
    /\ \A i \in 1..4 : External[i] \in Steps
    /\ \A x \in Steps : \E i \in 1..4 : External[i] = x
<1>1. DOMAIN External = 1..4 /\ Len(External) = 4
  BY DEF External
<1>2. /\ External[1] = "projection" /\ External[2] = "derived"
      /\ External[3] = "source" /\ External[4] = "upload"
  BY DEF External
<1>3. 1..4 = {1, 2, 3, 4}
  OBVIOUS
<1> QED BY <1>1, <1>2, <1>3 DEF Steps

\* Nothing comes into a quiet asset but by a job without a lease.
NothingNew ==
    /\ strays \subseteq strays'
    /\ \A a \in Assets \ strays' : Quiet(a) =>
           \A x \in Steps : Emptied(a, x) => Emptied(a, x)'

\* What every step has to show.
LEMMA InvStays ==
    ASSUME DeletionInv, Good', DeletionRowsOK', NothingNew,
           \A a \in Assets :
               /\ Quiet(a) => Quiet(a)'
               /\ assets'[a].status = "deleted" =>
                      assets[a].status = "deleted" \/ Steps \subseteq done'[a]
               /\ done[a] \subseteq done'[a]
               /\ done'[a] # done[a] => Quiet(a)
               /\ a \notin strays' => \A x \in (done'[a] \ done[a]) \cap Steps : Emptied(a, x)',
           \A c \in Callers :
               \/ callers'[c] \in {callers[c], IdleCall}
               \/ Quiet(callers[c].asset)' /\ CallFits(c)'
    PROVE  DeletionInv'
<1>1. ASSUME NEW a \in Assets, UnderWay(a)'
      PROVE  Quiet(a)'
  <2>1. CASE done'[a] # {}
    <3>1. CASE done'[a] = done[a]
      BY <2>1, <3>1 DEF DeletionInv, UnderWay
    <3> QED BY <3>1
  <2>2. ASSUME NEW c \in Callers, callers'[c].pc # "idle", callers'[c].asset = a
        PROVE  Quiet(a)'
    <3>1. callers'[c] # IdleCall
      BY <2>2 DEF IdleCall
    <3>2. CASE callers'[c] = callers[c]
      BY <2>2, <3>2 DEF DeletionInv, UnderWay
    <3> QED BY <2>2, <3>1, <3>2
  <2> QED BY <1>1, <2>1, <2>2 DEF UnderWay
<1>2. ASSUME NEW a \in Assets \ strays', NEW x \in done'[a] \cap Steps
      PROVE  Emptied(a, x)'
  <2>1. CASE x \in done[a]
    <3>1. Quiet(a) /\ Emptied(a, x)
      BY <2>1 DEF DeletionInv, UnderWay, RecordedStepsHold, NothingNew
    <3> QED BY <3>1 DEF NothingNew
  <2> QED BY <2>1
<1>3. ASSUME NEW c \in Callers
      PROVE  CallFits(c)'
  <2>1. CASE callers'[c] = IdleCall
    BY <2>1 DEF IdleCall, CallFits, Progresses
  <2>2. CASE callers'[c] = callers[c] /\ callers[c].pc # "idle"
    <3>1. /\ callers[c].asset \in Assets /\ StepAt(c) \in Steps
          /\ CallFits(c) /\ Quiet(callers[c].asset)
      BY <2>2, ExternalFacts DEF DeletionInv, DeletionRowsOK, Call, UnderWay, StepAt
    <3> SUFFICES ASSUME NEW a \in Assets, a = callers[c].asset,
                        NEW x \in Steps, x = StepAt(c)
                 PROVE  CallFits(c)'
      BY <3>1
    <3>2. callers'[c].asset = a /\ StepAt(c)' = x
      BY <2>2 DEF StepAt
    <3>3. /\ \A i \in 1..(callers'[c].at - 1) : External[i] \in done'[a]
          /\ callers'[c].pc = "finalize" => Steps \subseteq done'[a]
      BY <2>2, <3>1 DEF CallFits, Progresses
    <3>4. callers'[c].pc = "record" /\ a \notin strays' => Emptied(a, x)'
      BY <2>2, <3>1 DEF CallFits, Progresses, NothingNew
    <3> QED BY <3>2, <3>3, <3>4 DEF CallFits, Progresses
  <2>3. CASE callers'[c].pc = "idle"
    BY <2>3 DEF CallFits, Progresses
  <2> QED BY <2>1, <2>2, <2>3
<1>4. \A a \in Assets : assets'[a].status = "deleted" => Steps \subseteq done'[a]
  BY DEF DeletionInv
<1>5. RecordedStepsHold'
  BY <1>2 DEF RecordedStepsHold
<1> QED BY <1>1, <1>3, <1>4, <1>5 DEF DeletionInv

-----------------------------------------------------------------------------
(* The steps of the workers *)

LEMMA NothingNewIf ==
    ASSUME strays \subseteq strays',
           \A a \in Assets \ strays' : Quiet(a) =>
               /\ files'[a] \subseteq files[a]
               /\ \A j \in Jobs : AssetOf[j] = a =>
                      \A g \in Segments : docs[j][g] = 0 => docs'[j][g] = 0
    PROVE  NothingNew
BY DEF NothingNew, Emptied, NoDocuments

LEMMA WorkerInvStays ==
    ASSUME DeletionInv, Good', Undisturbed, NothingNew, UNCHANGED <<callers, done, stepOf>>,
           files' \in [Assets -> SUBSET FileParts], strays' \subseteq Assets
    PROVE  DeletionInv'
<1>1. DeletionRowsOK'
  BY DEF DeletionInv, DeletionRowsOK
<1> QED BY <1>1, InvStays DEF Undisturbed

\* A coroutine erases documents, or sends updates that are not visible yet.
LEMMA SlotStepErases ==
    ASSUME Good, NEW s \in Slots, Claims(s) \/ Advances(s) \/ Renews(s) \/ Fails(s)
    PROVE  \A j \in Jobs, g \in Segments : docs[j][g] = 0 => docs'[j][g] = 0
<1>1. \A h : \A j \in Jobs, g \in Segments : docs[j][g] = 0 => ErasedDocs(h)[j][g] = 0
  <2> SUFFICES ASSUME NEW h, NEW j \in Jobs, NEW g \in Segments, docs[j][g] = 0
               PROVE  ErasedDocs(h)[j][g] = 0
    OBVIOUS
  <2>1. docs \in [Jobs -> [Segments -> Nat]]
    BY DEF Good, TypeOK
  <2> QED BY <2>1 DEF ErasedDocs
<1>2. docs' = docs \/ docs' = ErasedDocs(slots[s].h)
  BY SlotIndexCases DEF Project, RollBack, CleanUp
<1> QED BY <1>1, <1>2

LEMMA SlotStepKeeps ==
    ASSUME DeletionInv, NEW s \in Slots, SlotStep(s)
    PROVE  DeletionInv'
<1>1. UNCHANGED deletion /\ (Claims(s) \/ Advances(s) \/ Renews(s) \/ Fails(s))
  BY DEF SlotStep, SlotAdvances
<1>2. [Next]_vars /\ Good
  BY <1>1 DEF Next, DeletionInv
<1>3. Good' /\ Undisturbed
  BY <1>2, StepKeepsTypes, WorkerUndisturbed
<1>4. UNCHANGED <<callers, done, stepOf, files, strays>>
  BY <1>1 DEF deletion
<1>5. NothingNew
  BY <1>1, <1>2, <1>4, SlotStepErases, NothingNewIf
<1> QED BY <1>3, <1>4, <1>5, WorkerInvStays DEF DeletionInv, DeletionRowsOK

\* Who writes for a quiet asset has no lease.
LEMMA QuietStrays ==
    ASSUME NEW j \in Jobs, Strays(j)
    PROVE  strays \subseteq strays' /\ (Quiet(AssetOf[j]) => AssetOf[j] \in strays')
BY DEF Strays, Quiet, Holds

LEMMA WriteFilesKeeps ==
    ASSUME DeletionInv, NEW s \in Slots, WriteFiles(s)
    PROVE  DeletionInv'
<1> DEFINE j == slots[s].h.job
           a == AssetOf[j]
<1>1. /\ files' = [files EXCEPT ![a] = @ \cup {"derived"}] /\ Strays(j)
      /\ UNCHANGED <<vars, callers, done, stepOf>>
  BY DEF WriteFiles
<1>2. j \in Jobs /\ a \in Assets
  BY SlotFacts, JobsAssumption DEF DeletionInv, WriteFiles, Working, Handle
<1>3. Good' /\ Undisturbed /\ docs' = docs
  BY <1>1, StepKeepsTypes, WorkerUndisturbed DEF DeletionInv, vars
<1>4. /\ files' \in [Assets -> SUBSET FileParts]
      /\ \A b \in Assets \ {a} : files'[b] = files[b]
  BY <1>1, <1>2 DEF DeletionInv, DeletionRowsOK, FileParts
<1>5. strays' \subseteq Assets
  BY <1>1, <1>2 DEF DeletionInv, DeletionRowsOK, Strays
<1> HIDE DEF j
<1>6. NothingNew
  BY <1>1, <1>2, <1>3, <1>4, QuietStrays, NothingNewIf
<1> QED BY <1>1, <1>3, <1>4, <1>5, <1>6, WorkerInvStays

LEMMA SourceIsMissingKeeps ==
    ASSUME DeletionInv, NEW s \in Slots, SourceIsMissing(s)
    PROVE  DeletionInv'
<1>1. /\ slots[s].pc = "stage" /\ Unwind(s, "fail")
      /\ UNCHANGED <<tables, index, faults, deletion>>
  BY DEF SourceIsMissing, AtFirstStage
<1>2. Good /\ faults' \in 0..MaxFaults
  BY <1>1 DEF DeletionInv, Good, TypeOK
<1>3. Good'
  BY <1>1, <1>2, UnwindMoves, SlotStepIsQuiet, QuietKeepsTypes DEF Good, Working
<1>4. Undisturbed
  BY <1>1, RowsRestUndisturbed DEF tables
<1>5. UNCHANGED <<callers, done, stepOf, files, strays, docs>>
  BY <1>1 DEF deletion, index
<1>6. NothingNew
  BY <1>5, NothingNewIf
<1> QED BY <1>3, <1>4, <1>5, <1>6, WorkerInvStays DEF DeletionInv, DeletionRowsOK

LEMMA WorkerStepKeeps ==
    ASSUME DeletionInv, WorkerStep
    PROVE  DeletionInv'
<1>1. [Next]_vars /\ UNCHANGED deletion
  BY DEF WorkerStep, Next
<1>2. docs' = docs
  BY DEF WorkerStep, NewRound, Interrupt, Crash, ApiCall, index
<1>3. Good' /\ Undisturbed
  BY <1>1, StepKeepsTypes, WorkerUndisturbed DEF DeletionInv
<1>4. UNCHANGED <<callers, done, stepOf, files, strays>>
  BY <1>1 DEF deletion
<1>5. NothingNew
  BY <1>2, <1>4, NothingNewIf
<1> QED BY <1>3, <1>4, <1>5, WorkerInvStays DEF DeletionInv, DeletionRowsOK

LEMMA IndexStepKeeps ==
    ASSUME DeletionInv, IndexStep
    PROVE  DeletionInv'
<1>1. PICK u \in flight : /\ ApplyUpdate(u) /\ Strays(u.job)
                          /\ UNCHANGED <<callers, done, stepOf, files>>
  BY DEF IndexStep
<1>2. u.job \in Jobs /\ AssetOf[u.job] \in Assets
  BY JobsAssumption DEF DeletionInv, Good, TypeOK, Update
<1>3. [Next]_vars
  BY <1>1 DEF Next
<1>4. Good' /\ Undisturbed
  BY <1>3, StepKeepsTypes, WorkerUndisturbed DEF DeletionInv
<1>5. \A k \in Jobs \ {u.job} : docs'[k] = docs[k]
  BY <1>1 DEF ApplyUpdate, DeletionInv, Good, TypeOK
<1>6. strays' \subseteq Assets
  BY <1>1, <1>2 DEF DeletionInv, DeletionRowsOK, Strays
<1>7. NothingNew
  <2>1. \A a \in Assets \ strays' : Quiet(a) => a # AssetOf[u.job]
    BY <1>1, <1>2, QuietStrays
  <2> QED BY <1>1, <1>2, <1>5, <2>1, QuietStrays, NothingNewIf
<1> QED BY <1>1, <1>4, <1>6, <1>7, WorkerInvStays DEF DeletionInv, DeletionRowsOK

-----------------------------------------------------------------------------
(* Steps beside the coroutines *)

LEMMA TablesKeepTypes ==
    ASSUME Good, TablesTypeOK', RowsKept, UNCHANGED <<slots, flight>>,
           docs' \in [Jobs -> [Segments -> Nat]], faults' \in 0..MaxFaults
    PROVE  Good'
BY DEF Good, TypeOK, RowsKept, RowsOK, SlotsOK

LEMMA NoTablesKeepTypes ==
    ASSUME Good, UNCHANGED <<tables, slots, flight>>,
           docs' \in [Jobs -> [Segments -> Nat]], faults' \in 0..MaxFaults
    PROVE  Good'
<1>1. TablesTypeOK' /\ RowsKept
  BY RowsStay DEF Good, TypeOK
<1> QED BY <1>1, TablesKeepTypes

LEMMA DeletionTickKeeps ==
    ASSUME DeletionInv, DeletionTick
    PROVE  DeletionInv'
<1>1. Good /\ TablesTypeOK /\ RowsOK /\ TablesTick
  BY DEF DeletionInv, Good, TypeOK, DeletionTick
<1>2. UNCHANGED <<docs, flight, slots, callers, done, files, strays>>
  BY DEF DeletionTick, index
<1>3. faults' \in 0..MaxFaults
  BY <1>1, FaultCounted DEF DeletionTick, Good, TypeOK
<1>4. Good'
  BY <1>1, <1>2, <1>3, TickType, TickRows, TablesKeepTypes DEF Good, TypeOK
<1>5. Undisturbed
  <2>1. 0 \in Lags
    BY TimeAssumption
  <2> QED BY <1>1, <2>1, SweepUndisturbed
<1>6. NothingNew
  BY <1>2, NothingNewIf
<1>7. DeletionRowsOK'
  <2>1. \A claim \in ClaimRow : Lowers(claim) \in ClaimRow
    <3> SUFFICES ASSUME NEW claim \in ClaimRow PROVE Lowers(claim) \in ClaimRow
      OBVIOUS
    <3>1. Lowered(claim.lease) \in (-MaxLag)..ClaimSeconds
      BY TimeAssumption, ClaimAssumption DEF Lowered, ClaimRow
    <3> QED BY <3>1 DEF Lowers, ClaimRow
  <2>2. Lowers(Unclaimed) = Unclaimed
    BY DEF Lowers, Unclaimed
  <2>3. stepOf' = [a \in Assets |-> [x \in Steps |-> Lowers(stepOf[a][x])]]
    BY DEF DeletionTick
  <2>4. stepOf' \in [Assets -> [Steps -> ClaimRow]]
    BY <2>1, <2>3 DEF DeletionInv, DeletionRowsOK
  <2> QED BY <1>2, <2>2, <2>3, <2>4 DEF DeletionInv, DeletionRowsOK
<1> QED BY <1>2, <1>4, <1>5, <1>6, <1>7, InvStays DEF Undisturbed

-----------------------------------------------------------------------------
(* The steps of requests that leave jobs, index and files alone *)

\* A request that is under way.
LEMMA CallFacts ==
    ASSUME DeletionInv, NEW c \in Callers, callers[c].pc # "idle"
    PROVE  /\ callers[c] \in Call /\ callers[c].asset \in Assets /\ StepAt(c) \in Steps
           /\ callers[c].at \in 1..4
           /\ Quiet(callers[c].asset) /\ CallFits(c)
BY ExternalFacts DEF DeletionInv, DeletionRowsOK, Call, UnderWay, StepAt

LEMMA CallInvStays ==
    ASSUME DeletionInv, UNCHANGED <<tables, slots, index, files, strays>>,
           faults' \in 0..MaxFaults, DeletionRowsOK',
           \A a \in Assets :
               /\ done[a] \subseteq done'[a]
               /\ done'[a] # done[a] => Quiet(a)
               /\ a \notin strays => \A x \in (done'[a] \ done[a]) \cap Steps : Emptied(a, x),
           \A c \in Callers :
               \/ callers'[c] \in {callers[c], IdleCall}
               \/ /\ callers[c].pc # "idle" /\ callers'[c].asset = callers[c].asset
                  /\ CallFits(c)'
    PROVE  DeletionInv'
<1>1. UNCHANGED <<jobs, assets, requests, docs, flight>>
  BY DEF tables, index
<1>2. Good'
  BY <1>1, NoTablesKeepTypes DEF DeletionInv, Good, TypeOK
<1>3. /\ \A a \in Assets : Quiet(a)' <=> Quiet(a)
      /\ \A a \in Assets, x \in Steps : Emptied(a, x)' <=> Emptied(a, x)
  BY <1>1 DEF Quiet, Emptied, NoDocuments
<1>4. NothingNew
  BY <1>1, NothingNewIf
<1>5. ASSUME NEW c \in Callers
      PROVE  \/ callers'[c] \in {callers[c], IdleCall}
             \/ Quiet(callers[c].asset)' /\ CallFits(c)'
  <2>1. CASE callers[c].pc # "idle" /\ callers'[c].asset = callers[c].asset /\ CallFits(c)'
    <3>1. callers[c].asset \in Assets /\ Quiet(callers[c].asset)
      BY <2>1, CallFacts
    <3> SUFFICES ASSUME NEW a \in Assets, a = callers[c].asset
                 PROVE  Quiet(callers[c].asset)'
      BY <2>1, <3>1
    <3>2. Quiet(a)' /\ callers'[c].asset = a
      BY <1>3, <2>1, <3>1
    <3> QED BY <3>2 DEF Quiet
  <2> QED BY <2>1
<1> QED BY <1>1, <1>2, <1>3, <1>4, <1>5, InvStays

LEMMA IdleCallType == IdleCall \in Call
BY CallersAssumption, ExternalFacts DEF IdleCall, Call

LEMMA UnclaimedType == Unclaimed \in ClaimRow
BY TimeAssumption, ClaimAssumption DEF Unclaimed, ClaimRow

LEMMA InvClaims ==
    ASSUME DeletionInv
    PROVE  ClaimsOK
BY DEF DeletionInv, DeletionRowsOK, CallFits, ClaimsOK

LEMMA CallEndsType ==
    ASSUME ClaimsOK, NEW c \in Callers, CallEnds(c)
    PROVE  /\ callers' \in [Callers -> Call]
           /\ \A e \in Callers : callers'[e] \in {callers[e], IdleCall}
BY IdleCallType DEF CallEnds, ClaimsOK

LEMMA CallGoesType ==
    ASSUME ClaimsOK, NEW c \in Callers,
           NEW pc \in {"operate", "record", "refused", "release"}, CallGoes(c, pc)
    PROVE  /\ callers' \in [Callers -> Call]
           /\ callers'[c].pc = pc /\ callers'[c].asset = callers[c].asset
           /\ callers'[c].at = callers[c].at
           /\ \A e \in Callers \ {c} : callers'[e] = callers[e]
BY DEF CallGoes, ClaimsOK, Call

\* A request whose step is recorded goes on to the next one, or to the end.
LEMMA NextStepFits ==
    ASSUME ClaimsOK, NEW c \in Callers, callers[c].pc # "idle", NextStep(c),
           done[callers[c].asset] \subseteq done'[callers[c].asset],
           StepAt(c) \in done'[callers[c].asset]
    PROVE  /\ callers' \in [Callers -> Call]
           /\ \A e \in Callers \ {c} : callers'[e] = callers[e]
           /\ callers'[c].pc \in {"step", "finalize"}
           /\ callers'[c].asset = callers[c].asset /\ CallFits(c)'
<1>1. /\ callers[c] \in Call /\ callers[c].at \in 1..4
      /\ \A i \in 1..(callers[c].at - 1) : External[i] \in done'[callers[c].asset]
  BY ExternalFacts DEF ClaimsOK, Progresses, Call
<1>2. \A i \in 1..callers[c].at : External[i] \in done'[callers[c].asset]
  BY <1>1 DEF StepAt
<1>3. CASE callers[c].at = 4
  <2>1. callers' = [callers EXCEPT ![c] = [callers[c] EXCEPT !.pc = "finalize"]]
    BY <1>3, ExternalFacts DEF NextStep
  <2>2. /\ callers' \in [Callers -> Call]
        /\ \A e \in Callers \ {c} : callers'[e] = callers[e]
        /\ callers'[c].asset = callers[c].asset /\ callers'[c].pc = "finalize"
        /\ callers'[c].at = callers[c].at
    BY <1>1, <2>1 DEF ClaimsOK, Call
  <2>3. Steps \subseteq done'[callers[c].asset]
    BY <1>2, <1>3, ExternalFacts
  <2> QED BY <1>1, <2>2, <2>3 DEF CallFits, Progresses
<1>4. CASE callers[c].at # 4
  <2>1. callers' = [callers EXCEPT ![c] =
                        [callers[c] EXCEPT !.pc = "step", !.at = callers[c].at + 1]]
    BY <1>4, ExternalFacts DEF NextStep
  <2>2. callers[c].at + 1 \in DOMAIN External
    BY <1>1, <1>4, ExternalFacts
  <2>3. /\ callers' \in [Callers -> Call]
        /\ \A e \in Callers \ {c} : callers'[e] = callers[e]
        /\ callers'[c].asset = callers[c].asset /\ callers'[c].pc = "step"
        /\ callers'[c].at = callers[c].at + 1
    BY <1>1, <2>1, <2>2 DEF ClaimsOK, Call
  <2> QED BY <1>1, <1>2, <2>3 DEF CallFits, Progresses
<1> QED BY <1>3, <1>4

LEMMA CallStopsKeeps ==
    ASSUME DeletionInv, CrashApi \/ \E c \in Callers : CallDies(c) \/ OperateFails(c)
    PROVE  DeletionInv'
<1>1. /\ UNCHANGED <<tables, slots, index, done, stepOf, files, strays>>
      /\ faults' \in 0..MaxFaults
  BY FaultCounted DEF CrashApi, CallDies, OperateFails, DeletionInv, Good
<1>2. CASE CrashApi
  <2>1. callers' = [c \in Callers |-> IdleCall]
    BY <1>2 DEF CrashApi
  <2>2. DeletionRowsOK'
    BY <1>1, <2>1, IdleCallType DEF DeletionInv, DeletionRowsOK
  <2> QED BY <1>1, <2>1, <2>2, CallInvStays
<1>3. ASSUME NEW c \in Callers, CallDies(c)
      PROVE  DeletionInv'
  <2>1. CallEnds(c)
    BY <1>3 DEF CallDies
  <2>2. DeletionRowsOK'
    BY <1>1, <2>1, InvClaims, CallEndsType DEF DeletionInv, DeletionRowsOK
  <2> QED BY <1>1, <2>1, <2>2, InvClaims, CallEndsType, CallInvStays
<1>4. ASSUME NEW c \in Callers, OperateFails(c)
      PROVE  DeletionInv'
  <2>1. callers[c].pc = "operate" /\ CallGoes(c, "release")
    BY <1>4 DEF OperateFails
  <2>2. DeletionRowsOK'
    BY <1>1, <2>1, InvClaims, CallGoesType DEF DeletionInv, DeletionRowsOK
  <2>3. CallFits(c)'
    BY <1>1, <2>1, InvClaims, CallGoesType, CallFacts DEF CallFits, Progresses
  <2> QED BY <1>1, <2>1, <2>2, <2>3, InvClaims, CallGoesType, CallInvStays
<1> QED BY <1>2, <1>3, <1>4

LEMMA LookAgainKeeps ==
    ASSUME DeletionInv, NEW c \in Callers, LookAgain(c)
    PROVE  DeletionInv'
<1>1. /\ callers[c].pc = "refused"
      /\ UNCHANGED <<tables, slots, index, faults, done, stepOf, files, strays>>
  BY DEF LookAgain, vars, index
<1>2. faults' \in 0..MaxFaults
  BY <1>1 DEF DeletionInv, Good, TypeOK
<1>3. CASE StepAt(c) \in done[callers[c].asset] /\ NextStep(c)
  <2>1. DeletionRowsOK'
    BY <1>1, <1>3, InvClaims, NextStepFits DEF DeletionInv, DeletionRowsOK
  <2> QED BY <1>1, <1>2, <1>3, <2>1, InvClaims, NextStepFits, CallInvStays
<1>4. CASE CallEnds(c)
  <2>1. DeletionRowsOK'
    BY <1>1, <1>4, InvClaims, CallEndsType DEF DeletionInv, DeletionRowsOK
  <2> QED BY <1>1, <1>2, <1>4, <2>1, InvClaims, CallEndsType, CallInvStays
<1> QED BY <1>3, <1>4 DEF LookAgain

LEMMA ClaimStepKeeps ==
    ASSUME DeletionInv, NEW c \in Callers, NEW d \in Lags, ClaimStep(c, d)
    PROVE  DeletionInv'
<1> DEFINE a == callers[c].asset
           x == StepAt(c)
<1>1. /\ callers[c].pc = "step"
      /\ UNCHANGED <<tables, slots, index, faults, done, files, strays>>
  BY DEF ClaimStep, vars, index
<1>2. faults' \in 0..MaxFaults
  BY <1>1 DEF DeletionInv, Good, TypeOK
<1>3. CASE x \in done[a] /\ NextStep(c) /\ UNCHANGED stepOf
  <2>1. DeletionRowsOK'
    BY <1>1, <1>3, InvClaims, NextStepFits DEF DeletionInv, DeletionRowsOK
  <2> QED BY <1>1, <1>2, <1>3, <2>1, InvClaims, NextStepFits, CallInvStays
<1>4. ASSUME NEW pc \in {"operate", "refused"}, CallGoes(c, pc),
             stepOf' \in [Assets -> [Steps -> ClaimRow]],
             \A b \in Assets, y \in Steps : y \in done[b] => stepOf'[b][y] = stepOf[b][y]
      PROVE  DeletionInv'
  <2>1. DeletionRowsOK'
    BY <1>1, <1>4, InvClaims, CallGoesType DEF DeletionInv, DeletionRowsOK
  <2>2. CallFits(c)'
    BY <1>1, <1>4, InvClaims, CallGoesType, CallFacts DEF CallFits, Progresses
  <2> QED BY <1>1, <1>2, <1>4, <2>1, <2>2, InvClaims, CallGoesType, CallInvStays
<1>5. CASE /\ x \notin done[a] /\ CallGoes(c, "operate")
           /\ stepOf' = [stepOf EXCEPT ![a][x] = [owner |-> c, lease |-> ClaimSeconds - d]]
  <2>1. [owner |-> c, lease |-> ClaimSeconds - d] \in ClaimRow
    BY TimeAssumption, ClaimAssumption DEF ClaimRow
  <2>2. a \in Assets /\ x \in Steps
    BY <1>1, CallFacts
  <2> HIDE DEF a, x
  <2>3. /\ stepOf' \in [Assets -> [Steps -> ClaimRow]]
        /\ \A b \in Assets, y \in Steps : y \in done[b] => stepOf'[b][y] = stepOf[b][y]
    BY <1>5, <2>1, <2>2 DEF DeletionInv, DeletionRowsOK
  <2> QED BY <1>4, <1>5, <2>3
<1>6. CASE CallGoes(c, "refused") /\ UNCHANGED stepOf
  BY <1>4, <1>6 DEF DeletionInv, DeletionRowsOK
<1> QED BY <1>3, <1>5, <1>6 DEF ClaimStep

LEMMA ReleaseStepKeeps ==
    ASSUME DeletionInv, NEW c \in Callers, Release(c)
    PROVE  DeletionInv'
<1>1. /\ callers[c].pc = "release" /\ CallEnds(c)
      /\ UNCHANGED <<tables, slots, index, faults, done, files, strays>>
  BY DEF Release, vars, index
<1>2. faults' \in 0..MaxFaults
  BY <1>1 DEF DeletionInv, Good, TypeOK
<1>3. /\ stepOf' \in [Assets -> [Steps -> ClaimRow]]
      /\ \A a \in Assets, x \in Steps : stepOf'[a][x] \in {stepOf[a][x], Unclaimed}
  <2> DEFINE b == callers[c].asset
             y == StepAt(c)
  <2>1. b \in Assets /\ y \in Steps
    BY <1>1, CallFacts
  <2>2. stepOf' = stepOf \/ stepOf' = [stepOf EXCEPT ![b][y] = Unclaimed]
    BY DEF Release
  <2>3. stepOf \in [Assets -> [Steps -> ClaimRow]]
    BY DEF DeletionInv, DeletionRowsOK
  <2> HIDE DEF b, y
  <2>4. CASE stepOf' = [stepOf EXCEPT ![b][y] = Unclaimed]
    BY <2>1, <2>3, <2>4, UnclaimedType
  <2> QED BY <2>2, <2>3, <2>4
<1>4. DeletionRowsOK'
  BY <1>1, <1>3, InvClaims, CallEndsType DEF DeletionInv, DeletionRowsOK
<1> QED BY <1>1, <1>2, <1>4, InvClaims, CallEndsType, CallInvStays

\* What a request records it has done itself, and nothing came back since.
LEMMA RecordKeeps ==
    ASSUME DeletionInv, NEW c \in Callers, Record(c)
    PROVE  DeletionInv'
<1> DEFINE a == callers[c].asset
           x == StepAt(c)
<1>1. /\ callers[c].pc = "record"
      /\ UNCHANGED <<tables, slots, index, faults, files, strays>>
  BY DEF Record, vars, index
<1>2. faults' \in 0..MaxFaults
  BY <1>1 DEF DeletionInv, Good, TypeOK
<1>3. /\ a \in Assets /\ x \in Steps /\ Quiet(a)
      /\ a \notin strays => Emptied(a, x)
  BY <1>1, CallFacts DEF CallFits, Progresses
<1>4. CASE CallEnds(c) /\ UNCHANGED <<done, stepOf>>
  <2>1. DeletionRowsOK'
    BY <1>1, <1>4, InvClaims, CallEndsType DEF DeletionInv, DeletionRowsOK
  <2> QED BY <1>1, <1>2, <1>4, <2>1, InvClaims, CallEndsType, CallInvStays
<1>5. CASE /\ done' = [done EXCEPT ![a] = @ \cup {x}]
           /\ stepOf' = [stepOf EXCEPT ![a][x] = Unclaimed]
           /\ NextStep(c)
  <2>1. Unclaimed \in ClaimRow
    BY UnclaimedType
  <2>2. /\ callers \in [Callers -> Call]
        /\ done \in [Assets -> SUBSET (Steps \cup {"sqlite"})]
        /\ stepOf \in [Assets -> [Steps -> ClaimRow]]
        /\ \A b \in Assets, y \in Steps : y \in done[b] => stepOf[b][y] = Unclaimed
    BY DEF DeletionInv, DeletionRowsOK
  <2>3. /\ done[a] \subseteq done'[a] /\ x \in done'[a]
        /\ \A b \in Assets : done'[b] \ done[b] \subseteq IF b = a THEN {x} ELSE {}
        /\ \A b \in Assets \ {a} : done'[b] = done[b]
        /\ done' \in [Assets -> SUBSET (Steps \cup {"sqlite"})]
    <3> HIDE DEF a, x
    <3> QED BY <1>3, <1>5, <2>2
  <2>4. /\ stepOf' \in [Assets -> [Steps -> ClaimRow]]
        /\ \A b \in Assets, y \in Steps : y \in done'[b] => stepOf'[b][y] = Unclaimed
    <3> HIDE DEF a, x
    <3> QED BY <1>3, <1>5, <2>1, <2>2
  <2>5. /\ callers' \in [Callers -> Call]
        /\ \A e \in Callers \ {c} : callers'[e] = callers[e]
        /\ callers'[c].asset = a /\ CallFits(c)'
    BY <1>1, <1>5, <2>3, InvClaims, NextStepFits
  <2>6. DeletionRowsOK'
    BY <1>1, <2>3, <2>4, <2>5 DEF DeletionInv, DeletionRowsOK
  <2>7. \A b \in Assets :
            /\ done[b] \subseteq done'[b]
            /\ done'[b] # done[b] => Quiet(b)
            /\ b \notin strays => \A y \in (done'[b] \ done[b]) \cap Steps : Emptied(b, y)
    <3> HIDE DEF a, x
    <3> QED BY <1>3, <2>3
  <2>8. \A e \in Callers :
            \/ callers'[e] \in {callers[e], IdleCall}
            \/ /\ callers[e].pc # "idle" /\ callers'[e].asset = callers[e].asset
               /\ CallFits(e)'
    BY <1>1, <2>5
  <2> HIDE DEF a, x
  <2> QED BY <1>1, <1>2, <2>6, <2>7, <2>8, CallInvStays
<1> QED BY <1>4, <1>5 DEF Record

-----------------------------------------------------------------------------
(* The steps of requests that take something away *)

LEMMA OperateKeeps ==
    ASSUME DeletionInv, NEW c \in Callers, Operate(c)
    PROVE  DeletionInv'
<1> SUFFICES ASSUME NEW a \in Assets, a = callers[c].asset,
                    NEW x \in Steps, x = StepAt(c)
             PROVE  DeletionInv'
  BY CallFacts DEF Operate
<1>1. /\ callers[c].pc = "operate" /\ CallGoes(c, "record")
      /\ UNCHANGED <<tables, slots, flight, faults, done, stepOf, strays>>
      /\ IF x = "projection"
         THEN /\ docs' = [j \in Jobs |-> IF AssetOf[j] = a
                                         THEN [g \in Segments |-> 0] ELSE docs[j]]
              /\ files' = files
         ELSE files' = [files EXCEPT ![a] = @ \ {x}] /\ docs' = docs
  BY DEF Operate
<1>2. /\ docs \in [Jobs -> [Segments -> Nat]] /\ faults \in 0..MaxFaults
      /\ files \in [Assets -> SUBSET FileParts]
  BY DEF DeletionInv, Good, TypeOK, DeletionRowsOK
<1>3. docs' \in [Jobs -> [Segments -> Nat]] /\ files' \in [Assets -> SUBSET FileParts]
  BY <1>1, <1>2
<1>4. /\ \A j \in Jobs, g \in Segments : docs[j][g] = 0 => docs'[j][g] = 0
      /\ \A b \in Assets : files'[b] \subseteq files[b]
  BY <1>1, <1>2
<1>5. Good' /\ NothingNew
  BY <1>1, <1>2, <1>3, <1>4, NoTablesKeepTypes, NothingNewIf DEF DeletionInv
<1>6. Undisturbed
  BY <1>1, RowsRestUndisturbed DEF tables
<1>7. DeletionRowsOK'
  BY <1>1, <1>3, InvClaims, CallGoesType DEF DeletionInv, DeletionRowsOK
<1>8. Emptied(a, x)'
  BY <1>1, <1>2 DEF Emptied, NoDocuments
<1>9. Quiet(callers[c].asset)' /\ CallFits(c)'
  <2>1. /\ callers'[c].asset = a /\ callers'[c].pc = "record" /\ callers'[c].at = callers[c].at
        /\ StepAt(c)' = x
    BY <1>1, InvClaims, CallGoesType DEF StepAt
  <2>2. Quiet(a)' /\ CallFits(c)
    BY <1>1, <1>6, CallFacts DEF Undisturbed
  <2>3. Quiet(callers[c].asset)'
    BY <2>1, <2>2 DEF Quiet
  <2> QED BY <1>1, <1>8, <2>1, <2>2, <2>3 DEF CallFits, Progresses
<1>10. \A e \in Callers : \/ callers'[e] \in {callers[e], IdleCall}
                          \/ Quiet(callers[e].asset)' /\ CallFits(e)'
  BY <1>1, <1>9, InvClaims, CallGoesType
<1> QED BY <1>1, <1>5, <1>6, <1>7, <1>10, InvStays DEF Undisturbed

LEMMA FinalizeKeeps ==
    ASSUME DeletionInv, NEW c \in Callers, Finalize(c)
    PROVE  DeletionInv'
<1> SUFFICES ASSUME NEW a \in Assets, a = callers[c].asset
             PROVE  DeletionInv'
  BY CallFacts DEF Finalize
<1>1. /\ callers[c].pc = "finalize" /\ CallEnds(c)
      /\ UNCHANGED <<slots, index, faults, files, strays>>
  BY DEF Finalize
<1>2. /\ TablesTypeOK /\ RowsOK /\ docs \in [Jobs -> [Segments -> Nat]]
      /\ faults \in 0..MaxFaults /\ DeletionRowsOK
  BY DEF DeletionInv, Good, TypeOK
<1>3. Steps \subseteq done[a] /\ Quiet(a)
  BY <1>1, CallFacts DEF CallFits, Progresses
<1>4. CASE UNCHANGED <<tables, stepOf, done>>
  <2>1. DeletionRowsOK'
    BY <1>1, <1>2, <1>4, InvClaims, CallEndsType DEF DeletionRowsOK
  <2> QED BY <1>1, <1>2, <1>4, <2>1, InvClaims, CallEndsType, CallInvStays
<1>5. CASE /\ FinalizeAssetDeletion(a)
           /\ stepOf' = [stepOf EXCEPT ![a] = [x \in Steps |-> Unclaimed]]
           /\ done' = [done EXCEPT ![a] = @ \cup {"sqlite"}]
  <2>1. TablesTypeOK' /\ RowsKept
    BY <1>2, <1>5, DeletionType, DeletionRows
  <2>2. Good'
    BY <1>1, <1>2, <2>1, TablesKeepTypes DEF DeletionInv, index
  <2>3. NothingNew
    BY <1>1, NothingNewIf DEF index
  <2>4. /\ jobs' = [j \in Jobs |-> IF AssetOf[j] = a THEN AbsentJob ELSE jobs[j]]
        /\ assets' = [assets EXCEPT ![a] = [status |-> "deleted", current |-> NoJob]]
        /\ requests' = requests \ {a}
    BY <1>5 DEF FinalizeAssetDeletion
  <2>5. Quiet(a)'
    BY <1>2, <2>4 DEF Quiet, TablesTypeOK, AbsentJob
  <2>6. \A b \in Assets : /\ Quiet(b) => Quiet(b)'
                          /\ assets'[b].status = "deleted" => assets[b].status = "deleted" \/ b = a
    <3>1. ASSUME NEW b \in Assets, b # a
          PROVE  /\ \A j \in Jobs : AssetOf[j] = b => jobs'[j] = jobs[j]
                 /\ assets'[b] = assets[b]
                 /\ b \in requests => b \in requests'
      BY <1>2, <2>4, <3>1 DEF TablesTypeOK
    <3>2. ASSUME NEW b \in Assets, b # a, Quiet(b)
          PROVE  Quiet(b)'
      BY <3>1, <3>2 DEF Quiet
    <3> QED BY <2>5, <3>1, <3>2
  <2>7. /\ done' \in [Assets -> SUBSET (Steps \cup {"sqlite"})]
        /\ done'[a] = done[a] \cup {"sqlite"}
        /\ \A b \in Assets \ {a} : done'[b] = done[b]
    BY <1>2, <1>5 DEF DeletionRowsOK
  <2>8. /\ stepOf' \in [Assets -> [Steps -> ClaimRow]]
        /\ \A b \in Assets, x \in Steps : stepOf'[b][x] \in {stepOf[b][x], Unclaimed}
        /\ \A x \in Steps : stepOf'[a][x] = Unclaimed
    BY <1>2, <1>5, UnclaimedType DEF DeletionRowsOK
  <2>9. DeletionRowsOK'
    <3>1. ASSUME NEW b \in Assets, NEW x \in Steps, x \in done'[b]
          PROVE  stepOf'[b][x] = Unclaimed
      <4>1. CASE b # a
        BY <1>2, <2>7, <2>8, <3>1, <4>1 DEF DeletionRowsOK
      <4> QED BY <2>8, <4>1
    <3>2. callers' \in [Callers -> Call] /\ UNCHANGED <<files, strays>>
      BY <1>1, InvClaims, CallEndsType
    <3> QED BY <1>2, <2>7, <2>8, <3>1, <3>2 DEF DeletionRowsOK
  <2>10. "sqlite" \notin Steps
    BY ExternalFacts
  <2>11. \A b \in Assets :
             /\ Quiet(b) => Quiet(b)'
             /\ assets'[b].status = "deleted" =>
                    assets[b].status = "deleted" \/ Steps \subseteq done'[b]
             /\ done[b] \subseteq done'[b]
             /\ done'[b] # done[b] => Quiet(b)
             /\ (done'[b] \ done[b]) \cap Steps = {}
    BY <1>3, <2>6, <2>7, <2>10
  <2>12. \A b \in Assets :
             /\ Quiet(b) => Quiet(b)'
             /\ assets'[b].status = "deleted" =>
                    assets[b].status = "deleted" \/ Steps \subseteq done'[b]
             /\ done[b] \subseteq done'[b]
             /\ done'[b] # done[b] => Quiet(b)
             /\ b \notin strays' => \A x \in (done'[b] \ done[b]) \cap Steps : Emptied(b, x)'
    BY <2>11
  <2> QED BY <1>1, <2>2, <2>3, <2>9, <2>12, InvClaims, CallEndsType, InvStays
<1> QED BY <1>4, <1>5 DEF Finalize

\* prepare_asset_deletion stops every job of the asset, but for a running one,
\* for which the request waits outside.
LEMMA BeginDeleteKeeps ==
    ASSUME DeletionInv, ~EarlyDeletes,
           NEW c \in Callers, NEW a \in Assets, NEW d \in Lags, BeginDelete(c, a, d)
    PROVE  DeletionInv'
<1>1. /\ callers[c].pc = "idle" /\ assets[a].status # "uploading"
      /\ PrepareAssetDeletion(a, d)
      /\ UNCHANGED <<slots, index, faults, done, stepOf, files, strays, assets>>
  BY DEF BeginDelete, PrepareAssetDeletion
<1>2. /\ TablesTypeOK /\ RowsOK /\ docs \in [Jobs -> [Segments -> Nat]]
      /\ faults \in 0..MaxFaults /\ DeletionRowsOK
  BY DEF DeletionInv, Good, TypeOK
<1>3. TablesTypeOK' /\ RowsKept
  BY <1>1, <1>2, DeletionType, DeletionRows
<1>4. Good' /\ NothingNew
  BY <1>1, <1>2, <1>3, TablesKeepTypes, NothingNewIf DEF DeletionInv, index
<1>5. Undisturbed
  <2>1. \A j \in Jobs : jobs'[j] = jobs[j] \/ jobs'[j] = CancelRow(jobs[j], d)
    BY <1>1, <1>2 DEF PrepareAssetDeletion, TablesTypeOK
  <2>2. \A j \in Jobs : /\ CancelRow(jobs[j], d).status = "running" => jobs[j].status = "running"
                        /\ jobs[j].status = "absent" => CancelRow(jobs[j], d).status = "absent"
    BY <1>2, CancelRowFacts DEF TablesTypeOK, RowsOK, Pending
  <2>3. assets' = assets /\ requests \subseteq requests'
    BY <1>1 DEF PrepareAssetDeletion
  <2> QED BY <2>1, <2>2, <2>3, RowsRestUndisturbed
<1>6. CASE UNCHANGED callers
  <2>1. DeletionRowsOK'
    BY <1>1, <1>2, <1>6 DEF DeletionRowsOK
  <2> QED BY <1>1, <1>4, <1>5, <1>6, <2>1, InvStays DEF Undisturbed
<1>7. CASE /\ assets[a].status # "deleted" /\ ~HasRunningJob(a, jobs')
           /\ callers' = [callers EXCEPT ![c] = [pc |-> "step", asset |-> a, at |-> 1]]
  <2>1. [pc |-> "step", asset |-> a, at |-> 1] \in Call
    BY ExternalFacts DEF Call
  <2>2. /\ callers' \in [Callers -> Call]
        /\ \A e \in Callers \ {c} : callers'[e] = callers[e]
        /\ callers'[c] = [pc |-> "step", asset |-> a, at |-> 1]
    BY <1>2, <1>7, <2>1 DEF DeletionRowsOK
  <2>3. DeletionRowsOK'
    BY <1>1, <1>2, <2>2 DEF DeletionRowsOK
  <2>4. a \in requests' /\ \A j \in Jobs : AssetOf[j] = a => jobs'[j].status # "running"
    BY <1>1, <1>7 DEF PrepareAssetDeletion, DeletionSkipsRequest, HasRunningJob
  <2>5. Quiet(callers[c].asset)' /\ CallFits(c)'
    BY <2>2, <2>4 DEF Quiet, CallFits, Progresses
  <2>6. \A e \in Callers : \/ callers'[e] \in {callers[e], IdleCall}
                           \/ Quiet(callers[e].asset)' /\ CallFits(e)'
    BY <2>2, <2>5
  <2> QED BY <1>1, <1>4, <1>5, <2>3, <2>6, InvStays DEF Undisturbed
<1> QED BY <1>6, <1>7 DEF BeginDelete

-----------------------------------------------------------------------------
(* The theorem *)

LEMMA DeletionInvInductive ==
    ASSUME ~EarlyDeletes
    PROVE  DeletionSpec => []DeletionInv
<1>1. DeletionInit => DeletionInv
  <2> SUFFICES ASSUME DeletionInit PROVE DeletionInv
    OBVIOUS
  <2>1. Good
    BY InitIsGood DEF DeletionInit
  <2>2. DeletionRowsOK
    BY IdleCallType, UnclaimedType DEF DeletionInit, DeletionRowsOK, FileParts
  <2>3. RecordedStepsHold /\ \A a \in Assets : ~UnderWay(a)
    BY DEF DeletionInit, RecordedStepsHold, UnderWay, IdleCall
  <2>4. \A a \in Assets : assets[a].status # "deleted"
    BY DEF DeletionInit, Init, TablesInit
  <2>5. \A c \in Callers : CallFits(c)
    BY DEF DeletionInit, CallFits, Progresses, IdleCall
  <2> QED BY <2>1, <2>2, <2>3, <2>4, <2>5 DEF DeletionInv
<1>2. DeletionInv /\ [DeletionNext]_deletionVars => DeletionInv'
  <2> SUFFICES ASSUME DeletionInv, [DeletionNext]_deletionVars PROVE DeletionInv'
    OBVIOUS
  <2>1. ASSUME NEW s \in Slots, SlotStep(s) \/ WriteFiles(s) \/ SourceIsMissing(s)
        PROVE  DeletionInv'
    BY <2>1, SlotStepKeeps, WriteFilesKeeps, SourceIsMissingKeeps
  <2>2. CASE WorkerStep \/ IndexStep \/ DeletionTick \/ CrashApi
    BY <2>2, WorkerStepKeeps, IndexStepKeeps, DeletionTickKeeps, CallStopsKeeps
  <2>3. ASSUME NEW c \in Callers, CallStep(c) \/ OperateFails(c) \/ CallDies(c)
        PROVE  DeletionInv'
    BY <2>3, LookAgainKeeps, OperateKeeps, ReleaseStepKeeps, RecordKeeps, FinalizeKeeps,
       ClaimStepKeeps, CallStopsKeeps DEF CallStep
  <2>4. ASSUME NEW c \in Callers, NEW a \in Assets, NEW d \in Lags, BeginDelete(c, a, d)
        PROVE  DeletionInv'
    BY <2>4, BeginDeleteKeeps
  <2>5. CASE UNCHANGED deletionVars
    <3>1. /\ UNCHANGED <<tables, slots, index, faults, callers, done, stepOf, files, strays>>
          /\ faults' \in 0..MaxFaults
      BY <2>5 DEF deletionVars, deletion, vars, index, DeletionInv, Good, TypeOK
    <3>2. DeletionRowsOK'
      BY <3>1 DEF DeletionInv, DeletionRowsOK
    <3> QED BY <3>1, <3>2, CallInvStays
  <2> QED BY <2>1, <2>2, <2>3, <2>4, <2>5 DEF DeletionNext
<1> QED BY <1>1, <1>2, PTL DEF DeletionSpec

\* DeletionService.delete: any number of requests for any assets, which overlap,
\* die and resume each other beside working, crashing and late workers, delete
\* everything they record, before the asset is shown as deleted, and no job of
\* the asset runs meanwhile; clients delete assets whose upload is complete.
THEOREM DeletionsAreSound ==
    ASSUME ~EarlyDeletes
    PROVE  DeletionSpec => []DeletionIsSound
<1>1. DeletionInv => DeletionIsSound
  <2> SUFFICES ASSUME DeletionInv PROVE DeletionIsSound
    OBVIOUS
  <2>1. DeletionTypeOK
    BY DEF DeletionInv, DeletionRowsOK, DeletionTypeOK, Good, ClaimRow
  <2>2. DeletedAssetsLeaveNothing
    BY DEF DeletionInv, DeletedAssetsLeaveNothing, RecordedStepsHold
  <2>3. DeletersRunAlone
    <3>1. \A a \in Assets : Quiet(a) => ~HasRunningJob(a, jobs)
      BY DEF Quiet, HasRunningJob
    <3> QED BY <3>1, CallFacts DEF DeletersRunAlone
  <2> QED BY <2>1, <2>2, <2>3 DEF DeletionIsSound, DeletionInv
<1> QED BY <1>1, DeletionInvInductive, PTL

-----------------------------------------------------------------------------
(* Step claims, whatever clients delete and when *)

ClaimKept ==
    \A a \in Assets, x \in Steps : LET c == stepOf[a][x].owner IN
        c # NoCaller /\ stepOf[a][x].lease > 0 =>
            \/ stepOf'[a][x].owner = c
            \/ callers'[c] # callers[c]

LEMMA ClaimsStay ==
    ASSUME ClaimsOK, callers' \in [Callers -> Call],
           done' \in [Assets -> SUBSET (Steps \cup {"sqlite"})],
           stepOf' \in [Assets -> [Steps -> ClaimRow]],
           \A a \in Assets, x \in Steps : x \in done'[a] => stepOf'[a][x] = Unclaimed,
           \A a \in Assets : done[a] \subseteq done'[a],
           \A c \in Callers : callers'[c] \in {callers[c], IdleCall} \/ Progresses(c)'
    PROVE  ClaimsOK'
<1>1. ASSUME NEW c \in Callers
      PROVE  Progresses(c)'
  <2>1. CASE callers'[c] = IdleCall
    BY <2>1 DEF IdleCall, Progresses
  <2>2. CASE callers'[c] = callers[c]
    <3>1. Progresses(c) /\ callers[c].asset \in Assets
      BY DEF ClaimsOK, Call
    <3> QED BY <2>2, <3>1 DEF Progresses
  <2> QED BY <2>1, <2>2
<1> QED BY <1>1 DEF ClaimsOK

\* A step that only moves requests.
LEMMA CallsMoveKept ==
    ASSUME ClaimsOK, UNCHANGED <<done, stepOf>>, callers' \in [Callers -> Call],
           \A c \in Callers : callers'[c] \in {callers[c], IdleCall} \/ Progresses(c)'
    PROVE  ClaimsOK' /\ ClaimKept
<1>1. ClaimsOK'
  BY ClaimsStay DEF ClaimsOK
<1> QED BY <1>1 DEF ClaimKept

LEMMA CallEndsKept ==
    ASSUME ClaimsOK, NEW c \in Callers, CallEnds(c), UNCHANGED <<done, stepOf>>
    PROVE  ClaimsOK' /\ ClaimKept
BY CallEndsType, CallsMoveKept

LEMMA CallGoesFits ==
    ASSUME ClaimsOK, NEW c \in Callers, callers[c].pc # "idle", done' = done,
           NEW pc \in {"operate", "record", "refused", "release"}, CallGoes(c, pc)
    PROVE  \A e \in Callers : callers'[e] = callers[e] \/ Progresses(e)'
<1>1. Progresses(c)'
  BY CallGoesType DEF ClaimsOK, Progresses
<1> QED BY <1>1, CallGoesType

LEMMA NextStepKept ==
    ASSUME ClaimsOK, NEW c \in Callers, callers[c].pc # "idle", NextStep(c),
           StepAt(c) \in done[callers[c].asset], UNCHANGED <<done, stepOf>>
    PROVE  ClaimsOK' /\ ClaimKept
BY NextStepFits, CallsMoveKept DEF CallFits

LEMMA BeginDeleteKept ==
    ASSUME ClaimsOK, NEW c \in Callers, NEW a \in Assets, NEW d \in Lags,
           BeginDelete(c, a, d)
    PROVE  ClaimsOK' /\ ClaimKept
<1>1. UNCHANGED <<done, stepOf>>
  BY DEF BeginDelete
<1>2. CASE callers' = callers
  BY <1>1, <1>2, CallsMoveKept DEF ClaimsOK
<1>3. CASE callers' = [callers EXCEPT ![c] = [pc |-> "step", asset |-> a, at |-> 1]]
  <2>1. [pc |-> "step", asset |-> a, at |-> 1] \in Call
    BY ExternalFacts DEF Call
  <2>2. /\ callers' \in [Callers -> Call]
        /\ \A e \in Callers \ {c} : callers'[e] = callers[e]
        /\ callers'[c] = [pc |-> "step", asset |-> a, at |-> 1]
    BY <1>3, <2>1 DEF ClaimsOK
  <2>3. Progresses(c)'
    BY <2>2 DEF Progresses
  <2> QED BY <1>1, <2>2, <2>3, CallsMoveKept
<1> QED BY <1>2, <1>3 DEF BeginDelete

\* The clock of a caller is at most MaxLag behind: a lease that has not expired
\* is not free for it.
LEMMA ClaimStepKept ==
    ASSUME ClaimsOK, NEW c \in Callers, NEW d \in Lags, ClaimStep(c, d)
    PROVE  ClaimsOK' /\ ClaimKept
<1> SUFFICES ASSUME NEW a, a = callers[c].asset, NEW x, x = StepAt(c)
             PROVE  ClaimsOK' /\ ClaimKept
  OBVIOUS
<1>1. callers[c].pc = "step" /\ done' = done /\ a \in Assets /\ x \in Steps
  BY ExternalFacts DEF ClaimStep, ClaimsOK, Call, StepAt
<1>2. CASE x \in done[a] /\ NextStep(c) /\ UNCHANGED stepOf
  BY <1>1, <1>2, NextStepKept
<1>3. CASE CallGoes(c, "refused") /\ UNCHANGED stepOf
  BY <1>1, <1>3, CallGoesType, CallGoesFits, CallsMoveKept
<1>4. CASE /\ x \notin done[a] /\ ClaimIsFree(c, d) /\ CallGoes(c, "operate")
           /\ stepOf' = [stepOf EXCEPT ![a][x] = [owner |-> c, lease |-> ClaimSeconds - d]]
  <2>1. [owner |-> c, lease |-> ClaimSeconds - d] \in ClaimRow
    BY TimeAssumption, ClaimAssumption DEF ClaimRow
  <2>2. /\ stepOf' \in [Assets -> [Steps -> ClaimRow]]
        /\ \A b \in Assets, y \in Steps : stepOf'[b][y] = stepOf[b][y] \/ (b = a /\ y = x)
        /\ stepOf'[a][x].owner = c
    BY <1>1, <1>4, <2>1 DEF ClaimsOK
  <2>3. \A b \in Assets, y \in Steps : y \in done'[b] => stepOf'[b][y] = Unclaimed
    BY <1>1, <1>4, <2>2 DEF ClaimsOK
  <2>4. ClaimsOK'
    BY <1>1, <1>4, <2>2, <2>3, CallGoesType, CallGoesFits, ClaimsStay DEF ClaimsOK
  <2>5. stepOf[a][x].owner \in {NoCaller, c} \/ ~(stepOf[a][x].lease > 0)
    BY <1>1, <1>4, TimeAssumption DEF ClaimIsFree, ClaimsOK, ClaimRow
  <2> QED BY <2>2, <2>4, <2>5 DEF ClaimKept
<1> QED BY <1>2, <1>3, <1>4 DEF ClaimStep

\* Who gives its claim up goes on or ends.
LEMMA GivesUpKept ==
    ASSUME ClaimsOK, NEW c \in Callers, Release(c) \/ Record(c)
    PROVE  ClaimsOK' /\ ClaimKept
<1> SUFFICES ASSUME NEW a, a = callers[c].asset, NEW x, x = StepAt(c)
             PROVE  ClaimsOK' /\ ClaimKept
  OBVIOUS
<1>1. callers[c].pc \in {"release", "record"} /\ a \in Assets /\ x \in Steps
  BY ExternalFacts DEF Release, Record, ClaimsOK, Call, StepAt
<1>2. CASE CallEnds(c) /\ UNCHANGED <<done, stepOf>>
  BY <1>2, CallEndsKept
<1>3. CASE /\ stepOf[a][x].owner = c /\ stepOf' = [stepOf EXCEPT ![a][x] = Unclaimed]
           /\ \/ callers[c].pc = "release" /\ CallEnds(c) /\ done' = done
              \/ /\ callers[c].pc = "record" /\ NextStep(c)
                 /\ done' = [done EXCEPT ![a] = @ \cup {x}]
  <2>1. /\ stepOf' \in [Assets -> [Steps -> ClaimRow]]
        /\ \A b \in Assets, y \in Steps : stepOf'[b][y] = stepOf[b][y] \/ (b = a /\ y = x)
        /\ stepOf'[a][x] = Unclaimed
    BY <1>1, <1>3, UnclaimedType DEF ClaimsOK
  <2>2. /\ done' \in [Assets -> SUBSET (Steps \cup {"sqlite"})]
        /\ \A b \in Assets : done[b] \subseteq done'[b]
        /\ \A b \in Assets, y \in Steps : y \in done'[b] => y \in done[b] \/ (b = a /\ y = x)
        /\ callers[c].pc = "record" => x \in done'[a]
    <3>1. /\ done \in [Assets -> SUBSET (Steps \cup {"sqlite"})]
          /\ \/ callers[c].pc = "release" /\ done' = done
             \/ done' = [done EXCEPT ![a] = @ \cup {x}]
      BY <1>3 DEF ClaimsOK
    <3> QED BY <1>1, <3>1
  <2>3. /\ callers' \in [Callers -> Call] /\ callers'[c] # callers[c]
        /\ \A e \in Callers : callers'[e] \in {callers[e], IdleCall} \/ Progresses(e)'
    <3>1. CASE callers[c].pc = "release" /\ CallEnds(c)
      <4>1. callers'[c].pc = "idle"
        BY <3>1 DEF CallEnds, ClaimsOK, IdleCall
      <4> QED BY <3>1, <4>1, CallEndsType
    <3>2. CASE callers[c].pc = "record" /\ NextStep(c)
      BY <1>1, <2>2, <3>2, NextStepFits DEF CallFits
    <3> QED BY <1>3, <3>1, <3>2
  <2>4. \A b \in Assets, y \in Steps : y \in done'[b] => stepOf'[b][y] = Unclaimed
    BY <2>1, <2>2 DEF ClaimsOK
  <2>5. ClaimsOK'
    BY <2>1, <2>2, <2>3, <2>4, ClaimsStay
  <2> QED BY <1>3, <2>1, <2>3, <2>5 DEF ClaimKept
<1> QED BY <1>2, <1>3 DEF Release, Record, Owns

\* finalize_asset_deletion drops the claims of the asset when none is left.
LEMMA FinalizeKept ==
    ASSUME ClaimsOK, NEW c \in Callers, Finalize(c)
    PROVE  ClaimsOK' /\ ClaimKept
<1> SUFFICES ASSUME NEW a, a = callers[c].asset
             PROVE  ClaimsOK' /\ ClaimKept
  OBVIOUS
<1>1. a \in Assets /\ CallEnds(c) /\ Steps \subseteq done[a]
  BY DEF Finalize, ClaimsOK, Call, Progresses
<1>2. CASE UNCHANGED <<done, stepOf>>
  BY <1>1, <1>2, CallEndsKept
<1>3. CASE /\ stepOf' = [stepOf EXCEPT ![a] = [x \in Steps |-> Unclaimed]]
           /\ done' = [done EXCEPT ![a] = @ \cup {"sqlite"}]
  <2>1. \A b \in Assets, x \in Steps : stepOf'[b][x] = stepOf[b][x]
    BY <1>1, <1>3 DEF ClaimsOK
  <2>2. stepOf' \in [Assets -> [Steps -> ClaimRow]]
    BY <1>1, <1>3, UnclaimedType DEF ClaimsOK
  <2>3. /\ done' \in [Assets -> SUBSET (Steps \cup {"sqlite"})]
        /\ \A b \in Assets : done[b] \subseteq done'[b]
        /\ \A b \in Assets, x \in Steps : x \in done'[b] => x \in done[b]
    BY <1>1, <1>3, ExternalFacts DEF ClaimsOK
  <2>4. ClaimsOK'
    BY <1>1, <2>1, <2>2, <2>3, CallEndsType, ClaimsStay DEF ClaimsOK
  <2> QED BY <2>1, <2>4 DEF ClaimKept
<1> QED BY <1>2, <1>3 DEF Finalize

\* Time takes a lease down and leaves the owner.
LEMMA TickKept ==
    ASSUME ClaimsOK, DeletionTick
    PROVE  ClaimsOK' /\ ClaimKept
<1>1. /\ UNCHANGED <<callers, done>>
      /\ stepOf' = [a \in Assets |-> [x \in Steps |-> Lowers(stepOf[a][x])]]
  BY DEF DeletionTick
<1>2. ASSUME NEW claim \in ClaimRow
      PROVE  Lowers(claim) \in ClaimRow /\ Lowers(claim).owner = claim.owner
  <2>1. Lowered(claim.lease) \in (-MaxLag)..ClaimSeconds
    BY TimeAssumption, ClaimAssumption DEF Lowered, ClaimRow
  <2> QED BY <2>1 DEF Lowers, ClaimRow
<1>3. Lowers(Unclaimed) = Unclaimed
  BY DEF Lowers, Unclaimed
<1>4. /\ stepOf' \in [Assets -> [Steps -> ClaimRow]]
      /\ \A a \in Assets, x \in Steps : /\ stepOf'[a][x].owner = stepOf[a][x].owner
                                        /\ x \in done'[a] => stepOf'[a][x] = Unclaimed
  BY <1>1, <1>2, <1>3 DEF ClaimsOK
<1>5. ClaimsOK'
  BY <1>1, <1>4, ClaimsStay DEF ClaimsOK
<1> QED BY <1>4, <1>5 DEF ClaimKept

\* A claim on a deletion step ends by its own request, by its death or by its
\* expiry: no other request takes it over or drops it.  This holds whenever
\* clients delete, uploads under way included.
THEOREM LiveClaimsAreKept == DeletionSpec => LiveClaimKept
<1>1. DeletionInit => ClaimsOK
  <2> SUFFICES ASSUME DeletionInit PROVE ClaimsOK
    OBVIOUS
  <2>1. \A c \in Callers : Progresses(c)
    BY DEF DeletionInit, Progresses, IdleCall
  <2> QED BY <2>1, IdleCallType, UnclaimedType DEF DeletionInit, ClaimsOK
<1>2. ClaimsOK /\ [DeletionNext]_deletionVars => ClaimsOK' /\ ClaimKept
  <2> SUFFICES ASSUME ClaimsOK, [DeletionNext]_deletionVars
               PROVE  ClaimsOK' /\ ClaimKept
    OBVIOUS
  <2>1. CASE UNCHANGED <<callers, done, stepOf>>
    BY <2>1, CallsMoveKept DEF ClaimsOK
  <2>2. ASSUME NEW s \in Slots, SlotStep(s) \/ WriteFiles(s) \/ SourceIsMissing(s)
        PROVE  UNCHANGED <<callers, done, stepOf>>
    BY <2>2 DEF SlotStep, SlotAdvances, WriteFiles, SourceIsMissing, deletion
  <2>3. ASSUME WorkerStep \/ IndexStep
        PROVE  UNCHANGED <<callers, done, stepOf>>
    BY <2>3 DEF WorkerStep, IndexStep, deletion
  <2>4. CASE CrashApi
    BY <2>4, IdleCallType, CallsMoveKept DEF CrashApi
  <2>5. ASSUME NEW c \in Callers, LookAgain(c) \/ Operate(c) \/ OperateFails(c) \/ CallDies(c)
        PROVE  ClaimsOK' /\ ClaimKept
    <3>1. CASE LookAgain(c) \/ CallDies(c)
      BY <3>1, NextStepKept, CallEndsKept DEF LookAgain, CallDies
    <3>2. CASE Operate(c) \/ OperateFails(c)
      <4>1. /\ callers[c].pc = "operate" /\ UNCHANGED <<done, stepOf>>
            /\ CallGoes(c, "record") \/ CallGoes(c, "release")
        BY <3>2 DEF Operate, OperateFails
      <4> QED BY <4>1, CallGoesType, CallGoesFits, CallsMoveKept
    <3> QED BY <2>5, <3>1, <3>2
  <2>6. ASSUME NEW c \in Callers, CallStep(c)
        PROVE  ClaimsOK' /\ ClaimKept
    BY <2>5, <2>6, ClaimStepKept, GivesUpKept, FinalizeKept DEF CallStep
  <2> QED BY <2>1, <2>2, <2>3, <2>4, <2>5, <2>6, TickKept, BeginDeleteKept
          DEF DeletionNext, deletionVars, deletion
<1>3. ClaimKept => [ClaimKept]_deletionVars
  OBVIOUS
<1> QED BY <1>1, <1>2, PTL DEF DeletionSpec, LiveClaimKept, ClaimKept

=============================================================================
