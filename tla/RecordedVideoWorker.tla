------------------------ MODULE RecordedVideoWorker ------------------------
(***************************************************************************)
(* The worker process (worker.py) running the pipeline (pipeline.py)      *)
(* against the job tables and the Elasticsearch projection (es_index.py).  *)
(*                                                                         *)
(* A slot is one run_once coroutine.  Inside it up to three tasks of one   *)
(* event loop interleave: run_once itself, the pipeline, and the task that *)
(* renews the lease.  A step is what one of them does between two awaits   *)
(* on the repository or on Elasticsearch.  pc says where the coroutine is: *)
(*                                                                         *)
(*   idle      about to claim in this round of run_until_idle              *)
(*   claimed   claim_due_job has returned a job                            *)
(*   start     pipeline.run, before start_pipeline                         *)
(*   stage     run_stage(at), before its operation                         *)
(*   work      run_stage(at), its operation is awaited                     *)
(*   save      run_stage(at), before checkpoint_step                       *)
(*   publish   before projection.project                                   *)
(*   bulk      projection.project is awaited                               *)
(*   indexed   the bulk was acknowledged, before complete_pipeline         *)
(*   committed complete_pipeline has committed but has not returned        *)
(*   rollback  "except BaseException" of pipeline.run: delete_projection,  *)
(*             then go on at after                                         *)
(*   check     the renewal failed, the pipeline is gone: _cancel_requested *)
(*   cleanup   cleanup_after_cancel, run by after                          *)
(*   finish    before finish_cancel                                        *)
(*   retry     _record_failure of a retryable error                        *)
(*   fail      _record_failure of any other error                          *)
(*   done      run_once has returned                                       *)
(***************************************************************************)
EXTENDS JobTables, Sequences

CONSTANTS Slots, Workers,
          WorkerOf,      \* [Slots -> Workers]: the process a slot belongs to
          Segments,      \* ordinals of a video's segments: document ids
          MaxAttempts,   \* recorded_video.max_attempts
          RetryBackoff,  \* _RETRY_BACKOFF_SECONDS
          MaxFaults      \* bound of the model on faults

ASSUME SlotsAssumption == WorkerOf \in [Slots -> Workers]
ASSUME LimitsAssumption == /\ MaxAttempts \in Nat \ {0}
                           /\ MaxFaults \in Nat
                           /\ NumStages >= 2
ASSUME BackoffAssumption == RetryBackoff \in Seq(0..MaxDelay) \ {<<>>}

VARIABLES slots,   \* [Slots -> Slot]
          docs,    \* docs[j][g]: the attempt whose document is indexed, or 0
          flight,  \* updates sent to Elasticsearch and not visible yet
          faults   \* faults so far

vars == <<tables, slots, docs, flight, faults>>

IndexingStage == PublishStage - 1

NoHandle == [job |-> NoJob, owner |-> NoOwner, attempt |-> 0]

\* A cleanup is run by run_once itself, or by the pipeline when one of its
\* cancel points finds the request, before or after the projection began.
Cleaner == {"run_once", "unprojected", "projected"}

Pc == {"idle", "claimed", "start", "stage", "work", "save", "publish", "bulk",
       "indexed", "committed", "rollback", "check", "cleanup", "finish",
       "retry", "fail", "done"}
Slot == [pc : Pc, h : Handle \cup {NoHandle}, at : 0..NumStages,
         after : {"none", "done", "stop", "retry", "fail", "check"} \cup Cleaner]
Update == [job : Jobs, attempt : Nat, segment : Segments]

IdleSlot == [pc |-> "idle", h |-> NoHandle, at |-> 0, after |-> "none"]

Init == /\ TablesInit
        /\ slots = [s \in Slots |-> IdleSlot]
        /\ docs = [j \in Jobs |-> [g \in Segments |-> 0]]
        /\ flight = {}
        /\ faults = 0

index == <<docs, flight>>

Goes(s, pc) == slots' = [slots EXCEPT ![s].pc = pc, ![s].after = "none"]

-----------------------------------------------------------------------------
(* How a coroutine is left *)

Projecting(slot) == \/ slot.pc \in {"bulk", "indexed", "committed"}
                    \/ slot.pc = "cleanup" /\ slot.after = "projected"

\* The pipeline is abandoned by an error or by a cancel of its task: once the
\* projection has begun it is rolled back on the way out.
Unwound(slot, next) ==
    IF Projecting(slot) THEN [slot EXCEPT !.pc = "rollback", !.after = next]
    ELSE [slot EXCEPT !.pc = IF next = "stop" THEN "done" ELSE next,
                      !.after = "none"]

Unwind(s, next) == slots' = [slots EXCEPT ![s] = Unwound(@, next)]

\* run_until_idle and asyncio.run cancel every coroutine of the process.
Interrupted(slot) == IF slot.pc = "idle" THEN slot ELSE Unwound(slot, "stop")

\* The pipeline task runs, and beside it the renewal task.
Renewed(slot) ==
    \/ slot.pc \in {"start", "stage", "work", "save", "publish",
                    "bulk", "indexed", "committed"}
    \/ slot.pc = "cleanup" /\ slot.after # "run_once"
    \/ slot.pc = "rollback" /\ slot.after \in {"done", "retry", "fail"}

\* Mutant: delete_projection does not filter by attempt.
EraseAllAttempts(h) == [docs EXCEPT ![h.job] = [g \in Segments |-> 0]]

ErasedDocs(h) == [docs EXCEPT ![h.job] =
    [g \in Segments |-> IF @[g] = h.attempt THEN 0 ELSE @[g]]]

-----------------------------------------------------------------------------
(* run_once *)

\* Mutant: the token names the worker process, not the claim.
TokenOfProcess(o) == o \in Owners

Fresh(o) == /\ \A s \in Slots : slots[s].h.owner # o
            /\ \A j \in Jobs : jobs[j].owner # o

ClaimJob(s, j, o, d) ==
    /\ slots[s].pc = "idle"
    /\ Fresh(o)
    /\ ClaimDueJob(j, o, d)
    /\ slots' = [slots EXCEPT ![s] =
           [IdleSlot EXCEPT !.pc = "claimed",
                !.h = [job |-> j, owner |-> o, attempt |-> jobs'[j].attempt]]]
    /\ UNCHANGED <<index, faults>>

FindNoJob(s, d) ==
    /\ slots[s].pc = "idle"
    /\ ClaimFindsNothing(d)
    /\ Goes(s, "done")
    /\ UNCHANGED <<index, faults>>

\* run_until_idle starts a new round when every run_once has returned.
NewRound(w) ==
    /\ \A s \in Slots : WorkerOf[s] = w => slots[s].pc = "done"
    /\ slots' = [s \in Slots |-> IF WorkerOf[s] = w THEN IdleSlot ELSE slots[s]]
    /\ UNCHANGED <<tables, index, faults>>

\* stop() came between the claim and the first look at the job.
ReleaseOnStop(s, d) ==
    /\ slots[s].pc = "claimed"
    /\ faults < MaxFaults
    /\ faults' = faults + 1
    /\ \/ ReleaseClaim(slots[s].h, d)
       \/ ~HoldsUncancelled(slots[s].h, d) /\ UNCHANGED tables
    /\ Goes(s, "done")
    /\ UNCHANGED index

\* _cancel_requested takes a lost lease for "not requested".
BeginAttempt(s, d) ==
    LET h == slots[s].h IN
    /\ slots[s].pc = "claimed"
    /\ \/ /\ CancelSeen(h, d)
          /\ slots' = [slots EXCEPT ![s].pc = "cleanup", ![s].after = "run_once"]
       \/ /\ ~CancelSeen(h, d)
          /\ Goes(s, IF h.attempt > MaxAttempts THEN "fail" ELSE "start")
    /\ UNCHANGED <<tables, index, faults>>

\* The renewal has raised LeaseLostError and the pipeline task is finished.
CheckAfterLoss(s, d) ==
    /\ slots[s].pc = "check"
    /\ \/ /\ CancelSeen(slots[s].h, d)
          /\ slots' = [slots EXCEPT ![s].pc = "cleanup", ![s].after = "run_once"]
       \/ ~CancelSeen(slots[s].h, d) /\ Goes(s, "done")
    /\ UNCHANGED <<tables, index, faults>>

\* _cancel_requested fails for another reason than the lease.
CheckFails(s) ==
    /\ slots[s].pc \in {"claimed", "check"}
    /\ faults < MaxFaults
    /\ faults' = faults + 1
    /\ Goes(s, "fail")
    /\ UNCHANGED <<tables, index>>

Backoff(attempt) ==
    RetryBackoff[IF attempt < Len(RetryBackoff) THEN attempt ELSE Len(RetryBackoff)]

RecordFailure(s, d) ==
    LET h == slots[s].h
        again == slots[s].pc = "retry" /\ h.attempt < MaxAttempts IN
    /\ slots[s].pc \in {"retry", "fail"}
    /\ \/ again /\ ScheduleRetry(h, d, Backoff(h.attempt))
       \/ ~again /\ MarkFailed(h, d)
       \/ ~HoldsUncancelled(h, d) /\ UNCHANGED tables
    /\ Goes(s, "done")
    /\ UNCHANGED <<index, faults>>

FinishCancellation(s, d) ==
    /\ slots[s].pc = "finish"
    /\ FinishCancel(slots[s].h, d)
    /\ Goes(s, "done")
    /\ UNCHANGED <<index, faults>>

\* A lease lost here is raised inside an except clause of run_once: it leaves
\* run_once, and run_until_idle cancels the other coroutines.
FinishRefused(s, d) ==
    /\ slots[s].pc = "finish"
    /\ ~CleanupLease(slots[s].h, d)
    /\ slots' = [t \in Slots |->
           IF t = s THEN [slots[s] EXCEPT !.pc = "done"]
           ELSE IF WorkerOf[t] = WorkerOf[s] THEN Interrupted(slots[t])
           ELSE slots[t]]
    /\ UNCHANGED <<tables, index, faults>>

-----------------------------------------------------------------------------
(* pipeline.run *)

\* _cancel_point, and the fences of the transactions, by their answer.
PassesFence(s, d) == CancelNotSeen(slots[s].h, d)

BetweenAwaits == {"start", "stage", "work", "save", "publish", "indexed"}

FenceSeesCancel(s, d) ==
    /\ slots[s].pc \in BetweenAwaits
    /\ CancelSeen(slots[s].h, d)
    /\ slots' = [slots EXCEPT ![s].pc = "cleanup",
           ![s].after = IF Projecting(slots[s]) THEN "projected" ELSE "unprojected"]
    /\ UNCHANGED <<tables, index, faults>>

\* Either a cancel point finds the lease gone, or the transaction after it
\* refuses, which it does for a cancelled job too.
FenceLosesLease(s, d) ==
    /\ slots[s].pc \in BetweenAwaits
    /\ \/ LeaseLost(slots[s].h, d)
       \/ slots[s].pc \in {"start", "stage", "indexed"} /\ ~PassesFence(s, 0)
    /\ Unwind(s, "done")
    /\ UNCHANGED <<tables, index, faults>>

\* A RecordedVideoError, retryable or not, or any other exception: of a
\* provider, of the disk, of the database, or of Elasticsearch, which may still
\* apply what it has received.
PipelineFails(s) ==
    /\ slots[s].pc \in BetweenAwaits \cup {"bulk"}
    /\ faults < MaxFaults
    /\ faults' = faults + 1
    /\ \E next \in {"retry", "fail"} : Unwind(s, next)
    /\ UNCHANGED <<tables, index>>

Start(s) ==
    /\ slots[s].pc = "start"
    /\ StartPipeline(slots[s].h)
    /\ slots' = [slots EXCEPT ![s].pc = "stage", ![s].at = 1]
    /\ UNCHANGED <<index, faults>>

\* After run_stage(at).
NextStage(slot) ==
    IF slot.at = IndexingStage
    THEN [slot EXCEPT !.pc = "publish", !.at = PublishStage]
    ELSE [slot EXCEPT !.pc = "stage", !.at = slot.at + 1]

\* The stored checkpoint is valid: its stage is not run again.  The documents
\* of the indexing checkpoint name the attempt that made them, and are valid
\* for no other (_validate_projection_manifest).
ReuseCheckpoint(s, d) ==
    LET h == slots[s].h  at == slots[s].at IN
    /\ slots[s].pc = "stage"
    /\ PassesFence(s, d)
    /\ steps[h.job][at] # 0
    /\ at = IndexingStage => steps[h.job][at] = h.attempt
    /\ slots' = [slots EXCEPT ![s] = NextStage(@)]
    /\ UNCHANGED <<tables, index, faults>>

\* Mutant: the invalid checkpoint is not dropped.
RunWithoutReset(s, d) ==
    /\ slots[s].pc = "stage"
    /\ PassesFence(s, d)
    /\ Goes(s, "work")
    /\ UNCHANGED <<tables, index, faults>>

\* There is no checkpoint, or it is not valid any more and is dropped with
\* those of the later stages.
RunOperation(s, d) ==
    LET h == slots[s].h  at == slots[s].at IN
    /\ slots[s].pc = "stage"
    /\ PassesFence(s, d)
    /\ IF steps[h.job][at] # 0 THEN ResetStepsFrom(h, at) ELSE UNCHANGED tables
    /\ Goes(s, "work")
    /\ UNCHANGED <<index, faults>>

OperationReturns(s, d) ==
    /\ slots[s].pc = "work"
    /\ PassesFence(s, d)
    /\ Goes(s, "save")
    /\ UNCHANGED <<tables, index, faults>>

Checkpoint(s) ==
    /\ slots[s].pc = "save"
    /\ CheckpointStep(slots[s].h, slots[s].at)
    /\ slots' = [slots EXCEPT ![s] = NextStage(@)]
    /\ UNCHANGED <<index, faults>>

Project(s, d) ==
    LET h == slots[s].h IN
    /\ slots[s].pc = "publish"
    /\ PassesFence(s, d)
    /\ flight' = flight \cup
           [job : {h.job}, attempt : {h.attempt}, segment : Segments]
    /\ Goes(s, "bulk")
    /\ UNCHANGED <<tables, docs, faults>>

\* Every document has been acknowledged, which "wait_for" delays until the
\* update is visible.
BulkReturns(s) ==
    LET h == slots[s].h IN
    /\ slots[s].pc = "bulk"
    /\ \A u \in flight : ~(u.job = h.job /\ u.attempt = h.attempt)
    /\ Goes(s, "indexed")
    /\ UNCHANGED <<tables, index, faults>>

Publish(s) ==
    /\ slots[s].pc = "indexed"
    /\ CompletePipeline(slots[s].h)
    /\ Goes(s, "committed")
    /\ UNCHANGED <<index, faults>>

PipelineReturns(s) ==
    /\ slots[s].pc = "committed"
    /\ Goes(s, "done")
    /\ UNCHANGED <<tables, index, faults>>

\* Errors of this delete are suppressed.
RollBack(s) ==
    /\ slots[s].pc = "rollback"
    /\ docs' \in {docs, ErasedDocs(slots[s].h)}
    /\ Goes(s, IF slots[s].after = "stop" THEN "done" ELSE slots[s].after)
    /\ UNCHANGED <<tables, flight, faults>>

\* cleanup_after_cancel: assert, delete_projection, assert.  The files it
\* removes are temporary ones of this attempt and are not modelled.
CleanUp(s, d) ==
    /\ slots[s].pc = "cleanup"
    /\ CleanupLease(slots[s].h, d)
    /\ docs' = ErasedDocs(slots[s].h)
    /\ Goes(s, "finish")
    /\ UNCHANGED <<tables, flight, faults>>

\* An assertion or the cleanup renewal finds the lease gone.
CleanUpLosesLease(s, d) ==
    /\ slots[s].pc = "cleanup"
    /\ ~CleanupLease(slots[s].h, d)
    /\ Unwind(s, "done")
    /\ UNCHANGED <<tables, index, faults>>

\* Elasticsearch refuses the delete: the job is left to a later cleanup claim.
CleanUpFails(s) ==
    /\ slots[s].pc = "cleanup"
    /\ faults < MaxFaults
    /\ faults' = faults + 1
    /\ Unwind(s, "done")
    /\ UNCHANGED <<tables, index>>

-----------------------------------------------------------------------------
(* The renewal task *)

Renew(s, d) ==
    /\ Renewed(slots[s])
    /\ RenewLease(slots[s].h, d)
    /\ UNCHANGED <<slots, index, faults>>

RenewCleanup(s, d) ==
    /\ slots[s].pc = "cleanup" /\ slots[s].after = "run_once"
    /\ RenewCleanupLease(slots[s].h, d)
    /\ UNCHANGED <<slots, index, faults>>

\* LeaseLostError: _run_with_renewal cancels the pipeline.
RenewalRefused(s, d) ==
    /\ Renewed(slots[s])
    /\ ~HoldsUncancelled(slots[s].h, d)
    /\ Unwind(s, "check")
    /\ UNCHANGED <<tables, index, faults>>

\* Any other exception, as when the database stays locked.
RenewalFails(s) ==
    /\ Renewed(slots[s])
    /\ faults < MaxFaults
    /\ faults' = faults + 1
    /\ Unwind(s, "fail")
    /\ UNCHANGED <<tables, index>>

-----------------------------------------------------------------------------
(* Processes, Elasticsearch, API, clock *)

\* A coroutine of the process raises, as when a claim finds the database
\* locked, and run_until_idle cancels all of them.
Interrupt(w) ==
    /\ faults < MaxFaults
    /\ faults' = faults + 1
    /\ slots' = [s \in Slots |-> IF WorkerOf[s] = w THEN Interrupted(slots[s])
                                                    ELSE slots[s]]
    /\ UNCHANGED <<tables, index>>

\* The process is killed and started again.
Crash(w) ==
    /\ faults < MaxFaults
    /\ faults' = faults + 1
    /\ slots' = [s \in Slots |-> IF WorkerOf[s] = w THEN IdleSlot ELSE slots[s]]
    /\ UNCHANGED <<tables, index>>

\* Mutant: the last update wins.
ApplyUnfenced(u) ==
    /\ u \in flight
    /\ flight' = flight \ {u}
    /\ docs' = [docs EXCEPT ![u.job][u.segment] = u.attempt]
    /\ UNCHANGED <<tables, slots, faults>>

\* The scripted upsert: an older attempt never overwrites a newer one.
ApplyUpdate(u) ==
    /\ u \in flight
    /\ flight' = flight \ {u}
    /\ docs' = IF docs[u.job][u.segment] <= u.attempt
               THEN [docs EXCEPT ![u.job][u.segment] = u.attempt]
               ELSE docs
    /\ UNCHANGED <<tables, slots, faults>>

\* A manual retry; the bound keeps one claim for every fault to come.
RetryByUser(j, d) == /\ jobs[j].attempt + (MaxFaults - faults) < AttemptBound
                     /\ RetryFailedJob(j, d)

ApiCall(j, d) ==
    /\ CompleteUpload(j, d) \/ RequestCancel(j, d) \/ RetryByUser(j, d)
    /\ UNCHANGED <<slots, index, faults>>

\* Would a working slot lose its lease to this tick?
Lapses == \E s \in Slots : /\ slots[s].pc # "done"
                           /\ slots[s].h # NoHandle
                           /\ Holds(slots[s].h, 0)
                           /\ jobs[slots[s].h.job].lease = 1

\* That a slot is too slow for its lease is a fault.
Tick ==
    /\ Lapses => faults < MaxFaults
    /\ faults' = IF Lapses THEN faults + 1 ELSE faults
    /\ TablesTick
    /\ UNCHANGED <<slots, index>>

-----------------------------------------------------------------------------

Claims(s) == \E d \in Lags : \/ FindNoJob(s, d)
                             \/ \E j \in Jobs, o \in Owners : ClaimJob(s, j, o, d)

\* What a slot does when nothing goes wrong and nobody stops it.
Advances(s) ==
    \/ Start(s) \/ Checkpoint(s) \/ BulkReturns(s) \/ Publish(s)
    \/ PipelineReturns(s) \/ RollBack(s)
    \/ \E d \in Lags :
        \/ BeginAttempt(s, d) \/ CheckAfterLoss(s, d) \/ RecordFailure(s, d)
        \/ FinishCancellation(s, d) \/ FinishRefused(s, d)
        \/ FenceSeesCancel(s, d) \/ FenceLosesLease(s, d)
        \/ ReuseCheckpoint(s, d) \/ RunOperation(s, d) \/ OperationReturns(s, d)
        \/ Project(s, d) \/ CleanUp(s, d) \/ CleanUpLosesLease(s, d)

Renews(s) == \E d \in Lags : \/ Renew(s, d) \/ RenewCleanup(s, d)
                             \/ RenewalRefused(s, d)

Fails(s) == \/ CheckFails(s) \/ PipelineFails(s) \/ CleanUpFails(s)
            \/ RenewalFails(s)
            \/ \E d \in Lags : ReleaseOnStop(s, d)

Next ==
    \/ \E s \in Slots : Claims(s) \/ Advances(s) \/ Renews(s) \/ Fails(s)
    \/ \E w \in Workers : NewRound(w) \/ Interrupt(w) \/ Crash(w)
    \/ \E u \in flight : ApplyUpdate(u)
    \/ \E j \in Jobs, d \in Lags : ApiCall(j, d)
    \/ Tick

Spec == Init /\ [][Next]_vars

\* The event loop runs every coroutine that is ready, run() starts rounds until
\* it is stopped, Elasticsearch answers, and the clock goes on.
Fairness ==
    /\ \A s \in Slots : WF_vars(Claims(s)) /\ WF_vars(Advances(s))
    /\ \A w \in Workers : WF_vars(NewRound(w))
    /\ WF_vars(\E u \in flight : ApplyUpdate(u))
    /\ WF_vars(Tick)

FairSpec == Spec /\ Fairness

-----------------------------------------------------------------------------
(* Invariants *)

\* Types, and an idle slot holds nothing.
TypeOK ==
    /\ TablesTypeOK
    /\ slots \in [Slots -> Slot]
    /\ docs \in [Jobs -> [Segments -> Nat]]
    /\ flight \subseteq Update
    /\ faults \in 0..MaxFaults

\* pipeline.run of this slot writes the attempt's files and documents.
Executing(s) == slots[s].pc \in {"stage", "work", "save", "publish", "bulk",
                                 "indexed", "committed"}

\* An attempt's directory, manifest and documents are named by job and attempt
\* only, so no two coroutines may ever execute the same attempt.  That has to
\* survive release_claim, which hands the number out again, and cleanup claims,
\* which keep it, with slots that go on after their lease is gone.
OneExecutorPerAttempt ==
    \A s, t \in Slots : Executing(s) /\ Executing(t) /\ s # t =>
        \/ slots[s].h.job # slots[t].h.job
        \/ slots[s].h.attempt # slots[t].h.attempt

\* No checkpoint names an attempt the job has not reached, although
\* release_claim lowers the attempt number.
StepsComeFromAttempts ==
    \A j \in Jobs, n \in Stages : steps[j][n] <= jobs[j].attempt

\* Neither does a document or an update under way: if one did, the fence of the
\* scripted upsert would discard the running attempt's documents and still
\* acknowledge them.
IndexIsNotAhead ==
    /\ \A j \in Jobs, g \in Segments : docs[j][g] <= jobs[j].attempt
    /\ \A u \in flight : u.attempt <= jobs[u.job].attempt

\* The pipeline never presents a checkpoint or a completion that the holder of
\* the lease would have refused: no stage is saved twice or behind jobs.stage,
\* and all stages are there when it publishes (checkpoint_step and
\* complete_pipeline raise otherwise, and the job would fail for good).
PipelineStepsAreAccepted ==
    \A s \in Slots : LET h == slots[s].h IN
        /\ slots[s].pc = "save" /\ CancelNotSeen(h, 0) =>
               /\ steps[h.job][slots[s].at] = 0
               /\ slots[s].at >= jobs[h.job].stage
        /\ slots[s].pc \in {"publish", "bulk", "indexed"} /\ CancelNotSeen(h, 0) =>
               /\ \A n \in Stages \ {PublishStage} : steps[h.job][n] # 0
               /\ steps[h.job][PublishStage] = 0

\* The documents of a completed job were made by the attempt that published
\* them, even when it resumed the checkpoints of earlier attempts.
CompletedJobsIndexTheirOwn ==
    \A j \in Jobs : jobs[j].status = "completed" =>
        steps[j][IndexingStage] = jobs[j].attempt

\* Attempts, checkpoints and documents agree, although attempt numbers go back
\* and bulks, rollbacks and resumes of several attempts overlap.
AttemptsAgree ==
    /\ TypeOK /\ StepsComeFromAttempts /\ IndexIsNotAhead
    /\ PipelineStepsAreAccepted /\ CompletedJobsIndexTheirOwn

-----------------------------------------------------------------------------
(* Action properties *)

Indexed(j) == \A g \in Segments : docs[j][g] = jobs[j].attempt

\* A job becomes completed only with every document of the publishing attempt
\* in the index: no rollback, cleanup or late bulk of another attempt comes in
\* between the acknowledgement and complete_pipeline.
PublishesOnlyWhatIsIndexed ==
    [][\A j \in Jobs :
        jobs[j].status # "completed" /\ jobs'[j].status = "completed" =>
            Indexed(j)']_vars

\* The coroutine that published the documents is on its way out.
PublisherRollsBack(j) == \E s \in Slots : /\ slots[s].pc = "rollback"
                                          /\ slots[s].h.job = j
                                          /\ slots[s].h.attempt = jobs[j].attempt

\* From then on only the coroutine that published the documents can take one
\* away, by its own rollback: no other attempt's rollback, cleanup or late bulk.
PublishedDocumentsAreSafe ==
    [][\A j \in Jobs : jobs[j].status = "completed" /\ Indexed(j) =>
           Indexed(j)' \/ PublisherRollsBack(j)]_vars

\* Publication is atomic against every other attempt: before it and after it.
PublicationIsSafe == PublishesOnlyWhatIsIndexed /\ PublishedDocumentsAreSafe

-----------------------------------------------------------------------------
(* Liveness *)

Unfinished(j) == jobs[j].status \in Pending \cup {"running"}

\* Every job ends: it is completed, fails or is cancelled, whatever crashes,
\* errors, lost leases, cancellations and manual retries come, as long as there
\* are finitely many.  No job is left running without anybody who will take it
\* up, and no cancellation cleanup is left over.
JobsEnd == \A j \in Jobs : Unfinished(j) ~> ~Unfinished(j)

-----------------------------------------------------------------------------
(* The worker is a client of the repository *)

Repository == INSTANCE JobRepository WITH
    claims <- {slots[s].h : s \in {t \in Slots : slots[t].h # NoHandle}},
    deleters <- {}

\* Every step of the worker is a transaction its handles allow, or none, so
\* what holds of JobRepository holds of the tables here.
UsesRepository == Repository!Spec

-----------------------------------------------------------------------------
(* What documents and comments say, and the code does not do *)

\* complete_pipeline: "Atomically publish durable segments and the searchable
\* terminal state".  Documents are found only while the job is completed, and
\* then all of them are there.
SearchableJobsAreIndexed ==
    \A j \in Jobs : jobs[j].status = "completed" => Indexed(j)
=============================================================================
