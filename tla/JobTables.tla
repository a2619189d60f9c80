----------------------------- MODULE JobTables -----------------------------
(***************************************************************************)
(* The SQLite tables of recorded_video/repository.py that decide who may   *)
(* work on an ingest job, and one operator per transaction on them.  Every *)
(* public method runs inside one BEGIN IMMEDIATE transaction, so an        *)
(* operator below is one atomic step; a call that raises changes nothing   *)
(* and is not a step.                                                      *)
(*                                                                         *)
(* Time.  lease_until and next_run_at are absolute times in the code, only *)
(* ever compared with a clock reading.  Here they count down: "lease" is   *)
(* lease_until - now, "wait" is next_run_at - now, and Tick lowers both.   *)
(* Most callers read the clock before the transaction starts and may then  *)
(* queue for the database lock, so their reading is d units old when it is *)
(* used, 0 <= d <= MaxLag (busy_timeout).  A timer at -MaxLag is expired   *)
(* for every caller and stops counting.                                    *)
(***************************************************************************)
EXTENDS Integers

CONSTANTS Jobs,          \* (asset, pipeline version) pairs: rows of table jobs
          Assets,
          AssetOf,       \* [Jobs -> Assets], column jobs.asset_id
          Owners,        \* lease owner tokens, fresh per claim (worker.py)
          NoJob, NoOwner,\* NULL in current_job_id and in lease_owner
          NumStages,     \* pipeline stages; the last one is "publish"
          LeaseSeconds,  \* length of a lease
          MaxLag,        \* how old a caller's clock reading can be
          MaxDelay,      \* longest retry delay
          AttemptBound   \* bound of the model on the attempt counter

ASSUME JobsAssumption == /\ AssetOf \in [Jobs -> Assets]
                         /\ NoJob \notin Jobs
                         /\ NoOwner \notin Owners
ASSUME StagesAssumption == NumStages \in Nat \ {0}
ASSUME TimeAssumption == /\ MaxLag \in Nat
                         /\ MaxDelay \in Nat
                         /\ LeaseSeconds \in Nat
                         /\ LeaseSeconds > MaxLag
ASSUME BoundAssumption == AttemptBound \in Nat

VARIABLES jobs,      \* [Jobs -> JobRow]
          assets,    \* [Assets -> AssetRow]
          steps,     \* steps[j][s]: the attempt that checkpointed stage s, or 0
          requests   \* assets with a row in asset_deletion_requests

tables == <<jobs, assets, steps, requests>>

Stages == 1..NumStages
PublishStage == NumStages
Lags == 0..MaxLag

Pending == {"queued", "retry_wait"}
Terminal == {"completed", "failed", "cancelled"}
JobStatus == {"absent", "running"} \cup Pending \cup Terminal
AssetStatus == {"uploading", "ready", "processing", "failed", "deleted"}

\* lease_owner and lease_until are written together: lease means nothing, and
\* is 0, when owner is NoOwner.  next_run_at is only looked at while a job is
\* pending: wait means nothing, and is 0, in the other states.
JobRow == [status : JobStatus, stage : 0..NumStages, attempt : Nat,
           wait : (-MaxLag)..MaxDelay, owner : Owners \cup {NoOwner},
           lease : (-MaxLag)..LeaseSeconds, cancel : BOOLEAN]
AssetRow == [status : AssetStatus, current : Jobs \cup {NoJob}]

\* What claim_due_job gives to the worker that won the claim.
Handle == [job : Jobs, owner : Owners, attempt : Nat]

AbsentJob == [status |-> "absent", stage |-> 0, attempt |-> 0, wait |-> 0,
              owner |-> NoOwner, lease |-> 0, cancel |-> FALSE]
NoSteps == [s \in Stages |-> 0]

TablesTypeOK ==
    /\ jobs \in [Jobs -> JobRow]
    /\ assets \in [Assets -> AssetRow]
    /\ steps \in [Jobs -> [Stages -> Nat]]
    /\ requests \subseteq Assets

TablesInit ==
    /\ jobs = [j \in Jobs |-> AbsentJob]
    /\ assets = [a \in Assets |-> [status |-> "uploading", current |-> NoJob]]
    /\ steps = [j \in Jobs |-> NoSteps]
    /\ requests = {}

-----------------------------------------------------------------------------
(* Leases *)

\* lease_until <= now and lease_until > now for a reading d units old.
Expired(row, d) == row.owner # NoOwner /\ row.lease <= -d
Live(row, d) == row.owner # NoOwner /\ row.lease > -d

Unleased(row) == [row EXCEPT !.owner = NoOwner, !.lease = 0]

\* The fence of renew_lease, release_claim, schedule_retry, mark_failed.
Holds(h, d) ==
    /\ jobs[h.job].status = "running"
    /\ jobs[h.job].owner = h.owner
    /\ jobs[h.job].attempt = h.attempt
    /\ Live(jobs[h.job], d)

\* Mutant: a retry or a failure overrules a cancellation request.
HoldsAnyway(h, d) == Holds(h, d)

HoldsUncancelled(h, d) == Holds(h, d) /\ ~jobs[h.job].cancel

IsCurrent(j) == /\ assets[AssetOf[j]].current = j
                /\ assets[AssetOf[j]].status # "deleted"

\* _require_active_lease(allow_cancel_requested=True)
ActiveLease(h, d) == Holds(h, d) /\ IsCurrent(h.job)

\* _require_cancel_cleanup_lease
CleanupLease(h, d) == /\ Holds(h, d)
                      /\ jobs[h.job].cancel
                      /\ assets[AssetOf[h.job]].status # "deleted"

\* is_cancel_requested answers TRUE, answers FALSE, or raises LeaseLostError.
CancelSeen(h, d) == \/ ActiveLease(h, d) /\ jobs[h.job].cancel
                    \/ CleanupLease(h, d)
CancelNotSeen(h, d) == ActiveLease(h, d) /\ ~jobs[h.job].cancel
LeaseLost(h, d) == ~CancelSeen(h, d) /\ ~CancelNotSeen(h, d)

-----------------------------------------------------------------------------
(* Transactions of the API process *)

\* complete_upload: insert the job of this asset and version, once.
CompleteUpload(j, d) ==
    /\ jobs[j].status = "absent"
    /\ AssetOf[j] \notin requests
    /\ assets[AssetOf[j]].status # "deleted"
    /\ jobs' = [jobs EXCEPT ![j] = [AbsentJob EXCEPT !.status = "queued",
                                                     !.wait = -d]]
    /\ assets' = [assets EXCEPT ![AssetOf[j]] =
                        [status |-> "ready", current |-> j]]
    /\ UNCHANGED <<steps, requests>>

\* Mutant: an expired row loses its lease and does not get the flag.
CancelRowDropsExpired(row, d) ==
    IF row.status \in Pending
    THEN [Unleased(row) EXCEPT !.status = "cancelled", !.wait = 0]
    ELSE IF Expired(row, d) THEN Unleased(row)
    ELSE IF row.status = "running" THEN [row EXCEPT !.cancel = TRUE]
    ELSE row

\* _transition_jobs_for_cancellation, for one row.
CancelRow(row, d) ==
    IF row.status \in Pending
    THEN [Unleased(row) EXCEPT !.status = "cancelled", !.cancel = FALSE,
                               !.wait = 0]
    ELSE IF row.status = "running"
         THEN [(IF Expired(row, d) THEN Unleased(row) ELSE row)
                   EXCEPT !.cancel = TRUE]
         ELSE row

RequestCancel(j, d) ==
    /\ jobs[j].status # "absent"
    /\ jobs' = [jobs EXCEPT ![j] = CancelRow(@, d)]
    /\ UNCHANGED <<assets, steps, requests>>

\* Mutant: a manual retry does not look for a deletion request.
RetryDuringDeletion(j, d) ==
    /\ jobs[j].status = "failed"
    /\ IsCurrent(j)
    /\ jobs' = [jobs EXCEPT ![j] = [Unleased(@) EXCEPT !.status = "queued",
                                        !.wait = -d, !.cancel = FALSE]]
    /\ UNCHANGED <<assets, steps, requests>>

RetryFailedJob(j, d) ==
    /\ jobs[j].status = "failed"
    /\ IsCurrent(j)
    /\ AssetOf[j] \notin requests
    /\ jobs' = [jobs EXCEPT ![j] = [Unleased(@) EXCEPT !.status = "queued",
                                        !.wait = -d, !.cancel = FALSE]]
    /\ UNCHANGED <<assets, steps, requests>>

\* prepare_asset_deletion returns early, without a request, while the asset is
\* uploading and once it is deleted.
DeletionSkipsRequest(a) == assets[a].status \in {"uploading", "deleted"}

PrepareAssetDeletion(a, d) ==
    /\ IF DeletionSkipsRequest(a)
       THEN UNCHANGED <<jobs, requests>>
       ELSE /\ requests' = requests \cup {a}
            /\ jobs' = [j \in Jobs |-> IF AssetOf[j] = a
                                       THEN CancelRow(jobs[j], d)
                                       ELSE jobs[j]]
    /\ UNCHANGED <<assets, steps>>

HasRunningJob(a, table) ==
    \E j \in Jobs : AssetOf[j] = a /\ table[j].status = "running"

FinalizeAssetDeletion(a) ==
    /\ ~HasRunningJob(a, jobs)
    /\ jobs' = [j \in Jobs |-> IF AssetOf[j] = a THEN AbsentJob ELSE jobs[j]]
    /\ steps' = [j \in Jobs |-> IF AssetOf[j] = a THEN NoSteps ELSE steps[j]]
    /\ assets' = [assets EXCEPT ![a] = [status |-> "deleted", current |-> NoJob]]
    /\ requests' = requests \ {a}

-----------------------------------------------------------------------------
(* Transactions of the worker process *)

\* Mutant: recovery takes every running row, as if no other worker were alive.
RecoverEveryRow(j, row, d) ==
    IF row.status = "running" /\ ~row.cancel
    THEN [Unleased(row) EXCEPT !.status = "queued", !.wait = -d]
    ELSE row

\* Mutant: recovery never happens.
RecoverNoRow(j, row, d) == row

\* _recover_expired_jobs, for one row.
RecoverRow(j, row, d) ==
    IF row.status = "running" /\ Expired(row, d)
    THEN IF row.cancel \/ AssetOf[j] \in requests
         THEN [Unleased(row) EXCEPT !.cancel = TRUE]
         ELSE [Unleased(row) EXCEPT !.status = "queued", !.wait = -d]
    ELSE row

RecoverExpiredJobs(d) ==
    /\ jobs' = [j \in Jobs |-> RecoverRow(j, jobs[j], d)]
    /\ UNCHANGED <<assets, steps, requests>>

\* claim_due_job first recovers every expired row and queues every job whose
\* retry delay is over.
DueRow(j, row, d) ==
    IF row.status = "retry_wait" /\ row.wait <= -d /\ AssetOf[j] \notin requests
    THEN [row EXCEPT !.status = "queued"]
    ELSE row

RefreshedJobs(d) ==
    [j \in Jobs |-> DueRow(j, RecoverRow(j, jobs[j], d), d)]

DueForCleanup(j, row, d) ==
    row.status = "running" /\ row.cancel /\ ~Live(row, d)

DueForAttempt(j, row, d) ==
    /\ row.status = "queued"
    /\ row.wait <= -d
    /\ AssetOf[j] \notin requests
    /\ row.attempt < AttemptBound

\* Mutant: a job that is taken over goes on under its old attempt number.
ClaimResumesAttempt(row, o, d) ==
    [row EXCEPT !.status = "running", !.owner = o, !.lease = LeaseSeconds - d,
                !.attempt = IF @ = 0 THEN 1 ELSE @,
                !.cancel = row.status = "running", !.wait = 0]

\* Mutant: the lease is longer by the time the claim waited for the lock.
ClaimAddsLag(row, o, d) ==
    [row EXCEPT !.status = "running", !.owner = o, !.lease = LeaseSeconds + d,
                !.attempt = IF row.status = "running" THEN @ ELSE @ + 1,
                !.cancel = row.status = "running",
                !.wait = 0]

ClaimedRow(row, o, d) ==
    [row EXCEPT !.status = "running", !.owner = o, !.lease = LeaseSeconds - d,
                !.attempt = IF row.status = "running" THEN @ ELSE @ + 1,
                !.cancel = row.status = "running",
                !.wait = 0]

\* The row the claim picks: cleanup work first.  Among equals the code orders
\* by next_run_at; the choice is left open here.
Claimable(table, j, d) ==
    \/ DueForCleanup(j, table[j], d)
    \/ /\ DueForAttempt(j, table[j], d)
       /\ \A k \in Jobs : ~DueForCleanup(k, table[k], d)

ClaimDueJob(j, o, d) ==
    /\ Claimable(RefreshedJobs(d), j, d)
    /\ jobs' = [RefreshedJobs(d) EXCEPT ![j] = ClaimedRow(@, o, d)]
    /\ UNCHANGED <<assets, steps, requests>>

ClaimFindsNothing(d) ==
    /\ \A j \in Jobs : ~Claimable(RefreshedJobs(d), j, d)
    /\ jobs' = RefreshedJobs(d)
    /\ UNCHANGED <<assets, steps, requests>>

RenewLease(h, d) ==
    /\ HoldsUncancelled(h, d)
    /\ jobs' = [jobs EXCEPT ![h.job].lease = LeaseSeconds - d]
    /\ UNCHANGED <<assets, steps, requests>>

RenewCleanupLease(h, d) ==
    /\ CleanupLease(h, d)
    /\ jobs' = [jobs EXCEPT ![h.job].lease = LeaseSeconds - d]
    /\ UNCHANGED <<assets, steps, requests>>

\* release_claim gives the attempt number back.
ReleaseClaim(h, d) ==
    /\ HoldsUncancelled(h, d)
    /\ h.attempt > 0
    /\ jobs' = [jobs EXCEPT ![h.job] = [Unleased(@) EXCEPT
                    !.status = "retry_wait", !.attempt = h.attempt - 1,
                    !.wait = -d]]
    /\ UNCHANGED <<assets, steps, requests>>

\* These four read the clock inside the transaction, so their lag is 0.
\* Mutant: a fence that does not ask for the current job.
StartAnyVersion(h) ==
    /\ HoldsUncancelled(h, 0)
    /\ assets' = [assets EXCEPT ![AssetOf[h.job]].status = "processing"]
    /\ UNCHANGED <<jobs, steps, requests>>

StartPipeline(h) ==
    /\ CancelNotSeen(h, 0)
    /\ assets' = [assets EXCEPT ![AssetOf[h.job]].status = "processing"]
    /\ UNCHANGED <<jobs, steps, requests>>

\* Stage n is the latest with a checkpoint; n = 0 when there is none.
IsLatestStage(n, row) == /\ n \in Stages => row[n] # 0
                         /\ \A s \in Stages : row[s] # 0 => s <= n

ResetStepsFrom(h, stage) ==
    /\ CancelNotSeen(h, 0)
    /\ LET kept == [s \in Stages |-> IF s < stage THEN steps[h.job][s] ELSE 0]
       IN  /\ steps' = [steps EXCEPT ![h.job] = kept]
           /\ \E n \in 0..NumStages :
                  /\ IsLatestStage(n, kept)
                  /\ jobs' = [jobs EXCEPT ![h.job].stage = n]
    /\ UNCHANGED <<assets, requests>>

\* checkpoint_step of a stage that has no row yet; for a stage that has one it
\* changes nothing or raises.
CheckpointStep(h, stage) ==
    /\ ActiveLease(h, 0)
    /\ steps[h.job][stage] = 0
    /\ stage >= jobs[h.job].stage
    /\ steps' = [steps EXCEPT ![h.job][stage] = h.attempt]
    /\ jobs' = [jobs EXCEPT ![h.job].stage = stage]
    /\ UNCHANGED <<assets, requests>>

\* Segments, publish step, asset and job change in this one transaction.
CompletePipeline(h) ==
    /\ CancelNotSeen(h, 0)
    /\ \A s \in Stages \ {PublishStage} : steps[h.job][s] # 0
    /\ steps[h.job][PublishStage] \in {0, h.attempt}
    /\ steps' = [steps EXCEPT ![h.job][PublishStage] = h.attempt]
    /\ assets' = [assets EXCEPT ![AssetOf[h.job]].status = "ready"]
    /\ jobs' = [jobs EXCEPT ![h.job] = [Unleased(@) EXCEPT
                    !.status = "completed", !.stage = PublishStage]]
    /\ UNCHANGED requests

ScheduleRetry(h, d, delay) ==
    /\ HoldsUncancelled(h, d)
    /\ jobs' = [jobs EXCEPT ![h.job] = [Unleased(@) EXCEPT
                    !.status = "retry_wait", !.wait = delay - d]]
    /\ UNCHANGED <<assets, steps, requests>>

\* Mutant: the asset shows the failure of any version.
FailureOfAnyVersion(h, d) ==
    /\ HoldsUncancelled(h, d)
    /\ jobs' = [jobs EXCEPT ![h.job] = [Unleased(@) EXCEPT !.status = "failed"]]
    /\ assets' = [assets EXCEPT ![AssetOf[h.job]].status = "failed"]
    /\ UNCHANGED <<steps, requests>>

MarkFailed(h, d) ==
    /\ HoldsUncancelled(h, d)
    /\ jobs' = [jobs EXCEPT ![h.job] = [Unleased(@) EXCEPT !.status = "failed"]]
    /\ assets' = IF IsCurrent(h.job)
                 THEN [assets EXCEPT ![AssetOf[h.job]].status = "failed"]
                 ELSE assets
    /\ UNCHANGED <<steps, requests>>

FinishCancel(h, d) ==
    /\ CleanupLease(h, d)
    /\ jobs' = [jobs EXCEPT ![h.job] = [Unleased(@) EXCEPT
                    !.status = "cancelled", !.cancel = FALSE]]
    /\ assets' = IF IsCurrent(h.job) /\ AssetOf[h.job] \notin requests
                 THEN [assets EXCEPT ![AssetOf[h.job]].status = "ready"]
                 ELSE assets
    /\ UNCHANGED <<steps, requests>>

-----------------------------------------------------------------------------
(* The transactions by what a caller has to present *)

\* Calls that name a job.
JobCall(j, d) ==
    \/ CompleteUpload(j, d)
    \/ RequestCancel(j, d)
    \/ RetryFailedJob(j, d)

\* Calls that present the handle of an earlier claim.
LeaseCall(h, d) ==
    \/ RenewLease(h, d)
    \/ RenewCleanupLease(h, d)
    \/ ReleaseClaim(h, d)
    \/ MarkFailed(h, d)
    \/ FinishCancel(h, d)
    \/ \E delay \in 0..MaxDelay : ScheduleRetry(h, d, delay)

\* Calls that present a handle and read the clock themselves.
PipelineCall(h) ==
    \/ StartPipeline(h)
    \/ CompletePipeline(h)
    \/ \E s \in Stages : CheckpointStep(h, s) \/ ResetStepsFrom(h, s)

-----------------------------------------------------------------------------
(* The clock *)

Lowered(timer) == IF timer > -MaxLag THEN timer - 1 ELSE timer

TickRow(row) ==
    IF row.owner # NoOwner THEN [row EXCEPT !.lease = Lowered(@)]
    ELSE IF row.status \in Pending THEN [row EXCEPT !.wait = Lowered(@)]
    ELSE row

TablesTick ==
    /\ jobs' = [j \in Jobs |-> TickRow(jobs[j])]
    /\ UNCHANGED <<assets, steps, requests>>
=============================================================================
