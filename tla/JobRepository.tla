--------------------------- MODULE JobRepository ---------------------------
(***************************************************************************)
(* recorded_video/repository.py under its most general client: any number *)
(* of workers and API requests call any of its transactions in any order.  *)
(* A worker keeps the handle of every claim it won and may use it long     *)
(* after the lease is gone; a crash forgets handles and leaves the tables. *)
(*                                                                         *)
(* soft_delete_asset and the transactions on upload sessions are outside   *)
(* this module.                                                            *)
(***************************************************************************)
EXTENDS JobTables

VARIABLES claims,    \* handles of claims that some process still holds
          deleters   \* assets with a deletion request past prepare_asset_deletion

vars == <<tables, claims, deleters>>

RepositoryInit == TablesInit /\ claims = {} /\ deleters = {}

\* Mutant: the token names the worker process, not the claim.
TokenOfProcess(o) == o \in Owners

\* A claim is made with an owner token no row and no process has.
Fresh(o) == /\ \A c \in claims : c.owner # o
            /\ \A j \in Jobs : jobs[j].owner # o

Claim(j, o, d) ==
    /\ Fresh(o)
    /\ ClaimDueJob(j, o, d)
    /\ claims' = claims \cup
           {[job |-> j, owner |-> o, attempt |-> jobs'[j].attempt]}
    /\ UNCHANGED deleters

\* The calls that made these claims have returned, or their process crashed.
Forget(gone) ==
    /\ claims' = claims \ gone
    /\ UNCHANGED <<tables, deleters>>

\* DeletionService.delete goes on after prepare_asset_deletion only when no
\* job of the asset is running and the asset is not deleted yet.
BeginDeletion(a, d) ==
    /\ PrepareAssetDeletion(a, d)
    /\ deleters' = IF HasRunningJob(a, jobs') \/ assets[a].status = "deleted"
                   THEN deleters
                   ELSE deleters \cup {a}
    /\ UNCHANGED claims

EndDeletion(a) ==
    /\ a \in deleters
    /\ FinalizeAssetDeletion(a)
    /\ deleters' = deleters \ {a}
    /\ UNCHANGED claims

AbortDeletion(a) ==
    /\ deleters' = deleters \ {a}
    /\ UNCHANGED <<tables, claims>>

Tick == TablesTick /\ UNCHANGED <<claims, deleters>>

Next ==
    \/ \E j \in Jobs, d \in Lags : JobCall(j, d) /\ UNCHANGED <<claims, deleters>>
    \/ \E h \in claims, d \in Lags :
           LeaseCall(h, d) /\ UNCHANGED <<claims, deleters>>
    \/ \E h \in claims : PipelineCall(h) /\ UNCHANGED <<claims, deleters>>
    \/ \E d \in Lags : RecoverExpiredJobs(d) /\ UNCHANGED <<claims, deleters>>
    \/ \E d \in Lags : ClaimFindsNothing(d) /\ UNCHANGED <<claims, deleters>>
    \/ \E j \in Jobs, o \in Owners, d \in Lags : Claim(j, o, d)
    \/ \E gone \in SUBSET claims : Forget(gone)
    \/ \E a \in Assets, d \in Lags : BeginDeletion(a, d)
    \/ \E a \in Assets : EndDeletion(a) \/ AbortDeletion(a)
    \/ Tick

Spec == RepositoryInit /\ [][Next]_vars

-----------------------------------------------------------------------------
(* Invariants *)

\* Types of the tables and of the clients' handles (models.py, _SCHEMA).
TypeOK ==
    /\ TablesTypeOK
    /\ claims \subseteq Handle
    /\ deleters \subseteq Assets

\* No job is lost: a running row is either leased, so that its expiry can be
\* recovered, or is waiting for cancellation cleanup, the only two kinds of
\* running row that _recover_expired_jobs and claim_due_job select.  Leases and
\* cancel flags never survive on a row that is not running.
RunningRowsAreReclaimable ==
    \A j \in Jobs :
        /\ jobs[j].status = "running" => jobs[j].owner # NoOwner \/ jobs[j].cancel
        /\ jobs[j].owner # NoOwner \/ jobs[j].cancel => jobs[j].status = "running"

\* An owner token stands for one claim: whoever still holds a handle whose
\* owner is in a row holds exactly that row's job and attempt.  So a stale
\* handle can pass no fence, although release_claim hands attempt numbers out
\* again and a cleanup claim keeps the number of the attempt it cleans up.
OwnerNamesOneClaim ==
    \A h \in claims :
        /\ \A j \in Jobs : jobs[j].owner = h.owner =>
               h.job = j /\ h.attempt = jobs[j].attempt
        /\ \A g \in claims : g.owner = h.owner => g = h

\* jobs.stage, which the worker's log and checkpoint_step's regression test
\* read, is the latest row of job_steps after any mix of checkpoint_step,
\* reset_steps_from and complete_pipeline.
StageIsLatestStep ==
    \A j \in Jobs : IsLatestStage(jobs[j].stage, steps[j])

\* A running attempt has a number above 0, so that its checkpoints can be told
\* from a missing row (release_claim's "attempt > 0" never has to refuse).
RunningAttemptsArePositive ==
    \A j \in Jobs : jobs[j].status = "running" => jobs[j].attempt > 0

\* A completed job has a checkpoint for each of the seven stages, the publish
\* one written by the attempt the row names (is_asset_search_ready joins them).
CompletedJobsAreComplete ==
    \A j \in Jobs : jobs[j].status = "completed" =>
        /\ \A s \in Stages : steps[j][s] # 0
        /\ steps[j][PublishStage] = jobs[j].attempt

\* What GET /assets shows agrees with the outcome of the asset's current job:
\* ready once it is completed, failed once it has failed.
AssetShowsOutcome ==
    \A a \in Assets : LET j == assets[a].current IN j # NoJob =>
        /\ AssetOf[j] = a /\ jobs[j].status # "absent"
        /\ jobs[j].status = "completed" => assets[a].status = "ready"
        /\ jobs[j].status = "failed" => assets[a].status = "failed"

\* While an asset's deletion is requested none of its jobs can start or keep
\* an attempt: each is terminal or runs only to be cleaned up.
DeletionStopsJobs ==
    \A a \in requests :
        /\ assets[a].status \notin {"uploading", "deleted"}
        /\ \A j \in Jobs : AssetOf[j] = a =>
               \/ jobs[j].status \in Terminal \cup {"absent"}
               \/ jobs[j].status = "running" /\ jobs[j].cancel

\* A deleted asset has no job, no checkpoint and no deletion request left, and
\* a job exists only after its asset's upload.
DeletedAssetsAreEmpty ==
    \A j \in Jobs :
        /\ assets[AssetOf[j]].status \in {"uploading", "deleted"} =>
               jobs[j].status = "absent"
        /\ jobs[j].status = "absent" => steps[j] = NoSteps

\* The tables agree with each other after every transaction: jobs with their
\* checkpoints, assets with their current jobs, deletions with both.
TablesAgree ==
    /\ StageIsLatestStep /\ CompletedJobsAreComplete
    /\ AssetShowsOutcome /\ DeletionStopsJobs /\ DeletedAssetsAreEmpty

-----------------------------------------------------------------------------
(* Action properties *)

\* While a lease is live nobody but its holder moves the job: the row stays
\* with its owner and attempt until the holder gives it up, with a retry, a
\* release or an outcome.  Claims, recovery and cancellation by others, with
\* clocks that lag behind, never take it away.
LiveLeaseKept ==
    [][\A j \in Jobs :
        jobs[j].status = "running" /\ Live(jobs[j], 0) =>
            \/ /\ jobs'[j].status = "running"
               /\ jobs'[j].owner = jobs[j].owner
               /\ jobs'[j].attempt = jobs[j].attempt
            \/ jobs'[j].status \in Terminal \cup {"retry_wait"}]_vars

\* is_asset_search_ready for the documents of one attempt.
SearchReady(j, attempt) ==
    /\ IsCurrent(j)
    /\ assets[AssetOf[j]].status = "ready"
    /\ jobs[j].status = "completed"
    /\ jobs[j].attempt = attempt
    /\ steps[j][PublishStage] # 0

\* Once an attempt's documents are searchable they stay so until the asset is
\* deleted or a job of a newer version replaces its current job: no retry,
\* cancellation, recovery or late caller takes them back.
SearchReadinessIsStable ==
    [][\A j \in Jobs : SearchReady(j, jobs[j].attempt) =>
           \/ SearchReady(j, jobs[j].attempt)'
           \/ assets'[AssetOf[j]].status = "deleted"
           \/ assets'[AssetOf[j]].current # j]_vars

-----------------------------------------------------------------------------
(* The abstract lifecycle *)

PhaseOf(row) ==
    IF row.status \in Pending THEN "waiting"
    ELSE IF row.status # "running" THEN row.status
    ELSE IF row.cancel THEN "cancelling" ELSE "executing"

Lifecycle == INSTANCE JobLifecycle WITH
    phase <- [j \in Jobs |-> PhaseOf(jobs[j])],
    holder <- [j \in Jobs |-> jobs[j].owner],
    lapsed <- [j \in Jobs |-> Expired(jobs[j], 0)]

\* The tables and their transactions implement the abstract job lifecycle.
ImplementsLifecycle == Lifecycle!Spec
=============================================================================
