-------------------------- MODULE JobTablesProofs --------------------------
(***************************************************************************)
(* Lemmas about the transactions of JobTables, whoever calls them: the     *)
(* types of the tables, and what a call may do to a job row, for any set   *)
(* of jobs, assets and owner tokens, any lease, lag and delay, and any     *)
(* number of attempts.                                                     *)
(***************************************************************************)
EXTENDS JobTables, TLAPS


USE DEF Lags

-----------------------------------------------------------------------------
(* Rows *)

\* Every helper that rewrites a job row yields a job row.
LEMMA TimerRanges ==
    /\ 0 \in (-MaxLag)..LeaseSeconds
    /\ 0 \in (-MaxLag)..MaxDelay
    /\ \A d \in Lags : /\ -d \in (-MaxLag)..MaxDelay
                       /\ LeaseSeconds - d \in (-MaxLag)..LeaseSeconds
                       /\ LeaseSeconds - d > 0
  BY TimeAssumption

LEMMA UnleasedType ==
    ASSUME NEW row \in JobRow
    PROVE  Unleased(row) \in JobRow
  BY TimerRanges, Zenon DEF Unleased, JobRow

LEMMA CancelRowType ==
    ASSUME NEW row \in JobRow, NEW d \in Lags
    PROVE  CancelRow(row, d) \in JobRow
<1>1. Unleased(row) \in JobRow
  BY UnleasedType
<1>2. \A r \in JobRow : /\ [r EXCEPT !.cancel = TRUE] \in JobRow
                        /\ [r EXCEPT !.status = "cancelled", !.cancel = FALSE,
                                     !.wait = 0] \in JobRow
  BY TimerRanges, Zenon DEF JobRow, JobStatus, Terminal
<1>3. QED
  BY <1>1, <1>2, Zenon DEF CancelRow

LEMMA RecoverRowType ==
    ASSUME NEW row \in JobRow, NEW d \in Lags, NEW j \in Jobs
    PROVE  RecoverRow(j, row, d) \in JobRow
<1>1. Unleased(row) \in JobRow
  BY UnleasedType
<1>2. \A r \in JobRow : /\ [r EXCEPT !.cancel = TRUE] \in JobRow
                        /\ [r EXCEPT !.status = "queued", !.wait = -d] \in JobRow
  BY TimerRanges, Zenon DEF JobRow, JobStatus, Pending
<1>3. QED
  BY <1>1, <1>2, Zenon DEF RecoverRow

LEMMA DueRowType ==
    ASSUME NEW row \in JobRow, NEW d \in Lags, NEW j \in Jobs
    PROVE  DueRow(j, row, d) \in JobRow
  BY DEF DueRow, JobRow, JobStatus, Terminal, Pending

LEMMA ClaimedRowType ==
    ASSUME NEW row \in JobRow, NEW d \in Lags, NEW o \in Owners
    PROVE  ClaimedRow(row, o, d) \in JobRow
<1>1. row.attempt + 1 \in Nat
  BY DEF JobRow
<1>2. QED
  BY <1>1, TimerRanges, Zenon DEF ClaimedRow, JobRow, JobStatus

LEMMA TickRowType ==
    ASSUME NEW row \in JobRow
    PROVE  TickRow(row) \in JobRow
  BY TimeAssumption DEF TickRow, Lowered, JobRow

LEMMA AbsentJobType == AbsentJob \in JobRow
  BY TimerRanges, StagesAssumption
  DEF AbsentJob, JobRow, JobStatus

-----------------------------------------------------------------------------
(* Types *)

LEMMA JobCallType ==
    ASSUME TablesTypeOK, NEW j \in Jobs, NEW d \in Lags, JobCall(j, d)
    PROVE  TablesTypeOK'
<1>1. AssetOf[j] \in Assets
  BY JobsAssumption
<1>2. CASE CompleteUpload(j, d)
  <2>1. [AbsentJob EXCEPT !.status = "queued", !.wait = -d] \in JobRow
    BY AbsentJobType, TimerRanges, Zenon DEF JobRow, JobStatus, Pending
  <2>2. [status |-> "ready", current |-> j] \in AssetRow
    BY DEF AssetRow, AssetStatus
  <2>3. QED
    BY <1>1, <1>2, <2>1, <2>2 DEF CompleteUpload, TablesTypeOK
<1>3. CASE RequestCancel(j, d)
  BY <1>3, CancelRowType DEF RequestCancel, TablesTypeOK
<1>4. CASE RetryFailedJob(j, d)
  <2>1. jobs[j] \in JobRow
    BY DEF TablesTypeOK
  <2>2. [Unleased(jobs[j]) EXCEPT !.status = "queued", !.wait = -d,
                                  !.cancel = FALSE] \in JobRow
    BY <2>1, UnleasedType, TimerRanges, Zenon DEF JobRow, JobStatus, Pending
  <2>3. QED
    BY <1>4, <2>2 DEF RetryFailedJob, TablesTypeOK
<1>5. QED
  BY <1>2, <1>3, <1>4 DEF JobCall

LEMMA LeaseCallType ==
    ASSUME TablesTypeOK, NEW h \in Handle, NEW d \in Lags, LeaseCall(h, d)
    PROVE  TablesTypeOK'
<1> DEFINE row == jobs[h.job]
<1>1. h.job \in Jobs /\ AssetOf[h.job] \in Assets /\ row \in JobRow
  BY JobsAssumption DEF Handle, TablesTypeOK
<1>2. Unleased(row) \in JobRow /\ Unleased(row).attempt = row.attempt
  BY <1>1, UnleasedType DEF Unleased, JobRow
<1>3. CASE RenewLease(h, d) \/ RenewCleanupLease(h, d)
  <2>1. [row EXCEPT !.lease = LeaseSeconds - d] \in JobRow
    BY <1>1, TimerRanges, Zenon DEF JobRow
  <2>2. QED
    BY <1>1, <1>3, <2>1 DEF RenewLease, RenewCleanupLease, TablesTypeOK
<1>4. CASE ReleaseClaim(h, d)
  <2>1. h.attempt - 1 \in Nat
    BY <1>4 DEF ReleaseClaim, Handle
  <2>2. [Unleased(row) EXCEPT !.status = "retry_wait",
                              !.attempt = h.attempt - 1, !.wait = -d] \in JobRow
    BY <1>2, <2>1, TimerRanges, Zenon DEF JobRow, JobStatus, Pending
  <2>3. QED
    BY <1>1, <1>4, <2>2 DEF ReleaseClaim, TablesTypeOK
<1>5. CASE MarkFailed(h, d)
  <2>1. [Unleased(row) EXCEPT !.status = "failed"] \in JobRow
    BY <1>2, Zenon DEF JobRow, JobStatus, Terminal
  <2>2. assets' \in [Assets -> AssetRow]
    BY <1>1, <1>5 DEF MarkFailed, TablesTypeOK, AssetRow, AssetStatus
  <2>3. QED
    BY <1>1, <1>5, <2>1, <2>2 DEF MarkFailed, TablesTypeOK
<1>6. CASE FinishCancel(h, d)
  <2>1. [Unleased(row) EXCEPT !.status = "cancelled", !.cancel = FALSE]
            \in JobRow
    BY <1>2, Zenon DEF JobRow, JobStatus, Terminal
  <2>2. assets' \in [Assets -> AssetRow]
    BY <1>1, <1>6 DEF FinishCancel, TablesTypeOK, AssetRow, AssetStatus
  <2>3. QED
    BY <1>1, <1>6, <2>1, <2>2 DEF FinishCancel, TablesTypeOK
<1>7. ASSUME NEW delay \in 0..MaxDelay, ScheduleRetry(h, d, delay)
      PROVE  TablesTypeOK'
  <2>1. delay - d \in (-MaxLag)..MaxDelay
    BY TimeAssumption
  <2>2. [Unleased(row) EXCEPT !.status = "retry_wait", !.wait = delay - d]
            \in JobRow
    BY <1>2, <2>1, Zenon DEF JobRow, JobStatus, Pending
  <2>3. QED
    BY <1>1, <1>7, <2>2 DEF ScheduleRetry, TablesTypeOK
<1>8. QED
  BY <1>3, <1>4, <1>5, <1>6, <1>7 DEF LeaseCall

LEMMA PipelineCallType ==
    ASSUME TablesTypeOK, NEW h \in Handle, PipelineCall(h)
    PROVE  TablesTypeOK'
<1> DEFINE row == jobs[h.job]
<1>1. /\ h.job \in Jobs /\ h.attempt \in Nat
      /\ AssetOf[h.job] \in Assets /\ row \in JobRow
      /\ steps[h.job] \in [Stages -> Nat]
  BY JobsAssumption DEF Handle, TablesTypeOK
<1>2. PublishStage \in 0..NumStages /\ Stages \subseteq 0..NumStages
  BY StagesAssumption DEF PublishStage, Stages
<1>3. \A n \in 0..NumStages : [row EXCEPT !.stage = n] \in JobRow
  BY <1>1 DEF JobRow
<1>4. CASE StartPipeline(h)
  BY <1>1, <1>4 DEF StartPipeline, TablesTypeOK, AssetRow, AssetStatus
<1>5. CASE CompletePipeline(h)
  <2>1. [Unleased(row) EXCEPT !.status = "completed", !.stage = PublishStage]
            \in JobRow
    BY <1>1, <1>2, UnleasedType, Zenon DEF JobRow, JobStatus, Terminal
  <2>2. assets' \in [Assets -> AssetRow]
    BY <1>1, <1>5 DEF CompletePipeline, TablesTypeOK, AssetRow, AssetStatus
  <2>3. steps' \in [Jobs -> [Stages -> Nat]]
    BY <1>1, <1>5 DEF CompletePipeline, TablesTypeOK
  <2>4. QED
    BY <1>1, <1>5, <2>1, <2>2, <2>3 DEF CompletePipeline, TablesTypeOK
<1>6. ASSUME NEW s \in Stages, CheckpointStep(h, s)
      PROVE  TablesTypeOK'
  BY <1>1, <1>2, <1>3, <1>6 DEF CheckpointStep, TablesTypeOK
<1>7. ASSUME NEW s \in Stages, ResetStepsFrom(h, s)
      PROVE  TablesTypeOK'
  <2>1. jobs' \in [Jobs -> JobRow]
    BY <1>1, <1>3, <1>7 DEF ResetStepsFrom, TablesTypeOK
  <2>2. steps' \in [Jobs -> [Stages -> Nat]]
    BY <1>1, <1>7 DEF ResetStepsFrom, TablesTypeOK
  <2>3. QED
    BY <1>7, <2>1, <2>2 DEF ResetStepsFrom, TablesTypeOK
<1>8. QED
  BY <1>4, <1>5, <1>6, <1>7 DEF PipelineCall

\* What a claim does to the table before it picks a row.
LEMMA RefreshedJobsType ==
    ASSUME TablesTypeOK, NEW d \in Lags
    PROVE  RefreshedJobs(d) \in [Jobs -> JobRow]
  BY RecoverRowType, DueRowType DEF RefreshedJobs, TablesTypeOK

LEMMA RecoverType ==
    ASSUME TablesTypeOK, NEW d \in Lags,
           RecoverExpiredJobs(d) \/ ClaimFindsNothing(d)
    PROVE  TablesTypeOK'
<1>1. [j \in Jobs |-> RecoverRow(j, jobs[j], d)] \in [Jobs -> JobRow]
  BY RecoverRowType DEF TablesTypeOK
<1>2. QED
  BY <1>1, RefreshedJobsType
  DEF RecoverExpiredJobs, ClaimFindsNothing, TablesTypeOK

LEMMA ClaimType ==
    ASSUME TablesTypeOK, NEW j \in Jobs, NEW o \in Owners, NEW d \in Lags,
           ClaimDueJob(j, o, d)
    PROVE  /\ TablesTypeOK'
           /\ [job |-> j, owner |-> o, attempt |-> jobs'[j].attempt] \in Handle
<1>1. RefreshedJobs(d) \in [Jobs -> JobRow]
  BY RefreshedJobsType
<1>2. ClaimedRow(RefreshedJobs(d)[j], o, d) \in JobRow
  BY <1>1, ClaimedRowType
<1>3. jobs' \in [Jobs -> JobRow]
  BY <1>1, <1>2 DEF ClaimDueJob
<1>4. jobs'[j].attempt \in Nat
  BY <1>3 DEF JobRow
<1>5. QED
  BY <1>3, <1>4 DEF ClaimDueJob, TablesTypeOK, Handle

LEMMA DeletionType ==
    ASSUME TablesTypeOK, NEW a \in Assets,
           \/ \E d \in Lags : PrepareAssetDeletion(a, d)
           \/ FinalizeAssetDeletion(a)
    PROVE  TablesTypeOK'
<1>1. ASSUME NEW d \in Lags, PrepareAssetDeletion(a, d)
      PROVE  TablesTypeOK'
  <2>1. [j \in Jobs |-> IF AssetOf[j] = a THEN CancelRow(jobs[j], d)
                                         ELSE jobs[j]] \in [Jobs -> JobRow]
    BY CancelRowType DEF TablesTypeOK
  <2>2. QED
    BY <1>1, <2>1 DEF PrepareAssetDeletion, TablesTypeOK
<1>2. CASE FinalizeAssetDeletion(a)
  <2>1. jobs' \in [Jobs -> JobRow]
    BY <1>2, AbsentJobType DEF FinalizeAssetDeletion, TablesTypeOK
  <2>2. steps' \in [Jobs -> [Stages -> Nat]]
    BY <1>2 DEF FinalizeAssetDeletion, TablesTypeOK, NoSteps
  <2>3. assets' \in [Assets -> AssetRow]
    BY <1>2 DEF FinalizeAssetDeletion, TablesTypeOK, AssetRow, AssetStatus
  <2>4. QED
    BY <1>2, <2>1, <2>2, <2>3 DEF FinalizeAssetDeletion, TablesTypeOK
<1>3. QED
  BY <1>1, <1>2

LEMMA TickType ==
    ASSUME TablesTypeOK, TablesTick
    PROVE  TablesTypeOK'
  BY TickRowType DEF TablesTick, TablesTypeOK

-----------------------------------------------------------------------------
(* The inductive invariant.  What one job row may look like: *)

RowOK(row) ==
    /\ row.status = "running" => row.attempt > 0 /\ (row.owner # NoOwner \/ row.cancel)
    /\ row.owner # NoOwner \/ row.cancel => row.status = "running"
    /\ row.status = "absent" => row.attempt = 0

\* A row that is rewritten by somebody who does not hold its lease.
SameAttempt(old, new) ==
    /\ new.attempt = old.attempt
    /\ new.stage = old.stage
    /\ new.owner \in {old.owner, NoOwner}
    /\ old.cancel => new.cancel \/ new.owner = NoOwner

LEMMA CancelRowFacts ==
    ASSUME NEW row \in JobRow, NEW d \in Lags, RowOK(row)
    PROVE  /\ RowOK(CancelRow(row, d))
           /\ SameAttempt(row, CancelRow(row, d))
           /\ IF row.status \in Pending
              THEN CancelRow(row, d).status = "cancelled"
              ELSE CancelRow(row, d).status = row.status
           /\ row.status = "running" => CancelRow(row, d).cancel
           /\ Live(row, d) => CancelRow(row, d).owner = row.owner
  BY DEF CancelRow, Unleased, JobRow, RowOK, SameAttempt, Expired, Live, Pending

LEMMA RecoverRowFacts ==
    ASSUME NEW row \in JobRow, NEW d \in Lags, NEW j \in Jobs, RowOK(row)
    PROVE  LET new == RecoverRow(j, row, d) IN
           /\ RowOK(new)
           /\ SameAttempt(row, new)
           /\ \/ new.status = row.status /\ (row.cancel => new.cancel)
              \/ /\ row.status = "running" /\ Expired(row, d)
                 /\ ~row.cancel /\ AssetOf[j] \notin requests
                 /\ new.status = "queued"
           /\ Live(row, d) => new = row
           /\ row.status # "running" => new = row
  BY DEF RecoverRow, Unleased, JobRow, RowOK, SameAttempt, Expired, Live

LEMMA DueRowFacts ==
    ASSUME NEW row \in JobRow, NEW d \in Lags, NEW j \in Jobs, RowOK(row)
    PROVE  LET new == DueRow(j, row, d) IN
           /\ RowOK(new)
           /\ SameAttempt(row, new)
           /\ new.cancel = row.cancel
           /\ new.owner = row.owner
           /\ \/ new = row
              \/ /\ row.status = "retry_wait" /\ AssetOf[j] \notin requests
                 /\ new.status = "queued"
  BY DEF DueRow, JobRow, RowOK, SameAttempt

LEMMA ClaimedRowFacts ==
    ASSUME NEW row \in JobRow, NEW d \in Lags, NEW o \in Owners, RowOK(row)
    PROVE  LET new == ClaimedRow(row, o, d) IN
           /\ RowOK(new)
           /\ new.status = "running"
           /\ new.owner = o
           /\ new.stage = row.stage
           /\ new.cancel <=> row.status = "running"
           /\ row.status = "running" => new.attempt = row.attempt
           /\ row.status # "running" => new.attempt = row.attempt + 1
<1> DEFINE new == ClaimedRow(row, o, d)
<1>1. /\ new.status = "running" /\ new.owner = o /\ new.stage = row.stage
      /\ new.cancel <=> row.status = "running"
      /\ row.status = "running" => new.attempt = row.attempt
      /\ row.status # "running" => new.attempt = row.attempt + 1
  BY Zenon DEF ClaimedRow, JobRow
<1>2. o # NoOwner
  BY JobsAssumption
<1>3. row.status # "running" => new.attempt > 0
  BY <1>1 DEF JobRow
<1>4. QED
  BY <1>1, <1>2, <1>3, Zenon DEF RowOK

LEMMA TickRowFacts ==
    ASSUME NEW row \in JobRow, RowOK(row)
    PROVE  /\ RowOK(TickRow(row))
           /\ SameAttempt(row, TickRow(row))
           /\ TickRow(row).owner = row.owner
           /\ TickRow(row).status = row.status
           /\ TickRow(row).cancel = row.cancel
  BY DEF TickRow, JobRow, RowOK, SameAttempt

-----------------------------------------------------------------------------
(* What every step but a claim does to the rows: a row keeps its claim or    *)
(* gives it up.                                                              *)

KeepsClaim(old, new) ==
    new.owner # NoOwner => /\ new.owner = old.owner
                           /\ new.attempt = old.attempt
                           /\ old.cancel => new.cancel

RowsOK == \A j \in Jobs : RowOK(jobs[j])

RowsKept == \A j \in Jobs : RowOK(jobs'[j]) /\ KeepsClaim(jobs[j], jobs'[j])

\* A step that rewrites one row only.
LEMMA OneRowKept ==
    ASSUME TablesTypeOK, RowsOK, NEW j \in Jobs, NEW row,
           RowOK(row), KeepsClaim(jobs[j], row),
           jobs' = [jobs EXCEPT ![j] = row]
    PROVE  RowsKept
  BY DEF RowsKept, RowsOK, KeepsClaim, TablesTypeOK

\* A row that waits or has ended, without lease and flag.
LEMMA IdleRowKept ==
    ASSUME NEW old, NEW row, row.status \notin {"running", "absent"},
           ~row.cancel, row.owner = NoOwner
    PROVE  RowOK(row) /\ KeepsClaim(old, row)
  BY DEF RowOK, KeepsClaim

LEMMA JobCallRows ==
    ASSUME TablesTypeOK, RowsOK, NEW j \in Jobs, NEW d \in Lags, JobCall(j, d)
    PROVE  RowsKept
<1>1. jobs[j] \in JobRow /\ RowOK(jobs[j])
  BY DEF TablesTypeOK, RowsOK
<1>2. CASE CompleteUpload(j, d)
  <2> DEFINE row == [AbsentJob EXCEPT !.status = "queued", !.wait = -d]
  <2>1. row.status = "queued" /\ row.cancel = FALSE /\ row.owner = NoOwner
    BY Zenon DEF AbsentJob
  <2>2. RowOK(row) /\ KeepsClaim(jobs[j], row)
    BY <2>1, IdleRowKept
  <2>3. QED
    BY <1>2, <2>2, OneRowKept DEF CompleteUpload
<1>3. CASE RequestCancel(j, d)
  <2>1. RowOK(CancelRow(jobs[j], d)) /\ KeepsClaim(jobs[j], CancelRow(jobs[j], d))
    BY <1>1, CancelRowFacts DEF SameAttempt, KeepsClaim
  <2>2. QED
    BY <1>3, <2>1, OneRowKept DEF RequestCancel
<1>4. CASE RetryFailedJob(j, d)
  <2> DEFINE row == [Unleased(jobs[j]) EXCEPT !.status = "queued", !.wait = -d,
                                              !.cancel = FALSE]
  <2>1. row.status = "queued" /\ row.cancel = FALSE /\ row.owner = NoOwner
    BY <1>1, Zenon DEF Unleased, JobRow
  <2>2. RowOK(row) /\ KeepsClaim(jobs[j], row)
    BY <2>1, IdleRowKept
  <2>3. QED
    BY <1>4, <2>2, OneRowKept DEF RetryFailedJob
<1>5. QED
  BY <1>2, <1>3, <1>4 DEF JobCall

LEMMA LeaseCallRows ==
    ASSUME TablesTypeOK, RowsOK, NEW h \in Handle, NEW d \in Lags,
           LeaseCall(h, d)
    PROVE  RowsKept
<1> DEFINE old == jobs[h.job]
<1>1. h.job \in Jobs /\ old \in JobRow /\ RowOK(old)
  BY DEF TablesTypeOK, RowsOK, Handle
<1>2. Unleased(old).owner = NoOwner /\ Unleased(old).cancel = old.cancel
  BY <1>1, Zenon DEF Unleased, JobRow
<1>3. CASE RenewLease(h, d) \/ RenewCleanupLease(h, d)
  <2> DEFINE row == [old EXCEPT !.lease = LeaseSeconds - d]
  <2>1. /\ row.status = old.status /\ row.cancel = old.cancel
        /\ row.owner = old.owner /\ row.attempt = old.attempt
    BY <1>1, Zenon DEF JobRow
  <2>2. RowOK(row) /\ KeepsClaim(old, row)
    BY <1>1, <2>1 DEF RowOK, KeepsClaim
  <2>3. jobs' = [jobs EXCEPT ![h.job] = row]
    BY <1>3, Zenon DEF RenewLease, RenewCleanupLease
  <2>4. QED
    BY <1>1, <2>2, <2>3, OneRowKept
<1>4. CASE ReleaseClaim(h, d)
  <2> DEFINE row == [Unleased(old) EXCEPT !.status = "retry_wait",
                         !.attempt = h.attempt - 1, !.wait = -d]
  <2>1. /\ row.status = "retry_wait" /\ row.cancel = old.cancel
        /\ row.owner = NoOwner
    BY <1>1, Zenon DEF Unleased, JobRow
  <2>2. ~old.cancel
    BY <1>4 DEF ReleaseClaim, HoldsUncancelled
  <2>3. RowOK(row) /\ KeepsClaim(old, row)
    BY <2>1, <2>2, IdleRowKept
  <2>4. QED
    BY <1>1, <1>4, <2>3, OneRowKept DEF ReleaseClaim
<1>5. CASE MarkFailed(h, d)
  <2> DEFINE row == [Unleased(old) EXCEPT !.status = "failed"]
  <2>1. row.status = "failed" /\ row.cancel = old.cancel /\ row.owner = NoOwner
    BY <1>1, Zenon DEF Unleased, JobRow
  <2>2. ~old.cancel
    BY <1>5 DEF MarkFailed, HoldsUncancelled
  <2>3. RowOK(row) /\ KeepsClaim(old, row)
    BY <2>1, <2>2, IdleRowKept
  <2>4. QED
    BY <1>1, <1>5, <2>3, OneRowKept DEF MarkFailed
<1>6. CASE FinishCancel(h, d)
  <2> DEFINE row == [Unleased(old) EXCEPT !.status = "cancelled", !.cancel = FALSE]
  <2>1. row.status = "cancelled" /\ row.cancel = FALSE /\ row.owner = NoOwner
    BY <1>1, Zenon DEF Unleased, JobRow
  <2>2. RowOK(row) /\ KeepsClaim(old, row)
    BY <2>1, IdleRowKept
  <2>3. QED
    BY <1>1, <1>6, <2>2, OneRowKept DEF FinishCancel
<1>7. ASSUME NEW delay \in 0..MaxDelay, ScheduleRetry(h, d, delay)
      PROVE  RowsKept
  <2> DEFINE row == [Unleased(old) EXCEPT !.status = "retry_wait", !.wait = delay - d]
  <2>1. /\ row.status = "retry_wait" /\ row.cancel = old.cancel
        /\ row.owner = NoOwner
    BY <1>1, Zenon DEF Unleased, JobRow
  <2>2. ~old.cancel
    BY <1>7 DEF ScheduleRetry, HoldsUncancelled
  <2>3. RowOK(row) /\ KeepsClaim(old, row)
    BY <2>1, <2>2, IdleRowKept
  <2>4. QED
    BY <1>1, <1>7, <2>3, OneRowKept DEF ScheduleRetry
<1>8. QED
  BY <1>3, <1>4, <1>5, <1>6, <1>7 DEF LeaseCall

LEMMA PipelineCallRows ==
    ASSUME TablesTypeOK, RowsOK, NEW h \in Handle, PipelineCall(h)
    PROVE  RowsKept
<1> DEFINE old == jobs[h.job]
<1>1. h.job \in Jobs /\ old \in JobRow /\ RowOK(old)
  BY DEF TablesTypeOK, RowsOK, Handle
<1>2. \A n : RowOK([old EXCEPT !.stage = n]) /\ KeepsClaim(old, [old EXCEPT !.stage = n])
  <2> SUFFICES ASSUME NEW n
               PROVE  /\ RowOK([old EXCEPT !.stage = n])
                      /\ KeepsClaim(old, [old EXCEPT !.stage = n])
    OBVIOUS
  <2> DEFINE row == [old EXCEPT !.stage = n]
  <2>1. /\ row.status = old.status /\ row.cancel = old.cancel
        /\ row.owner = old.owner /\ row.attempt = old.attempt
    BY <1>1, Zenon DEF JobRow
  <2>2. QED
    BY <1>1, <2>1 DEF RowOK, KeepsClaim
<1>3. CASE StartPipeline(h)
  BY <1>3 DEF StartPipeline, RowsKept, RowsOK, KeepsClaim
<1>4. CASE CompletePipeline(h)
  <2> DEFINE row == [Unleased(old) EXCEPT !.status = "completed",
                                          !.stage = PublishStage]
  <2>1. row.status = "completed" /\ row.cancel = old.cancel /\ row.owner = NoOwner
    BY <1>1, Zenon DEF Unleased, JobRow
  <2>2. ~old.cancel
    BY <1>4 DEF CompletePipeline, CancelNotSeen
  <2>3. RowOK(row) /\ KeepsClaim(old, row)
    BY <2>1, <2>2, IdleRowKept
  <2>4. QED
    BY <1>1, <1>4, <2>3, OneRowKept DEF CompletePipeline
<1>5. ASSUME NEW n, jobs' = [jobs EXCEPT ![h.job].stage = n]
      PROVE  RowsKept
  <2>1. jobs' = [jobs EXCEPT ![h.job] = [old EXCEPT !.stage = n]]
    BY <1>5, Zenon
  <2>2. QED
    BY <1>1, <1>2, <2>1, OneRowKept
<1>6. ASSUME NEW s \in Stages, CheckpointStep(h, s) \/ ResetStepsFrom(h, s)
      PROVE  \E n : jobs' = [jobs EXCEPT ![h.job].stage = n]
  BY <1>6 DEF CheckpointStep, ResetStepsFrom
<1>7. QED
  BY <1>3, <1>4, <1>5, <1>6 DEF PipelineCall

\* One row of the table that recovery, or a claim, leaves behind.
LEMMA RefreshedRow ==
    ASSUME TablesTypeOK, RowsOK, NEW j \in Jobs, NEW d \in Lags
    PROVE  /\ RecoverRow(j, jobs[j], d) \in JobRow
           /\ RowOK(RecoverRow(j, jobs[j], d))
           /\ KeepsClaim(jobs[j], RecoverRow(j, jobs[j], d))
           /\ RefreshedJobs(d)[j] = DueRow(j, RecoverRow(j, jobs[j], d), d)
           /\ RefreshedJobs(d)[j] \in JobRow
           /\ RowOK(RefreshedJobs(d)[j])
           /\ KeepsClaim(jobs[j], RefreshedJobs(d)[j])
<1> DEFINE row == RecoverRow(j, jobs[j], d)
           new == DueRow(j, row, d)
<1>1. jobs[j] \in JobRow /\ RowOK(jobs[j])
  BY DEF TablesTypeOK, RowsOK
<1>2. row \in JobRow
  BY <1>1, RecoverRowType
<1>3. RowOK(row) /\ SameAttempt(jobs[j], row)
  BY <1>1, RecoverRowFacts, Zenon
<1>4. new \in JobRow
  BY <1>2, DueRowType
<1>5. RowOK(new) /\ SameAttempt(row, new)
  BY <1>2, <1>3, DueRowFacts, Zenon
<1>6. RefreshedJobs(d)[j] = new
  BY Zenon DEF RefreshedJobs
<1>7. QED
  BY <1>2, <1>3, <1>4, <1>5, <1>6 DEF SameAttempt, KeepsClaim

LEMMA RecoverRows ==
    ASSUME TablesTypeOK, RowsOK, NEW d \in Lags,
           RecoverExpiredJobs(d) \/ ClaimFindsNothing(d)
    PROVE  RowsKept
<1>1. CASE RecoverExpiredJobs(d)
  BY <1>1, RefreshedRow DEF RecoverExpiredJobs, RowsKept
<1>2. CASE ClaimFindsNothing(d)
  BY <1>2, RefreshedRow DEF ClaimFindsNothing, RowsKept
<1>3. QED
  BY <1>1, <1>2

\* A claim takes one row for its owner and keeps the other ones.
LEMMA ClaimRows ==
    ASSUME TablesTypeOK, RowsOK, NEW j \in Jobs, NEW o \in Owners, NEW d \in Lags,
           ClaimDueJob(j, o, d)
    PROVE  /\ \A k \in Jobs : RowOK(jobs'[k])
           /\ \A k \in Jobs \ {j} : KeepsClaim(jobs[k], jobs'[k])
           /\ jobs'[j].owner = o
<1> DEFINE row == ClaimedRow(RefreshedJobs(d)[j], o, d)
<1>1. \A k \in Jobs : /\ RefreshedJobs(d)[k] \in JobRow
                      /\ RowOK(RefreshedJobs(d)[k])
                      /\ KeepsClaim(jobs[k], RefreshedJobs(d)[k])
  BY RefreshedRow
<1>2. RowOK(row) /\ row.owner = o
  BY <1>1, ClaimedRowFacts
<1>3. jobs' = [RefreshedJobs(d) EXCEPT ![j] = row]
  BY Zenon DEF ClaimDueJob
<1>4. DOMAIN RefreshedJobs(d) = Jobs
  BY DEF RefreshedJobs
<1>5. jobs'[j] = row /\ \A k \in Jobs \ {j} : jobs'[k] = RefreshedJobs(d)[k]
  BY <1>3, <1>4, Zenon
<1>6. QED
  BY <1>1, <1>2, <1>5

LEMMA DeletionRows ==
    ASSUME TablesTypeOK, RowsOK, NEW a \in Assets,
           \/ \E d \in Lags : PrepareAssetDeletion(a, d)
           \/ FinalizeAssetDeletion(a)
    PROVE  RowsKept
<1>1. \A j \in Jobs : RowOK(jobs[j]) /\ KeepsClaim(jobs[j], jobs[j])
  BY DEF RowsOK, KeepsClaim
<1>2. ASSUME NEW d \in Lags, PrepareAssetDeletion(a, d)
      PROVE  RowsKept
  <2>1. ASSUME NEW j \in Jobs
        PROVE  /\ RowOK(CancelRow(jobs[j], d))
               /\ KeepsClaim(jobs[j], CancelRow(jobs[j], d))
    <3>1. jobs[j] \in JobRow
      BY DEF TablesTypeOK
    <3>2. QED
      BY <1>1, <3>1, CancelRowFacts DEF SameAttempt, KeepsClaim
  <2>2. QED
    BY <1>1, <1>2, <2>1 DEF PrepareAssetDeletion, RowsKept
<1>3. CASE FinalizeAssetDeletion(a)
  <2>1. \A j \in Jobs : RowOK(AbsentJob) /\ KeepsClaim(jobs[j], AbsentJob)
    BY DEF RowOK, KeepsClaim, AbsentJob
  <2>2. QED
    BY <1>1, <1>3, <2>1 DEF FinalizeAssetDeletion, RowsKept
<1>4. QED
  BY <1>2, <1>3

LEMMA TickRows ==
    ASSUME TablesTypeOK, RowsOK, TablesTick
    PROVE  RowsKept
<1>1. ASSUME NEW j \in Jobs
      PROVE  RowOK(TickRow(jobs[j])) /\ KeepsClaim(jobs[j], TickRow(jobs[j]))
  <2>1. jobs[j] \in JobRow /\ RowOK(jobs[j])
    BY DEF TablesTypeOK, RowsOK
  <2>2. QED
    BY <2>1, TickRowFacts DEF SameAttempt, KeepsClaim
<1>2. QED
  BY <1>1 DEF TablesTick, RowsKept

-----------------------------------------------------------------------------
(* Attempt numbers: only release_claim lowers one. *)

AttemptsStay == \A j \in Jobs : jobs[j].attempt <= jobs'[j].attempt

\* The calls of the holder of a lease besides release_claim.
QuietCall(h, d) ==
    \/ RenewLease(h, d)
    \/ RenewCleanupLease(h, d)
    \/ MarkFailed(h, d)
    \/ FinishCancel(h, d)
    \/ \E delay \in 0..MaxDelay : ScheduleRetry(h, d, delay)

LEMMA OneAttemptStays ==
    ASSUME TablesTypeOK, NEW j \in Jobs, NEW row,
           row.attempt = jobs[j].attempt,
           jobs' = [jobs EXCEPT ![j] = row]
    PROVE  AttemptsStay
<1>1. \A k \in Jobs : jobs[k].attempt \in Nat
  BY DEF TablesTypeOK, JobRow
<1>2. jobs'[j] = row /\ \A k \in Jobs \ {j} : jobs'[k] = jobs[k]
  BY Zenon DEF TablesTypeOK
<1>3. QED
  BY <1>1, <1>2 DEF AttemptsStay

LEMMA JobCallAttempts ==
    ASSUME TablesTypeOK, RowsOK, NEW j \in Jobs, NEW d \in Lags, JobCall(j, d)
    PROVE  AttemptsStay
<1>1. jobs[j] \in JobRow /\ RowOK(jobs[j])
  BY DEF TablesTypeOK, RowsOK
<1>2. CASE CompleteUpload(j, d)
  <2> DEFINE row == [AbsentJob EXCEPT !.status = "queued", !.wait = -d]
  <2>1. row.attempt = 0
    BY Zenon DEF AbsentJob
  <2>2. jobs[j].attempt = 0
    BY <1>1, <1>2 DEF CompleteUpload, RowOK
  <2>3. QED
    BY <1>2, <2>1, <2>2, OneAttemptStays DEF CompleteUpload
<1>3. CASE RequestCancel(j, d)
  BY <1>1, <1>3, CancelRowFacts, OneAttemptStays DEF RequestCancel, SameAttempt
<1>4. CASE RetryFailedJob(j, d)
  <2> DEFINE row == [Unleased(jobs[j]) EXCEPT !.status = "queued", !.wait = -d,
                                              !.cancel = FALSE]
  <2>1. row.attempt = jobs[j].attempt
    BY <1>1, Zenon DEF Unleased, JobRow
  <2>2. QED
    BY <1>4, <2>1, OneAttemptStays DEF RetryFailedJob
<1>5. QED
  BY <1>2, <1>3, <1>4 DEF JobCall

LEMMA QuietCallAttempts ==
    ASSUME TablesTypeOK, NEW h \in Handle, NEW d \in Lags, QuietCall(h, d)
    PROVE  AttemptsStay
<1> DEFINE old == jobs[h.job]
<1>1. h.job \in Jobs /\ old \in JobRow
  BY DEF TablesTypeOK, Handle
<1>2. CASE RenewLease(h, d) \/ RenewCleanupLease(h, d)
  <2>1. [old EXCEPT !.lease = LeaseSeconds - d].attempt = old.attempt
    BY <1>1, Zenon DEF JobRow
  <2>2. jobs' = [jobs EXCEPT ![h.job] = [old EXCEPT !.lease = LeaseSeconds - d]]
    BY <1>2, Zenon DEF RenewLease, RenewCleanupLease
  <2>3. QED
    BY <1>1, <2>1, <2>2, OneAttemptStays
<1>3. CASE MarkFailed(h, d)
  <2>1. [Unleased(old) EXCEPT !.status = "failed"].attempt = old.attempt
    BY <1>1, Zenon DEF Unleased, JobRow
  <2>2. QED
    BY <1>1, <1>3, <2>1, OneAttemptStays DEF MarkFailed
<1>4. CASE FinishCancel(h, d)
  <2>1. [Unleased(old) EXCEPT !.status = "cancelled", !.cancel = FALSE].attempt
            = old.attempt
    BY <1>1, Zenon DEF Unleased, JobRow
  <2>2. QED
    BY <1>1, <1>4, <2>1, OneAttemptStays DEF FinishCancel
<1>5. ASSUME NEW delay \in 0..MaxDelay, ScheduleRetry(h, d, delay)
      PROVE  AttemptsStay
  <2>1. [Unleased(old) EXCEPT !.status = "retry_wait", !.wait = delay - d].attempt
            = old.attempt
    BY <1>1, Zenon DEF Unleased, JobRow
  <2>2. QED
    BY <1>1, <1>5, <2>1, OneAttemptStays DEF ScheduleRetry
<1>6. QED
  BY <1>2, <1>3, <1>4, <1>5 DEF QuietCall

LEMMA PipelineCallAttempts ==
    ASSUME TablesTypeOK, NEW h \in Handle, PipelineCall(h)
    PROVE  AttemptsStay
<1> DEFINE old == jobs[h.job]
<1>1. h.job \in Jobs /\ old \in JobRow
  BY DEF TablesTypeOK, Handle
<1>2. CASE StartPipeline(h)
  <2>1. \A k \in Jobs : jobs[k].attempt \in Nat
    BY DEF TablesTypeOK, JobRow
  <2>2. QED
    BY <1>2, <2>1 DEF StartPipeline, AttemptsStay
<1>3. CASE CompletePipeline(h)
  <2>1. [Unleased(old) EXCEPT !.status = "completed", !.stage = PublishStage].attempt
            = old.attempt
    BY <1>1, Zenon DEF Unleased, JobRow
  <2>2. QED
    BY <1>1, <1>3, <2>1, OneAttemptStays DEF CompletePipeline
<1>4. ASSUME NEW n, jobs' = [jobs EXCEPT ![h.job].stage = n]
      PROVE  AttemptsStay
  <2>1. [old EXCEPT !.stage = n].attempt = old.attempt
    BY <1>1, Zenon DEF JobRow
  <2>2. jobs' = [jobs EXCEPT ![h.job] = [old EXCEPT !.stage = n]]
    BY <1>4, Zenon
  <2>3. QED
    BY <1>1, <2>1, <2>2, OneAttemptStays
<1>5. ASSUME NEW s \in Stages, CheckpointStep(h, s) \/ ResetStepsFrom(h, s)
      PROVE  \E n : jobs' = [jobs EXCEPT ![h.job].stage = n]
  BY <1>5 DEF CheckpointStep, ResetStepsFrom
<1>6. QED
  BY <1>2, <1>3, <1>4, <1>5 DEF PipelineCall

LEMMA RefreshedAttempt ==
    ASSUME TablesTypeOK, RowsOK, NEW j \in Jobs, NEW d \in Lags
    PROVE  RefreshedJobs(d)[j].attempt = jobs[j].attempt
<1> DEFINE row == RecoverRow(j, jobs[j], d)
<1>1. jobs[j] \in JobRow /\ RowOK(jobs[j])
  BY DEF TablesTypeOK, RowsOK
<1>2. row \in JobRow /\ RowOK(row) /\ row.attempt = jobs[j].attempt
  BY <1>1, RecoverRowType, RecoverRowFacts, Zenon DEF SameAttempt
<1>3. DueRow(j, row, d).attempt = row.attempt
  BY <1>2, DueRowFacts, Zenon DEF SameAttempt
<1>4. QED
  BY <1>2, <1>3, RefreshedRow

LEMMA SweepAttempts ==
    ASSUME TablesTypeOK, RowsOK, NEW d \in Lags, ClaimFindsNothing(d) \/ TablesTick
    PROVE  AttemptsStay
<1>1. \A j \in Jobs : /\ jobs[j] \in JobRow /\ RowOK(jobs[j])
                      /\ jobs[j].attempt \in Nat
  BY DEF TablesTypeOK, RowsOK, JobRow
<1>2. CASE ClaimFindsNothing(d)
  BY <1>1, <1>2, RefreshedAttempt DEF ClaimFindsNothing, AttemptsStay
<1>3. CASE TablesTick
  BY <1>1, <1>3, TickRowFacts DEF TablesTick, AttemptsStay, SameAttempt
<1>4. QED
  BY <1>2, <1>3

\* A claim for a new attempt raises the number, a claim for a cleanup keeps it
\* and finds the flag set.
LEMMA ClaimAttempts ==
    ASSUME TablesTypeOK, RowsOK, NEW j \in Jobs, NEW o \in Owners, NEW d \in Lags,
           ClaimDueJob(j, o, d)
    PROVE  /\ AttemptsStay
           /\ jobs'[j].cancel \/ jobs'[j].attempt = jobs[j].attempt + 1
<1> DEFINE old == RefreshedJobs(d)[j]
           row == ClaimedRow(old, o, d)
<1>1. \A k \in Jobs : /\ RefreshedJobs(d)[k].attempt = jobs[k].attempt
                      /\ jobs[k].attempt \in Nat
  BY RefreshedAttempt DEF TablesTypeOK, JobRow
<1>2. old \in JobRow /\ RowOK(old)
  BY RefreshedRow
<1>3. \/ row.cancel /\ row.attempt = old.attempt
      \/ row.attempt = old.attempt + 1
  BY <1>2, ClaimedRowFacts
<1>4. jobs' = [RefreshedJobs(d) EXCEPT ![j] = row]
  BY Zenon DEF ClaimDueJob
<1>5. DOMAIN RefreshedJobs(d) = Jobs
  BY DEF RefreshedJobs
<1>6. jobs'[j] = row /\ \A k \in Jobs \ {j} : jobs'[k] = RefreshedJobs(d)[k]
  BY <1>4, <1>5, Zenon
<1> HIDE DEF row
<1>7. QED
  BY <1>1, <1>3, <1>6 DEF AttemptsStay

LEMMA ReleaseAttempts ==
    ASSUME TablesTypeOK, NEW h \in Handle, NEW d \in Lags, ReleaseClaim(h, d)
    PROVE  /\ jobs'[h.job].attempt = h.attempt - 1
           /\ \A k \in Jobs \ {h.job} : jobs'[k] = jobs[k]
<1> DEFINE old == jobs[h.job]
           row == [Unleased(old) EXCEPT !.status = "retry_wait",
                       !.attempt = h.attempt - 1, !.wait = -d]
<1>1. h.job \in Jobs /\ old \in JobRow
  BY DEF TablesTypeOK, Handle
<1>2. row.attempt = h.attempt - 1
  BY <1>1, Zenon DEF Unleased, JobRow
<1>3. jobs' = [jobs EXCEPT ![h.job] = row]
  BY Zenon DEF ReleaseClaim
<1>4. QED
  BY <1>1, <1>2, <1>3, Zenon DEF TablesTypeOK
=============================================================================
