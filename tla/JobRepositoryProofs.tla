------------------------ MODULE JobRepositoryProofs ------------------------
(***************************************************************************)
(* Proofs about JobRepository for any set of jobs, assets and owner        *)
(* tokens, any lease, lag and delay, and any number of attempts: types,    *)
(* leases, claims, and that jobs, checkpoints, assets and deletion         *)
(* requests agree.                                                         *)
(***************************************************************************)
EXTENDS JobRepository, UploadSessions, JobTablesProofs, FiniteSetTheorems

USE DEF Lags

-----------------------------------------------------------------------------
(* Types *)

THEOREM TypeCorrect == Spec => []TypeOK
<1>1. RepositoryInit => TypeOK
  <2> SUFFICES ASSUME RepositoryInit PROVE TypeOK
    OBVIOUS
  <2>1. jobs \in [Jobs -> JobRow]
    BY AbsentJobType DEF RepositoryInit, TablesInit
  <2>2. assets \in [Assets -> AssetRow]
    BY DEF RepositoryInit, TablesInit, AssetRow, AssetStatus
  <2>3. QED
    BY <2>1, <2>2
    DEF RepositoryInit, TablesInit, TypeOK, TablesTypeOK, NoSteps
<1>2. TypeOK /\ [Next]_vars => TypeOK'
  <2> SUFFICES ASSUME TypeOK, [Next]_vars PROVE TypeOK'
    OBVIOUS
  <2>1. TablesTypeOK /\ claims \subseteq Handle /\ deleters \subseteq Assets
    BY DEF TypeOK
  <2>2. ASSUME NEW j \in Jobs, NEW d \in Lags,
               JobCall(j, d) /\ UNCHANGED <<claims, deleters>>
        PROVE  TypeOK'
    BY <2>1, <2>2, JobCallType DEF TypeOK
  <2>3. ASSUME NEW h \in claims, NEW d \in Lags,
               LeaseCall(h, d) /\ UNCHANGED <<claims, deleters>>
        PROVE  TypeOK'
    BY <2>1, <2>3, LeaseCallType DEF TypeOK
  <2>4. ASSUME NEW h \in claims,
               PipelineCall(h) /\ UNCHANGED <<claims, deleters>>
        PROVE  TypeOK'
    BY <2>1, <2>4, PipelineCallType DEF TypeOK
  <2>5. ASSUME NEW d \in Lags, RecoverExpiredJobs(d) \/ ClaimFindsNothing(d),
               UNCHANGED <<claims, deleters>>
        PROVE  TypeOK'
    BY <2>1, <2>5, RecoverType DEF TypeOK
  <2>6. ASSUME NEW j \in Jobs, NEW o \in Owners, NEW d \in Lags, Claim(j, o, d)
        PROVE  TypeOK'
    BY <2>1, <2>6, ClaimType DEF TypeOK, Claim
  <2>7. ASSUME NEW gone \in SUBSET claims, Forget(gone)
        PROVE  TypeOK'
    BY <2>1, <2>7 DEF TypeOK, Forget, tables, TablesTypeOK
  <2>8. ASSUME NEW a \in Assets, NEW d \in Lags, BeginDeletion(a, d)
        PROVE  TypeOK'
    BY <2>1, <2>8, DeletionType DEF TypeOK, BeginDeletion
  <2>9. ASSUME NEW a \in Assets, EndDeletion(a)
        PROVE  TypeOK'
    BY <2>1, <2>9, DeletionType DEF TypeOK, EndDeletion
  <2>10. ASSUME NEW a \in Assets, AbortDeletion(a)
         PROVE  TypeOK'
    BY <2>1, <2>10 DEF TypeOK, AbortDeletion, tables, TablesTypeOK
  <2>11. CASE Tick
    BY <2>1, <2>11, TickType DEF TypeOK, Tick
  <2>12. CASE UNCHANGED vars
    BY <2>1, <2>12 DEF TypeOK, vars, tables, TablesTypeOK
  <2>13. QED
    BY <2>2, <2>3, <2>4, <2>5, <2>6, <2>7, <2>8, <2>9, <2>10, <2>11, <2>12
    DEF Next
<1>3. QED
  BY <1>1, <1>2, PTL DEF Spec

-----------------------------------------------------------------------------
(* Claims *)

\* The inductive invariant about rows and handles.
RowInv == TypeOK /\ RowsOK /\ OwnerNamesOneClaim

LEMMA StepKeepsRowsOrClaims ==
    ASSUME TypeOK, RowsOK, [Next]_vars
    PROVE  \/ RowsKept /\ claims' \subseteq claims
           \/ \E j \in Jobs, o \in Owners, d \in Lags : Claim(j, o, d)
<1>1. TablesTypeOK /\ claims \subseteq Handle
  BY DEF TypeOK
<1>2. UNCHANGED tables => RowsKept
  BY DEF tables, RowsKept, RowsOK, KeepsClaim
<1>3. ASSUME NEW j \in Jobs, NEW d \in Lags,
             JobCall(j, d) /\ UNCHANGED <<claims, deleters>>
      PROVE  RowsKept /\ claims' \subseteq claims
  BY <1>1, <1>3, JobCallRows
<1>4. ASSUME NEW h \in claims, NEW d \in Lags,
             LeaseCall(h, d) /\ UNCHANGED <<claims, deleters>>
      PROVE  RowsKept /\ claims' \subseteq claims
  BY <1>1, <1>4, LeaseCallRows
<1>5. ASSUME NEW h \in claims, PipelineCall(h) /\ UNCHANGED <<claims, deleters>>
      PROVE  RowsKept /\ claims' \subseteq claims
  BY <1>1, <1>5, PipelineCallRows
<1>6. ASSUME NEW d \in Lags, RecoverExpiredJobs(d) \/ ClaimFindsNothing(d),
             UNCHANGED <<claims, deleters>>
      PROVE  RowsKept /\ claims' \subseteq claims
  BY <1>1, <1>6, RecoverRows
<1>7. ASSUME NEW gone \in SUBSET claims, Forget(gone)
      PROVE  RowsKept /\ claims' \subseteq claims
  BY <1>2, <1>7 DEF Forget
<1>8. ASSUME NEW a \in Assets, NEW d \in Lags, BeginDeletion(a, d)
      PROVE  RowsKept /\ claims' \subseteq claims
  BY <1>1, <1>8, DeletionRows DEF BeginDeletion
<1>9. ASSUME NEW a \in Assets, EndDeletion(a)
      PROVE  RowsKept /\ claims' \subseteq claims
  BY <1>1, <1>9, DeletionRows DEF EndDeletion
<1>10. ASSUME NEW a \in Assets, AbortDeletion(a)
       PROVE  RowsKept /\ claims' \subseteq claims
  BY <1>2, <1>10 DEF AbortDeletion
<1>11. CASE Tick
  BY <1>1, <1>11, TickRows DEF Tick
<1>12. CASE UNCHANGED vars
  BY <1>2, <1>12 DEF vars
<1>13. QED
  BY <1>3, <1>4, <1>5, <1>6, <1>7, <1>8, <1>9, <1>10, <1>11, <1>12 DEF Next

\* A row that gives up its claim, or keeps it, names no handle it did not name.
LEMMA KeptRowsNameOneClaim ==
    ASSUME TypeOK, OwnerNamesOneClaim, RowsKept, claims' \subseteq claims
    PROVE  OwnerNamesOneClaim'
<1>1. \A h \in claims : h.owner # NoOwner
  BY JobsAssumption DEF TypeOK, Handle
<1>2. ASSUME NEW h \in claims', NEW j \in Jobs, jobs'[j].owner = h.owner
      PROVE  h.job = j /\ h.attempt = jobs'[j].attempt
  <2>1. jobs[j].owner = h.owner /\ jobs'[j].attempt = jobs[j].attempt
    BY <1>1, <1>2 DEF RowsKept, KeepsClaim
  <2>2. QED
    BY <2>1, <1>2 DEF OwnerNamesOneClaim
<1>3. \A h, g \in claims' : g.owner = h.owner => g = h
  BY DEF OwnerNamesOneClaim
<1>4. QED
  BY <1>2, <1>3 DEF OwnerNamesOneClaim

\* The token of a new claim is in no other row and no other handle.
LEMMA NewClaimIsTheOnlyOne ==
    ASSUME TypeOK, RowsOK, OwnerNamesOneClaim,
           NEW j \in Jobs, NEW o \in Owners, NEW d \in Lags, Claim(j, o, d)
    PROVE  (\A k \in Jobs : RowOK(jobs'[k])) /\ OwnerNamesOneClaim'
<1> DEFINE new == [job |-> j, owner |-> o, attempt |-> jobs'[j].attempt]
<1>1. /\ \A k \in Jobs : RowOK(jobs'[k])
      /\ \A k \in Jobs \ {j} : KeepsClaim(jobs[k], jobs'[k])
      /\ jobs'[j].owner = o
  BY ClaimRows DEF Claim, TypeOK
<1>2. claims' = claims \cup {new} /\ new.job = j /\ new.owner = o
      /\ new.attempt = jobs'[j].attempt
  BY DEF Claim
<1>3. \A h \in claims : h.owner # o /\ h.owner # NoOwner
  BY JobsAssumption DEF Claim, Fresh, TypeOK, Handle
<1>4. \A k \in Jobs \ {j} : jobs'[k].owner # o
  <2>1. \A k \in Jobs : jobs[k].owner # o
    BY DEF Claim, Fresh
  <2>2. o # NoOwner
    BY JobsAssumption
  <2>3. QED
    BY <1>1, <2>1, <2>2 DEF KeepsClaim
<1>5. ASSUME NEW h \in claims', NEW k \in Jobs, jobs'[k].owner = h.owner
      PROVE  h.job = k /\ h.attempt = jobs'[k].attempt
  <2>1. CASE h = new
    <3>1. k = j
      BY <1>2, <1>4, <1>5, <2>1
    <3>2. QED
      BY <1>2, <2>1, <3>1
  <2>2. CASE h \in claims
    <3>1. k # j
      BY <1>1, <1>3, <1>5, <2>2
    <3>2. jobs[k].owner = h.owner /\ jobs'[k].attempt = jobs[k].attempt
      BY <1>1, <1>3, <1>5, <2>2, <3>1 DEF KeepsClaim
    <3>3. QED
      BY <2>2, <3>2 DEF OwnerNamesOneClaim
  <2>3. QED
    BY <1>2, <2>1, <2>2
<1>6. \A h, g \in claims' : g.owner = h.owner => g = h
  BY <1>2, <1>3 DEF OwnerNamesOneClaim
<1>7. QED
  BY <1>1, <1>5, <1>6 DEF OwnerNamesOneClaim

LEMMA RowInvariant == Spec => []RowInv
<1>1. RepositoryInit => RowsOK /\ OwnerNamesOneClaim
  BY DEF RepositoryInit, TablesInit, RowsOK, RowOK, AbsentJob, OwnerNamesOneClaim
<1>2. TypeOK /\ RowsOK /\ OwnerNamesOneClaim /\ [Next]_vars
          => RowsOK' /\ OwnerNamesOneClaim'
  <2> SUFFICES ASSUME TypeOK, RowsOK, OwnerNamesOneClaim, [Next]_vars
               PROVE  RowsOK' /\ OwnerNamesOneClaim'
    OBVIOUS
  <2>1. CASE RowsKept /\ claims' \subseteq claims
    BY <2>1, KeptRowsNameOneClaim DEF RowsOK, RowsKept, RowOK
  <2>2. ASSUME NEW j \in Jobs, NEW o \in Owners, NEW d \in Lags, Claim(j, o, d)
        PROVE  RowsOK' /\ OwnerNamesOneClaim'
    BY <2>2, NewClaimIsTheOnlyOne DEF RowsOK, RowOK
  <2>3. QED
    BY <2>1, <2>2, StepKeepsRowsOrClaims
<1>3. QED
  BY <1>1, <1>2, TypeCorrect, PTL DEF Spec, RowInv

\* Every running row can be recovered or cleaned up, for any number of jobs,
\* workers and late callers (_recover_expired_jobs, claim_due_job).
THEOREM RowsAreReclaimable ==
    Spec => [](RunningRowsAreReclaimable /\ RunningAttemptsArePositive)
<1>1. RowInv => RunningRowsAreReclaimable /\ RunningAttemptsArePositive
  BY DEF RowInv, RowsOK, RowOK, RunningRowsAreReclaimable,
         RunningAttemptsArePositive
<1>2. QED
  BY <1>1, RowInvariant, PTL

\* The lease fences (lease_owner and attempt in every UPDATE) let in nobody but
\* the claim the row was given to.
THEOREM ClaimsAreExclusive == Spec => []OwnerNamesOneClaim
  BY RowInvariant, PTL DEF RowInv

-----------------------------------------------------------------------------
(* Live leases *)

\* What may become of a row whose lease is live for every caller.
GivenUp(row) == row.status \in Terminal \cup {"retry_wait"}

LeaseRespected(old, new) ==
    old.status = "running" /\ Live(old, 0) =>
        \/ /\ new.status = "running"
           /\ new.owner = old.owner /\ new.attempt = old.attempt
        \/ GivenUp(new)

LeasesRespected == \A j \in Jobs : LeaseRespected(jobs[j], jobs'[j])

LEMMA LiveForAll ==
    ASSUME NEW row \in JobRow, NEW d \in Lags, Live(row, 0)
    PROVE  Live(row, d) /\ ~Expired(row, d)
  BY TimeAssumption DEF Live, Expired, JobRow

LEMMA OneLeaseRespected ==
    ASSUME TablesTypeOK, NEW j \in Jobs, NEW row, LeaseRespected(jobs[j], row),
           jobs' = [jobs EXCEPT ![j] = row]
    PROVE  LeasesRespected
<1>1. jobs'[j] = row /\ \A k \in Jobs \ {j} : jobs'[k] = jobs[k]
  BY DEF TablesTypeOK
<1>2. QED
  BY <1>1 DEF LeasesRespected, LeaseRespected

LEMMA CancelRowRespects ==
    ASSUME NEW row \in JobRow, NEW d \in Lags, RowOK(row)
    PROVE  LeaseRespected(row, CancelRow(row, d))
  BY CancelRowFacts, LiveForAll, Zenon
  DEF LeaseRespected, SameAttempt, GivenUp, Terminal

\* Recovery and the queueing of due retries leave a live row as it is.
LEMMA RefreshedRowRespects ==
    ASSUME NEW row \in JobRow, NEW j \in Jobs, NEW d \in Lags, RowOK(row),
           row.status = "running", Live(row, 0)
    PROVE  /\ RecoverRow(j, row, d) = row
           /\ DueRow(j, RecoverRow(j, row, d), d) = row
<1>1. RecoverRow(j, row, d) = row
  BY LiveForAll, Zenon DEF RecoverRow
<1>2. DueRow(j, row, d) = row
  BY Zenon DEF DueRow
<1>3. QED
  BY <1>1, <1>2

LEMMA JobCallRespects ==
    ASSUME TablesTypeOK, RowsOK, NEW j \in Jobs, NEW d \in Lags, JobCall(j, d)
    PROVE  LeasesRespected
<1>1. jobs[j] \in JobRow /\ RowOK(jobs[j])
  BY DEF TablesTypeOK, RowsOK
<1>2. CASE RequestCancel(j, d)
  BY <1>1, <1>2, CancelRowRespects, OneLeaseRespected DEF RequestCancel
<1>3. CASE CompleteUpload(j, d) \/ RetryFailedJob(j, d)
  <2>1. jobs[j].status # "running"
    BY <1>3 DEF CompleteUpload, RetryFailedJob
  <2>2. \A row : LeaseRespected(jobs[j], row)
    BY <2>1 DEF LeaseRespected
  <2>3. \E row : jobs' = [jobs EXCEPT ![j] = row]
    BY <1>3, Zenon DEF CompleteUpload, RetryFailedJob
  <2>4. QED
    BY <2>2, <2>3, OneLeaseRespected
<1>4. QED
  BY <1>2, <1>3 DEF JobCall

LEMMA LeaseCallRespects ==
    ASSUME TablesTypeOK, RowsOK, NEW h \in Handle, NEW d \in Lags,
           LeaseCall(h, d)
    PROVE  LeasesRespected
<1> DEFINE old == jobs[h.job]
<1>1. h.job \in Jobs /\ old \in JobRow /\ Unleased(old) \in JobRow
  BY UnleasedType DEF TablesTypeOK, Handle
<1>2. ASSUME NEW row, GivenUp(row), jobs' = [jobs EXCEPT ![h.job] = row]
      PROVE  LeasesRespected
  BY <1>1, <1>2, OneLeaseRespected DEF LeaseRespected
<1>3. CASE RenewLease(h, d) \/ RenewCleanupLease(h, d)
  <2> DEFINE row == [old EXCEPT !.lease = LeaseSeconds - d]
  <2>1. /\ row.status = old.status
        /\ row.owner = old.owner /\ row.attempt = old.attempt
    BY <1>1, Zenon DEF JobRow
  <2>2. LeaseRespected(old, row)
    BY <2>1 DEF LeaseRespected
  <2>3. jobs' = [jobs EXCEPT ![h.job] = row]
    BY <1>3, Zenon DEF RenewLease, RenewCleanupLease
  <2>4. QED
    BY <1>1, <2>2, <2>3, OneLeaseRespected
<1>4. CASE ReleaseClaim(h, d)
  <2> DEFINE row == [Unleased(old) EXCEPT !.status = "retry_wait",
                         !.attempt = h.attempt - 1, !.wait = -d]
  <2>1. GivenUp(row)
    BY <1>1, Zenon DEF GivenUp, JobRow
  <2>2. QED
    BY <1>2, <1>4, <2>1 DEF ReleaseClaim
<1>5. CASE MarkFailed(h, d)
  <2> DEFINE row == [Unleased(old) EXCEPT !.status = "failed"]
  <2>1. GivenUp(row)
    BY <1>1, Zenon DEF GivenUp, Terminal, JobRow
  <2>2. QED
    BY <1>2, <1>5, <2>1 DEF MarkFailed
<1>6. CASE FinishCancel(h, d)
  <2> DEFINE row == [Unleased(old) EXCEPT !.status = "cancelled", !.cancel = FALSE]
  <2>1. GivenUp(row)
    BY <1>1, Zenon DEF GivenUp, Terminal, JobRow
  <2>2. QED
    BY <1>2, <1>6, <2>1 DEF FinishCancel
<1>7. ASSUME NEW delay \in 0..MaxDelay, ScheduleRetry(h, d, delay)
      PROVE  LeasesRespected
  <2> DEFINE row == [Unleased(old) EXCEPT !.status = "retry_wait", !.wait = delay - d]
  <2>1. GivenUp(row)
    BY <1>1, Zenon DEF GivenUp, JobRow
  <2>2. QED
    BY <1>2, <1>7, <2>1 DEF ScheduleRetry
<1>8. QED
  BY <1>3, <1>4, <1>5, <1>6, <1>7 DEF LeaseCall

LEMMA PipelineCallRespects ==
    ASSUME TablesTypeOK, RowsOK, NEW h \in Handle, PipelineCall(h)
    PROVE  LeasesRespected
<1> DEFINE old == jobs[h.job]
<1>1. h.job \in Jobs /\ old \in JobRow /\ Unleased(old) \in JobRow
  BY UnleasedType DEF TablesTypeOK, Handle
<1>2. CASE StartPipeline(h)
  BY <1>2 DEF StartPipeline, LeasesRespected, LeaseRespected
<1>3. CASE CompletePipeline(h)
  <2> DEFINE row == [Unleased(old) EXCEPT !.status = "completed",
                                          !.stage = PublishStage]
  <2>1. GivenUp(row)
    BY <1>1, Zenon DEF GivenUp, Terminal, JobRow
  <2>2. LeaseRespected(old, row)
    BY <2>1 DEF LeaseRespected
  <2>3. QED
    BY <1>1, <1>3, <2>2, OneLeaseRespected DEF CompletePipeline
<1>4. ASSUME NEW n, jobs' = [jobs EXCEPT ![h.job].stage = n]
      PROVE  LeasesRespected
  <2> DEFINE row == [old EXCEPT !.stage = n]
  <2>1. /\ row.status = old.status
        /\ row.owner = old.owner /\ row.attempt = old.attempt
    BY <1>1, Zenon DEF JobRow
  <2>2. LeaseRespected(old, row)
    BY <2>1 DEF LeaseRespected
  <2>3. jobs' = [jobs EXCEPT ![h.job] = row]
    BY <1>4, Zenon
  <2>4. QED
    BY <1>1, <2>2, <2>3, OneLeaseRespected
<1>5. ASSUME NEW s \in Stages, CheckpointStep(h, s) \/ ResetStepsFrom(h, s)
      PROVE  \E n : jobs' = [jobs EXCEPT ![h.job].stage = n]
  BY <1>5 DEF CheckpointStep, ResetStepsFrom
<1>6. QED
  BY <1>2, <1>3, <1>4, <1>5 DEF PipelineCall

LEMMA RecoverRespects ==
    ASSUME TablesTypeOK, RowsOK, NEW d \in Lags,
           RecoverExpiredJobs(d) \/ ClaimFindsNothing(d)
    PROVE  LeasesRespected
<1>1. ASSUME NEW j \in Jobs, jobs[j].status = "running", Live(jobs[j], 0)
      PROVE  jobs'[j] = jobs[j]
  <2>1. jobs[j] \in JobRow /\ RowOK(jobs[j])
    BY DEF TablesTypeOK, RowsOK
  <2>2. /\ RecoverRow(j, jobs[j], d) = jobs[j]
        /\ DueRow(j, RecoverRow(j, jobs[j], d), d) = jobs[j]
    BY <1>1, <2>1, RefreshedRowRespects
  <2>3. QED
    BY <2>2 DEF RecoverExpiredJobs, ClaimFindsNothing, RefreshedJobs
<1>2. QED
  BY <1>1 DEF LeasesRespected, LeaseRespected

LEMMA ClaimRespects ==
    ASSUME TablesTypeOK, RowsOK, NEW j \in Jobs, NEW o \in Owners, NEW d \in Lags,
           ClaimDueJob(j, o, d)
    PROVE  LeasesRespected
<1>1. ASSUME NEW k \in Jobs, jobs[k].status = "running", Live(jobs[k], 0)
      PROVE  jobs'[k] = jobs[k]
  <2>1. jobs[k] \in JobRow /\ RowOK(jobs[k])
    BY DEF TablesTypeOK, RowsOK
  <2>2. RefreshedJobs(d)[k] = jobs[k]
    BY <1>1, <2>1, RefreshedRowRespects DEF RefreshedJobs
  <2>3. Live(jobs[k], d)
    BY <1>1, <2>1, LiveForAll
  <2>4. k # j
    BY <1>1, <2>2, <2>3 DEF ClaimDueJob, Claimable, DueForCleanup, DueForAttempt
  <2>5. jobs'[k] = RefreshedJobs(d)[k]
    BY <2>4, Zenon DEF ClaimDueJob, RefreshedJobs
  <2>6. QED
    BY <2>2, <2>5
<1>2. QED
  BY <1>1 DEF LeasesRespected, LeaseRespected

LEMMA DeletionRespects ==
    ASSUME TablesTypeOK, RowsOK, NEW a \in Assets,
           \/ \E d \in Lags : PrepareAssetDeletion(a, d)
           \/ FinalizeAssetDeletion(a)
    PROVE  LeasesRespected
<1>1. ASSUME NEW d \in Lags, PrepareAssetDeletion(a, d)
      PROVE  LeasesRespected
  <2>1. ASSUME NEW j \in Jobs
        PROVE  LeaseRespected(jobs[j], CancelRow(jobs[j], d))
    BY CancelRowRespects DEF TablesTypeOK, RowsOK
  <2>2. \A j \in Jobs : LeaseRespected(jobs[j], jobs[j])
    BY DEF LeaseRespected
  <2>3. QED
    BY <1>1, <2>1, <2>2 DEF PrepareAssetDeletion, LeasesRespected
<1>2. CASE FinalizeAssetDeletion(a)
  <2>1. \A j \in Jobs : jobs[j].status = "running" => jobs'[j] = jobs[j]
    BY <1>2 DEF FinalizeAssetDeletion, HasRunningJob
  <2>2. QED
    BY <2>1 DEF LeasesRespected, LeaseRespected
<1>3. QED
  BY <1>1, <1>2

LEMMA TickRespects ==
    ASSUME TablesTypeOK, RowsOK, TablesTick
    PROVE  LeasesRespected
<1>1. ASSUME NEW j \in Jobs
      PROVE  LeaseRespected(jobs[j], TickRow(jobs[j]))
  <2>1. jobs[j] \in JobRow /\ RowOK(jobs[j])
    BY DEF TablesTypeOK, RowsOK
  <2>2. QED
    BY <2>1, TickRowFacts DEF SameAttempt, LeaseRespected
<1>2. QED
  BY <1>1 DEF TablesTick, LeasesRespected

\* A live lease is taken away by no other worker's claim or recovery and by no
\* API call, however late their clock readings are (claim_due_job,
\* _recover_expired_jobs, request_cancel, prepare_asset_deletion).
THEOREM LiveLeasesAreKept == Spec => LiveLeaseKept
<1>1. ASSUME TypeOK, RowsOK, [Next]_vars
      PROVE  LeasesRespected
  <2>1. TablesTypeOK /\ claims \subseteq Handle
    BY <1>1 DEF TypeOK
  <2>2. UNCHANGED jobs => LeasesRespected
    BY DEF LeasesRespected, LeaseRespected
  <2>3. ASSUME NEW j \in Jobs, NEW d \in Lags, JobCall(j, d)
        PROVE  LeasesRespected
    BY <1>1, <2>1, <2>3, JobCallRespects
  <2>4. ASSUME NEW h \in claims, NEW d \in Lags, LeaseCall(h, d)
        PROVE  LeasesRespected
    BY <1>1, <2>1, <2>4, LeaseCallRespects
  <2>5. ASSUME NEW h \in claims, PipelineCall(h)
        PROVE  LeasesRespected
    BY <1>1, <2>1, <2>5, PipelineCallRespects
  <2>6. ASSUME NEW d \in Lags, RecoverExpiredJobs(d) \/ ClaimFindsNothing(d)
        PROVE  LeasesRespected
    BY <1>1, <2>1, <2>6, RecoverRespects
  <2>7. ASSUME NEW j \in Jobs, NEW o \in Owners, NEW d \in Lags, Claim(j, o, d)
        PROVE  LeasesRespected
    BY <1>1, <2>1, <2>7, ClaimRespects DEF Claim
  <2>8. ASSUME NEW a \in Assets, NEW d \in Lags, BeginDeletion(a, d)
        PROVE  LeasesRespected
    BY <1>1, <2>1, <2>8, DeletionRespects DEF BeginDeletion
  <2>9. ASSUME NEW a \in Assets, EndDeletion(a)
        PROVE  LeasesRespected
    BY <1>1, <2>1, <2>9, DeletionRespects DEF EndDeletion
  <2>10. CASE Tick
    BY <1>1, <2>1, <2>10, TickRespects DEF Tick
  <2>11. CASE UNCHANGED tables
    BY <2>2, <2>11 DEF tables
  <2>12. QED
    BY <1>1, <2>3, <2>4, <2>5, <2>6, <2>7, <2>8, <2>9, <2>10, <2>11
    DEF Next, Forget, AbortDeletion, vars
<1>2. TypeOK /\ RowsOK /\ [Next]_vars =>
        [\A j \in Jobs :
            jobs[j].status = "running" /\ Live(jobs[j], 0) =>
                \/ /\ jobs'[j].status = "running"
                   /\ jobs'[j].owner = jobs[j].owner
                   /\ jobs'[j].attempt = jobs[j].attempt
                \/ jobs'[j].status \in Terminal \cup {"retry_wait"}]_vars
  BY <1>1 DEF LeasesRespected, LeaseRespected, GivenUp
<1>3. QED
  BY <1>2, RowInvariant, PTL DEF Spec, LiveLeaseKept, RowInv

-----------------------------------------------------------------------------
(* The agreement of the tables: moves of job rows *)

\* Most transactions move job rows only, and RowMoves says which moves cannot break
\* the agreement; the others, which also write assets, steps or requests, are taken
\* one by one.

\* The row can start no attempt.
Stopped(row) == \/ row.status \in Terminal \cup {"absent"}
                \/ row.status = "running" /\ row.cancel

RowMoves(j, old, new) ==
    /\ new.stage = old.stage
    /\ (new.status = "absent") <=> (old.status = "absent")
    /\ new.status = "completed" =>
           old.status = "completed" /\ new.attempt = old.attempt
    /\ old.status = "completed" => new.status = "completed"
    /\ new.status = "failed" => old.status = "failed"
    /\ AssetOf[j] \in requests /\ Stopped(old) => Stopped(new)

\* What a transaction must keep: the agreement, and the documents that were
\* searchable before it, unless it deletes the asset or makes another job current.
ReadyKept ==
    \A j \in Jobs : SearchReady(j, jobs[j].attempt) =>
        \/ SearchReady(j, jobs[j].attempt)'
        \/ assets'[AssetOf[j]].status = "deleted"
        \/ assets'[AssetOf[j]].current # j
AgreementKept == TablesAgree' /\ ReadyKept

\* A transaction that only moves job rows, each of them so, keeps the agreement.
LEMMA MovesKeepAgreement ==
    ASSUME TablesTypeOK, TablesAgree,
           \A j \in Jobs : RowMoves(j, jobs[j], jobs'[j]),
           UNCHANGED <<assets, steps, requests>>
    PROVE  AgreementKept
<1>1. StageIsLatestStep'
  BY DEF TablesAgree, StageIsLatestStep, RowMoves
<1>2. CompletedJobsAreComplete'
  BY DEF TablesAgree, CompletedJobsAreComplete, RowMoves
<1>3. AssetShowsOutcome'
  <2> SUFFICES ASSUME NEW a \in Assets, assets[a].current # NoJob
               PROVE  LET j == assets[a].current IN
                      /\ AssetOf[j] = a /\ jobs'[j].status # "absent"
                      /\ jobs'[j].status = "completed" => assets[a].status = "ready"
                      /\ jobs'[j].status = "failed" => assets[a].status = "failed"
    BY DEF AssetShowsOutcome
  <2>1. assets[a].current \in Jobs
    BY DEF TablesTypeOK, AssetRow
  <2>2. QED
    BY <2>1 DEF TablesAgree, AssetShowsOutcome, RowMoves
<1>4. DeletionStopsJobs'
  BY DEF TablesAgree, DeletionStopsJobs, RowMoves, Stopped
<1>5. DeletedAssetsAreEmpty'
  BY DEF TablesAgree, DeletedAssetsAreEmpty, RowMoves
<1>6. ReadyKept
  BY DEF ReadyKept, SearchReady, IsCurrent, RowMoves
<1>7. QED
  BY <1>1, <1>2, <1>3, <1>4, <1>5, <1>6 DEF AgreementKept, TablesAgree

\* A transaction that rewrites one row, by such a move.
LEMMA OneMoveKeepsAgreement ==
    ASSUME TablesTypeOK, TablesAgree, NEW j \in Jobs, NEW row,
           RowMoves(j, jobs[j], row),
           jobs' = [jobs EXCEPT ![j] = row],
           UNCHANGED <<assets, steps, requests>>
    PROVE  AgreementKept
<1>1. \A k \in Jobs : RowMoves(k, jobs[k], jobs'[k])
  BY DEF TablesTypeOK, RowMoves
<1>2. QED
  BY <1>1, MovesKeepAgreement

\* Cancelling, recovering, refreshing, claiming and ageing rows are such moves.
LEMMA CancelRowMoves ==
    ASSUME NEW j \in Jobs, NEW d \in Lags, NEW row \in JobRow, RowOK(row)
    PROVE  /\ RowMoves(j, row, CancelRow(row, d))
           /\ Stopped(CancelRow(row, d))
<1>1. row.status \in JobStatus
  BY DEF JobRow
<1>2. QED
  BY <1>1, CancelRowFacts
  DEF RowMoves, Stopped, SameAttempt, JobStatus, Pending, Terminal

LEMMA RecoverRowMoves ==
    ASSUME NEW j \in Jobs, NEW d \in Lags, NEW row \in JobRow, RowOK(row)
    PROVE  RowMoves(j, row, RecoverRow(j, row, d))
<1> DEFINE new == RecoverRow(j, row, d)
<1>1. /\ SameAttempt(row, new)
      /\ \/ new.status = row.status /\ (row.cancel => new.cancel)
         \/ row.status = "running" /\ AssetOf[j] \notin requests /\ new.status = "queued"
  BY RecoverRowFacts
<1> HIDE DEF new
<1>2. RowMoves(j, row, new)
  BY <1>1 DEF RowMoves, Stopped, SameAttempt, Terminal
<1>3. QED
  BY <1>2 DEF new

LEMMA RefreshedRowMoves ==
    ASSUME TablesTypeOK, RowsOK, NEW j \in Jobs, NEW d \in Lags
    PROVE  RowMoves(j, jobs[j], RefreshedJobs(d)[j])
<1> DEFINE row == RecoverRow(j, jobs[j], d)
           new == DueRow(j, row, d)
<1>1. RefreshedJobs(d)[j] = new /\ row \in JobRow /\ RowOK(row)
  BY RefreshedRow
<1>2. RowMoves(j, jobs[j], row)
  BY RecoverRowMoves DEF TablesTypeOK, RowsOK
<1>3. /\ SameAttempt(row, new)
      /\ \/ new = row
         \/ /\ row.status = "retry_wait" /\ AssetOf[j] \notin requests
            /\ new.status = "queued"
  BY <1>1, DueRowFacts
<1> HIDE DEF row, new
<1>4. RowMoves(j, row, new)
  BY <1>3 DEF RowMoves, Stopped, SameAttempt, Terminal
<1>5. RowMoves(j, jobs[j], new)
  BY <1>2, <1>4 DEF RowMoves
<1>6. QED
  BY <1>1, <1>5 DEF new

LEMMA ClaimMoves ==
    ASSUME TablesTypeOK, RowsOK, TablesAgree,
           NEW j \in Jobs, NEW o \in Owners, NEW d \in Lags, ClaimDueJob(j, o, d)
    PROVE  AgreementKept
<1> DEFINE row == RefreshedJobs(d)[j]
           new == ClaimedRow(row, o, d)
<1>1. \A k \in Jobs : RowMoves(k, jobs[k], RefreshedJobs(d)[k])
  BY RefreshedRowMoves
<1>2. row \in JobRow /\ RowOK(row)
  BY RefreshedRow
<1>3. new.status = "running" /\ new.stage = row.stage /\ (new.cancel <=> row.status = "running")
  BY <1>2, ClaimedRowFacts
<1>4. \/ row.status = "running" /\ row.cancel
      \/ row.status = "queued" /\ AssetOf[j] \notin requests
  BY DEF ClaimDueJob, Claimable, DueForCleanup, DueForAttempt
<1>5. jobs' = [RefreshedJobs(d) EXCEPT ![j] = new] /\ UNCHANGED <<assets, steps, requests>>
  BY Zenon DEF ClaimDueJob
<1>6. DOMAIN RefreshedJobs(d) = Jobs
  BY DEF RefreshedJobs
<1>7. jobs'[j] = new /\ \A k \in Jobs \ {j} : jobs'[k] = RefreshedJobs(d)[k]
  BY <1>5, <1>6, Zenon
<1> HIDE DEF row, new
<1>8. RowMoves(j, row, new)
  BY <1>3, <1>4 DEF RowMoves, Stopped, Terminal
<1>9. RowMoves(j, jobs[j], row)
  BY <1>1 DEF row
<1>10. RowMoves(j, jobs[j], new)
  BY <1>8, <1>9 DEF RowMoves
<1>11. \A k \in Jobs : RowMoves(k, jobs[k], jobs'[k])
  BY <1>1, <1>7, <1>10
<1>12. QED
  BY <1>5, <1>11, MovesKeepAgreement

LEMMA SweepMoves ==
    ASSUME TablesTypeOK, RowsOK, TablesAgree, NEW d \in Lags,
           RecoverExpiredJobs(d) \/ ClaimFindsNothing(d) \/ TablesTick
    PROVE  AgreementKept
<1>1. \A j \in Jobs : jobs[j] \in JobRow /\ RowOK(jobs[j])
  BY DEF TablesTypeOK, RowsOK
<1>2. CASE RecoverExpiredJobs(d)
  <2>1. \A j \in Jobs : RowMoves(j, jobs[j], jobs'[j])
    BY <1>1, <1>2, RecoverRowMoves DEF RecoverExpiredJobs
  <2>2. QED
    BY <1>2, <2>1, MovesKeepAgreement DEF RecoverExpiredJobs
<1>3. CASE ClaimFindsNothing(d)
  <2>1. \A j \in Jobs : RowMoves(j, jobs[j], jobs'[j])
    BY <1>3, RefreshedRowMoves DEF ClaimFindsNothing
  <2>2. QED
    BY <1>3, <2>1, MovesKeepAgreement DEF ClaimFindsNothing
<1>4. CASE TablesTick
  <2>1. \A j \in Jobs : RowMoves(j, jobs[j], TickRow(jobs[j]))
    BY <1>1, TickRowFacts DEF RowMoves, Stopped, SameAttempt
  <2>2. \A j \in Jobs : RowMoves(j, jobs[j], jobs'[j])
    BY <1>4, <2>1 DEF TablesTick
  <2>3. QED
    BY <1>4, <2>2, MovesKeepAgreement DEF TablesTick
<1>5. QED
  BY <1>2, <1>3, <1>4

-----------------------------------------------------------------------------
(* Transactions of a claim's holder *)

\* The row and the checkpoints of one running job change, and with them the
\* status of its asset when the job is the asset's current one.
LEMMA HolderKeepsAgreement ==
    ASSUME TablesTypeOK, TablesAgree,
           NEW j \in Jobs, jobs[j].status = "running",
           NEW row, NEW marks,
           jobs' = [jobs EXCEPT ![j] = row],
           steps' = [steps EXCEPT ![j] = marks],
           UNCHANGED requests,
           row.status # "absent",
           IsLatestStage(row.stage, marks),
           row.status = "completed" =>
               (\A s \in Stages : marks[s] # 0) /\ marks[PublishStage] = row.attempt,
           AssetOf[j] \in requests => Stopped(row),
           NEW shown \in {"ready", "processing", "failed"},
           \/ /\ assets' = assets
              /\ IsCurrent(j) => row.status \notin {"completed", "failed"}
           \/ /\ IsCurrent(j)
              /\ assets' = [assets EXCEPT ![AssetOf[j]].status = shown]
              /\ row.status = "completed" => shown = "ready"
              /\ row.status = "failed" => shown = "failed"
    PROVE  AgreementKept
<1>1. /\ jobs'[j] = row /\ \A k \in Jobs \ {j} : jobs'[k] = jobs[k]
      /\ steps'[j] = marks /\ \A k \in Jobs \ {j} : steps'[k] = steps[k]
  BY DEF TablesTypeOK
<1>2. /\ AssetOf[j] \in Assets
      /\ assets[AssetOf[j]].status \notin {"uploading", "deleted"}
  BY JobsAssumption DEF TablesAgree, DeletedAssetsAreEmpty
<1>3. \A a \in Assets : /\ assets'[a].current = assets[a].current
                        /\ assets'[a].status # assets[a].status =>
                               /\ a = AssetOf[j] /\ IsCurrent(j)
                               /\ assets'[a].status \notin {"uploading", "deleted"}
  <2>1. CASE assets' = assets
    BY <2>1
  <2>2. ASSUME IsCurrent(j), NEW a \in Assets,
               assets' = [assets EXCEPT ![AssetOf[j]].status = shown]
        PROVE  /\ assets'[a].current = assets[a].current
               /\ a = AssetOf[j] => assets'[a].status = shown
               /\ a # AssetOf[j] => assets'[a].status = assets[a].status
    BY <1>2, <2>2 DEF TablesTypeOK, AssetRow
  <2>3. QED
    BY <2>1, <2>2
<1>4. StageIsLatestStep'
  BY <1>1 DEF TablesAgree, StageIsLatestStep
<1>5. CompletedJobsAreComplete'
  BY <1>1 DEF TablesAgree, CompletedJobsAreComplete
<1>6. AssetShowsOutcome'
  <2> SUFFICES ASSUME NEW a \in Assets, assets'[a].current # NoJob
               PROVE  LET k == assets'[a].current IN
                      /\ AssetOf[k] = a /\ jobs'[k].status # "absent"
                      /\ jobs'[k].status = "completed" => assets'[a].status = "ready"
                      /\ jobs'[k].status = "failed" => assets'[a].status = "failed"
    BY DEF AssetShowsOutcome
  <2> DEFINE k == assets[a].current
  <2>1. k \in Jobs /\ assets'[a].current = k
    BY <1>3 DEF TablesTypeOK, AssetRow
  <2>2. /\ AssetOf[k] = a /\ jobs[k].status # "absent"
        /\ jobs[k].status = "completed" => assets[a].status = "ready"
        /\ jobs[k].status = "failed" => assets[a].status = "failed"
    BY <1>3 DEF TablesAgree, AssetShowsOutcome
  <2>3. CASE k = j
    <3>1. IsCurrent(j) /\ a = AssetOf[j]
      BY <1>2, <2>2, <2>3 DEF IsCurrent
    <3>2. \/ row.status \notin {"completed", "failed"}
          \/ /\ assets'[a].status = shown
             /\ row.status = "completed" => shown = "ready"
             /\ row.status = "failed" => shown = "failed"
      BY <1>2, <3>1 DEF TablesTypeOK, AssetRow
    <3>3. QED
      BY <1>1, <2>1, <2>2, <2>3, <3>2
  <2>4. CASE k # j
    <3>1. assets'[a].status = assets[a].status
      BY <1>3, <2>2, <2>4 DEF IsCurrent
    <3>2. QED
      BY <1>1, <2>1, <2>2, <2>4, <3>1
  <2>5. QED
    BY <2>3, <2>4
<1>7. DeletionStopsJobs'
  <2>1. \A a \in requests : assets'[a].status \notin {"uploading", "deleted"}
    BY <1>3 DEF TablesAgree, DeletionStopsJobs, TablesTypeOK
  <2>2. \A a \in requests, k \in Jobs : AssetOf[k] = a => Stopped(jobs'[k])
    BY <1>1 DEF TablesAgree, DeletionStopsJobs, Stopped
  <2>3. QED
    BY <2>1, <2>2 DEF DeletionStopsJobs, Stopped
<1>8. DeletedAssetsAreEmpty'
  <2>1. \A k \in Jobs : AssetOf[k] \in Assets
    BY JobsAssumption
  <2>2. \A k \in Jobs : assets'[AssetOf[k]].status \in {"uploading", "deleted"} =>
            k # j /\ jobs[k].status = "absent"
    BY <1>2, <1>3, <2>1 DEF TablesAgree, DeletedAssetsAreEmpty
  <2>3. QED
    BY <1>1, <2>2 DEF TablesAgree, DeletedAssetsAreEmpty
<1>9. ReadyKept
  <2> SUFFICES ASSUME NEW k \in Jobs, SearchReady(k, jobs[k].attempt)
               PROVE  SearchReady(k, jobs[k].attempt)'
    BY DEF ReadyKept
  <2>1. k # j /\ AssetOf[k] \in Assets /\ (AssetOf[k] = AssetOf[j] => ~IsCurrent(j))
    BY JobsAssumption DEF SearchReady, IsCurrent
  <2>2. /\ assets'[AssetOf[k]].current = assets[AssetOf[k]].current
        /\ assets'[AssetOf[k]].status = assets[AssetOf[k]].status
    BY <1>3, <2>1
  <2>3. QED
    BY <1>1, <2>1, <2>2 DEF SearchReady, IsCurrent
<1>10. QED
  BY <1>4, <1>5, <1>6, <1>7, <1>8, <1>9 DEF AgreementKept, TablesAgree

\* While a deletion is requested a job runs only to be cleaned up.
LEMMA UncancelledMeansUnrequested ==
    ASSUME TablesTypeOK, TablesAgree, NEW j \in Jobs,
           jobs[j].status = "running", ~jobs[j].cancel
    PROVE  AssetOf[j] \notin requests
  BY DEF TablesAgree, DeletionStopsJobs, Terminal

LEMMA LeaseCallAgrees ==
    ASSUME TablesTypeOK, TablesAgree, NEW h \in Handle, NEW d \in Lags,
           LeaseCall(h, d)
    PROVE  AgreementKept
<1> DEFINE old == jobs[h.job]
           marks == steps[h.job]
<1>1. /\ h.job \in Jobs /\ old \in JobRow
      /\ Unleased(old).stage = old.stage /\ Unleased(old).cancel = old.cancel
      /\ AssetOf[h.job] \in Assets
  BY JobsAssumption DEF TablesTypeOK, Handle, Unleased, JobRow
<1>2. IsLatestStage(old.stage, marks) /\ steps = [steps EXCEPT ![h.job] = marks]
  BY <1>1 DEF TablesAgree, StageIsLatestStep, TablesTypeOK
<1>3. old.status = "running"
  BY DEF LeaseCall, RenewLease, RenewCleanupLease, ReleaseClaim, MarkFailed,
         FinishCancel, ScheduleRetry, HoldsUncancelled, CleanupLease, Holds
<1>4. ~old.cancel => AssetOf[h.job] \notin requests
  BY <1>1, <1>3, UncancelledMeansUnrequested
<1>5. CASE RenewLease(h, d) \/ RenewCleanupLease(h, d)
  <2> DEFINE row == [old EXCEPT !.lease = LeaseSeconds - d]
  <2>1. /\ row.status = old.status /\ row.cancel = old.cancel
        /\ row.stage = old.stage
    BY <1>1, Zenon DEF JobRow
  <2>2. RowMoves(h.job, old, row)
    BY <1>3, <2>1 DEF RowMoves, Stopped
  <2>3. jobs' = [jobs EXCEPT ![h.job] = row] /\ UNCHANGED <<assets, steps, requests>>
    BY <1>5, Zenon DEF RenewLease, RenewCleanupLease
  <2>4. QED
    BY <1>1, <2>2, <2>3, OneMoveKeepsAgreement
<1>6. CASE ReleaseClaim(h, d)
  <2> DEFINE row == [Unleased(old) EXCEPT !.status = "retry_wait",
                         !.attempt = h.attempt - 1, !.wait = -d]
  <2>1. row.status = "retry_wait" /\ row.stage = old.stage
    BY <1>1, Zenon DEF Unleased, JobRow
  <2>2. ~old.cancel
    BY <1>6 DEF ReleaseClaim, HoldsUncancelled
  <2>3. RowMoves(h.job, old, row)
    BY <1>3, <1>4, <2>1, <2>2 DEF RowMoves
  <2>4. QED
    BY <1>1, <1>6, <2>3, OneMoveKeepsAgreement DEF ReleaseClaim
<1>7. CASE MarkFailed(h, d)
  <2> DEFINE row == [Unleased(old) EXCEPT !.status = "failed"]
  <2>1. row.status = "failed" /\ row.stage = old.stage
    BY <1>1, Zenon DEF Unleased, JobRow
  <2>2. Stopped(row)
    BY <2>1 DEF Stopped, Terminal
  <2>3. /\ jobs' = [jobs EXCEPT ![h.job] = row]
        /\ UNCHANGED <<steps, requests>>
        /\ assets' = IF IsCurrent(h.job)
                     THEN [assets EXCEPT ![AssetOf[h.job]].status = "failed"]
                     ELSE assets
    BY <1>7 DEF MarkFailed
  <2> HIDE DEF row
  <2>4. QED
    BY <1>1, <1>2, <1>3, <2>1, <2>2, <2>3, HolderKeepsAgreement
<1>8. CASE FinishCancel(h, d)
  <2> DEFINE row == [Unleased(old) EXCEPT !.status = "cancelled", !.cancel = FALSE]
  <2>1. row.status = "cancelled" /\ row.stage = old.stage
    BY <1>1, Zenon DEF Unleased, JobRow
  <2>2. Stopped(row)
    BY <2>1 DEF Stopped, Terminal
  <2>3. /\ jobs' = [jobs EXCEPT ![h.job] = row]
        /\ UNCHANGED <<steps, requests>>
        /\ assets' = IF IsCurrent(h.job) /\ AssetOf[h.job] \notin requests
                     THEN [assets EXCEPT ![AssetOf[h.job]].status = "ready"]
                     ELSE assets
    BY <1>8 DEF FinishCancel
  <2> HIDE DEF row
  <2>4. QED
    BY <1>1, <1>2, <1>3, <2>1, <2>2, <2>3, HolderKeepsAgreement
<1>9. ASSUME NEW delay \in 0..MaxDelay, ScheduleRetry(h, d, delay)
      PROVE  AgreementKept
  <2> DEFINE row == [Unleased(old) EXCEPT !.status = "retry_wait", !.wait = delay - d]
  <2>1. row.status = "retry_wait" /\ row.stage = old.stage
    BY <1>1, Zenon DEF Unleased, JobRow
  <2>2. ~old.cancel
    BY <1>9 DEF ScheduleRetry, HoldsUncancelled
  <2>3. RowMoves(h.job, old, row)
    BY <1>3, <1>4, <2>1, <2>2 DEF RowMoves
  <2>4. QED
    BY <1>1, <1>9, <2>3, OneMoveKeepsAgreement DEF ScheduleRetry
<1>10. QED
  BY <1>5, <1>6, <1>7, <1>8, <1>9 DEF LeaseCall

\* Checkpoints and the latest stage among them.
LEMMA PipelineCallAgrees ==
    ASSUME TablesTypeOK, RowsOK, TablesAgree, NEW h \in Handle, PipelineCall(h)
    PROVE  AgreementKept
<1> DEFINE old == jobs[h.job]
           marks == steps[h.job]
<1>1. /\ h.job \in Jobs /\ old \in JobRow /\ marks \in [Stages -> Nat]
      /\ h.attempt \in Nat /\ AssetOf[h.job] \in Assets
  BY JobsAssumption DEF TablesTypeOK, Handle
<1>2. IsLatestStage(old.stage, marks) /\ \A k \in Jobs : steps[k] \in [Stages -> Nat]
  BY <1>1 DEF TablesAgree, StageIsLatestStep, TablesTypeOK
<1>3. /\ old.status = "running" /\ old.attempt = h.attempt /\ IsCurrent(h.job)
      /\ h.attempt # 0
  <2>1. ActiveLease(h, 0)
    BY DEF PipelineCall, StartPipeline, CompletePipeline, CheckpointStep,
           ResetStepsFrom, CancelNotSeen
  <2>2. old.status = "running" /\ old.attempt = h.attempt /\ IsCurrent(h.job)
    BY <2>1 DEF ActiveLease, Holds
  <2>3. old.attempt > 0
    BY <1>1, <2>2 DEF RowsOK, RowOK
  <2>4. QED
    BY <1>1, <2>2, <2>3
<1>4. ~old.cancel => AssetOf[h.job] \notin requests
  BY <1>1, <1>3, UncancelledMeansUnrequested
<1>5. AssetOf[h.job] \in requests => Stopped(old)
  BY <1>3, <1>4 DEF Stopped
<1>6. CASE StartPipeline(h)
  <2>1. jobs' = [jobs EXCEPT ![h.job] = old] /\ steps' = [steps EXCEPT ![h.job] = marks]
    BY <1>1, <1>6 DEF StartPipeline, TablesTypeOK
  <2>2. /\ assets' = [assets EXCEPT ![AssetOf[h.job]].status = "processing"]
        /\ UNCHANGED requests
    BY <1>6 DEF StartPipeline
  <2> HIDE DEF old, marks
  <2>3. jobs[h.job].status = "running"
    BY <1>3 DEF old
  <2>4. QED
    BY <1>1, <1>2, <1>3, <1>5, <2>1, <2>2, <2>3, HolderKeepsAgreement
<1>7. CASE CompletePipeline(h)
  <2> DEFINE row == [Unleased(old) EXCEPT !.status = "completed",
                                          !.stage = PublishStage]
             all == [marks EXCEPT ![PublishStage] = h.attempt]
  <2>1. row.status = "completed" /\ row.stage = PublishStage /\ row.attempt = old.attempt
    BY <1>1, Zenon DEF Unleased, JobRow
  <2>2. ~old.cancel
    BY <1>7 DEF CompletePipeline, CancelNotSeen
  <2>3. /\ jobs' = [jobs EXCEPT ![h.job] = row]
        /\ steps' = [steps EXCEPT ![h.job] = all]
        /\ assets' = [assets EXCEPT ![AssetOf[h.job]].status = "ready"]
        /\ UNCHANGED requests
    BY <1>7 DEF CompletePipeline
  <2>5. (\A s \in Stages : all[s] # 0) /\ all[PublishStage] = h.attempt
    BY <1>1, <1>3, <1>7, StagesAssumption DEF CompletePipeline, Stages, PublishStage
  <2>6. IsLatestStage(PublishStage, all)
    BY <2>5, StagesAssumption DEF IsLatestStage, Stages, PublishStage
  <2> HIDE DEF row, all
  <2>7. QED
    BY <1>1, <1>3, <1>4, <2>1, <2>2, <2>3, <2>5, <2>6, HolderKeepsAgreement
<1>8. ASSUME NEW stage \in Stages, CheckpointStep(h, stage)
      PROVE  AgreementKept
  <2> DEFINE row == [old EXCEPT !.stage = stage]
             more == [marks EXCEPT ![stage] = h.attempt]
  <2>1. /\ row.status = old.status /\ row.cancel = old.cancel
        /\ row.stage = stage
    BY <1>1, Zenon DEF JobRow
  <2>2. /\ jobs' = [jobs EXCEPT ![h.job] = row]
        /\ steps' = [steps EXCEPT ![h.job] = more]
        /\ UNCHANGED <<assets, requests>>
    BY <1>8 DEF CheckpointStep
  <2>3. h.attempt # 0 /\ stage >= old.stage
    BY <1>3, <1>8 DEF CheckpointStep
  <2>4. IsLatestStage(stage, more)
    <3>1. more[stage] = h.attempt /\ \A s \in Stages \ {stage} : more[s] = marks[s]
      BY <1>1
    <3>2. stage \in Nat /\ old.stage \in Nat /\ \A s \in Stages : s \in Nat
      BY <1>1, StagesAssumption DEF Stages, JobRow
    <3>3. \A s \in Stages : marks[s] # 0 => s <= old.stage
      BY <1>2 DEF IsLatestStage
    <3> HIDE DEF more
    <3>4. \A s \in Stages : more[s] # 0 => s <= stage
      BY <2>3, <3>1, <3>2, <3>3
    <3>5. QED
      BY <2>3, <3>1, <3>4 DEF IsLatestStage
  <2>5. AssetOf[h.job] \in requests => Stopped(row)
    BY <1>5, <2>1 DEF Stopped
  <2> HIDE DEF row, more
  <2>6. QED
    BY <1>1, <1>3, <2>1, <2>2, <2>4, <2>5, HolderKeepsAgreement
<1>9. ASSUME NEW stage \in Stages, ResetStepsFrom(h, stage)
      PROVE  AgreementKept
  <2> DEFINE kept == [s \in Stages |-> IF s < stage THEN marks[s] ELSE 0]
  <2>1. PICK n \in 0..NumStages : /\ IsLatestStage(n, kept)
                                  /\ jobs' = [jobs EXCEPT ![h.job].stage = n]
    BY <1>9 DEF ResetStepsFrom
  <2>2. steps' = [steps EXCEPT ![h.job] = kept] /\ UNCHANGED <<assets, requests>>
    BY <1>9 DEF ResetStepsFrom
  <2> DEFINE row == [old EXCEPT !.stage = n]
  <2>3. /\ row.status = old.status /\ row.cancel = old.cancel
        /\ row.stage = n
    BY <1>1, Zenon DEF JobRow
  <2>4. jobs' = [jobs EXCEPT ![h.job] = row]
    BY <2>1, Zenon
  <2>5. AssetOf[h.job] \in requests => Stopped(row)
    BY <1>5, <2>3 DEF Stopped
  <2> HIDE DEF row, kept
  <2>6. QED
    BY <1>1, <1>3, <2>1, <2>2, <2>3, <2>4, <2>5, HolderKeepsAgreement
<1>10. QED
  BY <1>6, <1>7, <1>8, <1>9 DEF PipelineCall

-----------------------------------------------------------------------------
(* Transactions of the API process *)

\* A job is inserted only while its row is absent, and so without checkpoints.
LEMMA JobCallAgrees ==
    ASSUME TablesTypeOK, RowsOK, TablesAgree, NEW j \in Jobs, NEW d \in Lags,
           JobCall(j, d)
    PROVE  AgreementKept
<1>1. jobs[j] \in JobRow /\ RowOK(jobs[j]) /\ AssetOf[j] \in Assets /\ j # NoJob
  BY JobsAssumption DEF TablesTypeOK, RowsOK
<1>2. CASE CompleteUpload(j, d)
  <2> DEFINE row == [AbsentJob EXCEPT !.status = "queued", !.wait = -d]
             new == [status |-> "ready", current |-> j]
  <2>1. row.status = "queued" /\ row.stage = 0
    BY Zenon DEF AbsentJob
  <2>2. new.status = "ready" /\ new.current = j
    OBVIOUS
  <2>3. /\ jobs[j].status = "absent" /\ AssetOf[j] \notin requests
        /\ jobs' = [jobs EXCEPT ![j] = row]
        /\ assets' = [assets EXCEPT ![AssetOf[j]] = new]
        /\ UNCHANGED <<steps, requests>>
    BY <1>2 DEF CompleteUpload
  <2> HIDE DEF row, new
  <2>4. /\ jobs'[j] = row /\ \A k \in Jobs \ {j} : jobs'[k] = jobs[k]
        /\ assets'[AssetOf[j]] = new
        /\ \A a \in Assets \ {AssetOf[j]} : assets'[a] = assets[a]
    BY <1>1, <2>3 DEF TablesTypeOK
  <2>5. StageIsLatestStep'
    <3>1. steps[j] = NoSteps
      BY <2>3 DEF TablesAgree, DeletedAssetsAreEmpty
    <3>2. IsLatestStage(0, NoSteps)
      BY StagesAssumption DEF IsLatestStage, NoSteps, Stages
    <3>3. QED
      BY <2>1, <2>3, <2>4, <3>1, <3>2 DEF TablesAgree, StageIsLatestStep
  <2>6. CompletedJobsAreComplete'
    BY <2>1, <2>3, <2>4 DEF TablesAgree, CompletedJobsAreComplete
  <2>7. AssetShowsOutcome'
    <3> SUFFICES ASSUME NEW a \in Assets, assets'[a].current # NoJob
                 PROVE  LET k == assets'[a].current IN
                        /\ AssetOf[k] = a /\ jobs'[k].status # "absent"
                        /\ jobs'[k].status = "completed" => assets'[a].status = "ready"
                        /\ jobs'[k].status = "failed" => assets'[a].status = "failed"
      BY DEF AssetShowsOutcome
    <3>1. CASE a = AssetOf[j]
      BY <2>1, <2>2, <2>4, <3>1
    <3>2. CASE a # AssetOf[j]
      <4> DEFINE k == assets[a].current
      <4>1. k \in Jobs /\ assets'[a] = assets[a]
        BY <2>4, <3>2 DEF TablesTypeOK, AssetRow
      <4>2. /\ AssetOf[k] = a /\ jobs[k].status # "absent"
            /\ jobs[k].status = "completed" => assets[a].status = "ready"
            /\ jobs[k].status = "failed" => assets[a].status = "failed"
        BY <4>1 DEF TablesAgree, AssetShowsOutcome
      <4>3. jobs'[k] = jobs[k]
        BY <2>4, <3>2, <4>1, <4>2
      <4>4. QED
        BY <4>1, <4>2, <4>3
    <3>3. QED
      BY <3>1, <3>2
  <2>8. DeletionStopsJobs'
    <3>1. \A a \in requests : a \in Assets \ {AssetOf[j]}
      BY <2>3 DEF TablesTypeOK
    <3>2. QED
      BY <2>3, <2>4, <3>1 DEF TablesAgree, DeletionStopsJobs
  <2>9. DeletedAssetsAreEmpty'
    <3>1. \A k \in Jobs : AssetOf[k] \in Assets
      BY JobsAssumption
    <3>2. QED
      BY <2>1, <2>2, <2>3, <2>4, <3>1 DEF TablesAgree, DeletedAssetsAreEmpty
  <2>10. ReadyKept
    <3> SUFFICES ASSUME NEW k \in Jobs, SearchReady(k, jobs[k].attempt),
                        assets'[AssetOf[k]].current = k
                 PROVE  SearchReady(k, jobs[k].attempt)'
      BY DEF ReadyKept
    <3>1. k # j /\ AssetOf[k] \in Assets
      BY <2>3, JobsAssumption DEF SearchReady
    <3>2. AssetOf[k] # AssetOf[j]
      BY <2>2, <2>4, <3>1
    <3>3. QED
      BY <2>3, <2>4, <3>1, <3>2 DEF SearchReady, IsCurrent
  <2>11. QED
    BY <2>5, <2>6, <2>7, <2>8, <2>9, <2>10 DEF AgreementKept, TablesAgree
<1>3. CASE RequestCancel(j, d)
  <2>1. RowMoves(j, jobs[j], CancelRow(jobs[j], d))
    BY <1>1, CancelRowMoves
  <2>2. QED
    BY <1>3, <2>1, OneMoveKeepsAgreement DEF RequestCancel
<1>4. CASE RetryFailedJob(j, d)
  <2> DEFINE row == [Unleased(jobs[j]) EXCEPT !.status = "queued", !.wait = -d,
                                              !.cancel = FALSE]
  <2>1. row.status = "queued" /\ row.stage = jobs[j].stage
    BY <1>1, Zenon DEF Unleased, JobRow
  <2>2. jobs[j].status = "failed" /\ AssetOf[j] \notin requests
    BY <1>4 DEF RetryFailedJob
  <2>3. RowMoves(j, jobs[j], row)
    BY <2>1, <2>2 DEF RowMoves
  <2>4. QED
    BY <1>4, <2>3, OneMoveKeepsAgreement DEF RetryFailedJob
<1>5. QED
  BY <1>2, <1>3, <1>4 DEF JobCall

\* A request stops every job of its asset in the transaction that records it.
LEMMA PrepareAgrees ==
    ASSUME TablesTypeOK, RowsOK, TablesAgree, NEW a \in Assets, NEW d \in Lags,
           PrepareAssetDeletion(a, d)
    PROVE  AgreementKept
<1>1. CASE DeletionSkipsRequest(a)
  <2>1. UNCHANGED <<jobs, assets, steps, requests>>
    BY <1>1 DEF PrepareAssetDeletion
  <2>2. \A j \in Jobs : RowMoves(j, jobs[j], jobs'[j])
    BY <2>1 DEF RowMoves
  <2>3. QED
    BY <2>1, <2>2, MovesKeepAgreement
<1>2. CASE ~DeletionSkipsRequest(a)
  <2>1. /\ requests' = requests \cup {a} /\ UNCHANGED <<assets, steps>>
        /\ \A j \in Jobs : jobs'[j] = IF AssetOf[j] = a THEN CancelRow(jobs[j], d)
                                      ELSE jobs[j]
    BY <1>2 DEF PrepareAssetDeletion
  <2>2. \A j \in Jobs : /\ RowMoves(j, jobs[j], jobs'[j])
                        /\ AssetOf[j] = a => Stopped(jobs'[j])
    <3>1. \A j \in Jobs : /\ RowMoves(j, jobs[j], jobs[j])
                          /\ RowMoves(j, jobs[j], CancelRow(jobs[j], d))
                          /\ Stopped(CancelRow(jobs[j], d))
      BY CancelRowMoves DEF TablesTypeOK, RowsOK, RowMoves
    <3>2. QED
      BY <2>1, <3>1
  <2>3. StageIsLatestStep'
    BY <2>1, <2>2 DEF TablesAgree, StageIsLatestStep, RowMoves
  <2>4. CompletedJobsAreComplete'
    BY <2>1, <2>2 DEF TablesAgree, CompletedJobsAreComplete, RowMoves
  <2>5. AssetShowsOutcome'
    <3> SUFFICES ASSUME NEW b \in Assets, assets[b].current # NoJob
                 PROVE  LET k == assets[b].current IN
                        /\ AssetOf[k] = b /\ jobs'[k].status # "absent"
                        /\ jobs'[k].status = "completed" => assets[b].status = "ready"
                        /\ jobs'[k].status = "failed" => assets[b].status = "failed"
      BY <2>1 DEF AssetShowsOutcome
    <3>1. assets[b].current \in Jobs
      BY DEF TablesTypeOK, AssetRow
    <3>2. QED
      BY <2>2, <3>1 DEF TablesAgree, AssetShowsOutcome, RowMoves
  <2>6. DeletionStopsJobs'
    <3>1. \A b \in requests' : assets'[b].status \notin {"uploading", "deleted"}
      BY <1>2, <2>1 DEF DeletionSkipsRequest, TablesAgree, DeletionStopsJobs
    <3>2. \A b \in requests, j \in Jobs : AssetOf[j] = b => Stopped(jobs[j])
      BY DEF TablesAgree, DeletionStopsJobs, Stopped
    <3>3. \A b \in requests', j \in Jobs : AssetOf[j] = b => Stopped(jobs'[j])
      BY <2>1, <2>2, <3>2 DEF RowMoves
    <3>4. QED
      BY <3>1, <3>3 DEF DeletionStopsJobs, Stopped
  <2>7. DeletedAssetsAreEmpty'
    BY <2>1, <2>2 DEF TablesAgree, DeletedAssetsAreEmpty, RowMoves
  <2>8. ReadyKept
    BY <2>1, <2>2 DEF ReadyKept, SearchReady, IsCurrent, RowMoves
  <2>9. QED
    BY <2>3, <2>4, <2>5, <2>6, <2>7, <2>8 DEF AgreementKept, TablesAgree
<1>3. QED
  BY <1>1, <1>2

\* The last transaction of a deletion empties the rows of one asset.
LEMMA FinalizeAgrees ==
    ASSUME TablesTypeOK, TablesAgree, NEW a \in Assets, FinalizeAssetDeletion(a)
    PROVE  AgreementKept
<1>1. /\ \A j \in Jobs : IF AssetOf[j] = a
                         THEN jobs'[j] = AbsentJob /\ steps'[j] = NoSteps
                         ELSE jobs'[j] = jobs[j] /\ steps'[j] = steps[j]
      /\ requests' = requests \ {a}
  BY DEF FinalizeAssetDeletion
<1>2. /\ assets'[a].current = NoJob /\ assets'[a].status = "deleted"
      /\ \A b \in Assets \ {a} : assets'[b] = assets[b]
  BY DEF FinalizeAssetDeletion, TablesTypeOK
<1>3. AbsentJob.status = "absent" /\ AbsentJob.stage = 0
  BY DEF AbsentJob
<1>4. StageIsLatestStep'
  <2>1. IsLatestStage(0, NoSteps)
    BY StagesAssumption DEF IsLatestStage, NoSteps, Stages
  <2>2. QED
    BY <1>1, <1>3, <2>1 DEF TablesAgree, StageIsLatestStep
<1>5. CompletedJobsAreComplete'
  BY <1>1, <1>3 DEF TablesAgree, CompletedJobsAreComplete
<1>6. AssetShowsOutcome'
  <2> SUFFICES ASSUME NEW b \in Assets, assets'[b].current # NoJob
               PROVE  LET k == assets'[b].current IN
                      /\ AssetOf[k] = b /\ jobs'[k].status # "absent"
                      /\ jobs'[k].status = "completed" => assets'[b].status = "ready"
                      /\ jobs'[k].status = "failed" => assets'[b].status = "failed"
    BY DEF AssetShowsOutcome
  <2> DEFINE k == assets[b].current
  <2>1. b # a /\ assets'[b] = assets[b]
    BY <1>2
  <2>2. k \in Jobs
    BY <2>1 DEF TablesTypeOK, AssetRow
  <2>3. /\ AssetOf[k] = b /\ jobs[k].status # "absent"
        /\ jobs[k].status = "completed" => assets[b].status = "ready"
        /\ jobs[k].status = "failed" => assets[b].status = "failed"
    BY <2>1 DEF TablesAgree, AssetShowsOutcome
  <2>4. jobs'[k] = jobs[k]
    BY <1>1, <2>1, <2>2, <2>3
  <2>5. QED
    BY <2>1, <2>3, <2>4
<1>7. DeletionStopsJobs'
  <2>1. \A b \in requests' : b \in requests /\ b \in Assets \ {a}
    BY <1>1 DEF TablesTypeOK
  <2>2. QED
    BY <1>1, <1>2, <2>1 DEF TablesAgree, DeletionStopsJobs
<1>8. DeletedAssetsAreEmpty'
  <2>1. \A j \in Jobs : AssetOf[j] \in Assets
    BY JobsAssumption
  <2>2. QED
    BY <1>1, <1>2, <1>3, <2>1 DEF TablesAgree, DeletedAssetsAreEmpty
<1>9. ReadyKept
  <2>1. \A j \in Jobs : AssetOf[j] \in Assets
    BY JobsAssumption
  <2>2. QED
    BY <1>1, <1>2, <2>1 DEF ReadyKept, SearchReady, IsCurrent
<1>10. QED
  BY <1>4, <1>5, <1>6, <1>7, <1>8, <1>9 DEF AgreementKept, TablesAgree

-----------------------------------------------------------------------------
(* The theorem *)

LEMMA StepAgrees ==
    ASSUME RowInv, TablesAgree, [Next]_vars
    PROVE  AgreementKept
<1>1. TablesTypeOK /\ RowsOK /\ claims \subseteq Handle
  BY DEF RowInv, TypeOK
<1>2. UNCHANGED tables => AgreementKept
  <2> SUFFICES ASSUME UNCHANGED <<jobs, assets, steps, requests>>
               PROVE  AgreementKept
    BY DEF tables
  <2>1. \A j \in Jobs : RowMoves(j, jobs[j], jobs'[j])
    BY DEF RowMoves
  <2>2. QED
    BY <1>1, <2>1, MovesKeepAgreement
<1>3. ASSUME NEW j \in Jobs, NEW d \in Lags, JobCall(j, d)
      PROVE  AgreementKept
  BY <1>1, <1>3, JobCallAgrees
<1>4. ASSUME NEW h \in claims, NEW d \in Lags, LeaseCall(h, d)
      PROVE  AgreementKept
  BY <1>1, <1>4, LeaseCallAgrees
<1>5. ASSUME NEW h \in claims, PipelineCall(h)
      PROVE  AgreementKept
  BY <1>1, <1>5, PipelineCallAgrees
<1>6. ASSUME NEW d \in Lags, RecoverExpiredJobs(d) \/ ClaimFindsNothing(d)
      PROVE  AgreementKept
  BY <1>1, <1>6, SweepMoves
<1>7. ASSUME NEW j \in Jobs, NEW o \in Owners, NEW d \in Lags, Claim(j, o, d)
      PROVE  AgreementKept
  BY <1>1, <1>7, ClaimMoves DEF Claim
<1>8. ASSUME NEW gone \in SUBSET claims, Forget(gone)
      PROVE  AgreementKept
  BY <1>2, <1>8 DEF Forget
<1>9. ASSUME NEW a \in Assets, NEW d \in Lags, BeginDeletion(a, d)
      PROVE  AgreementKept
  BY <1>1, <1>9, PrepareAgrees DEF BeginDeletion
<1>10. ASSUME NEW a \in Assets, EndDeletion(a)
       PROVE  AgreementKept
  BY <1>1, <1>10, FinalizeAgrees DEF EndDeletion
<1>11. ASSUME NEW a \in Assets, AbortDeletion(a)
       PROVE  AgreementKept
  BY <1>2, <1>11 DEF AbortDeletion
<1>12. CASE Tick
  <2>1. 0 \in Lags
    BY TimeAssumption
  <2>2. QED
    BY <1>1, <1>12, <2>1, SweepMoves DEF Tick
<1>13. CASE UNCHANGED vars
  BY <1>2, <1>13 DEF vars
<1>14. QED
  BY <1>3, <1>4, <1>5, <1>6, <1>7, <1>8, <1>9, <1>10, <1>11, <1>12, <1>13 DEF Next

\* After every transaction, whoever made it and however late, the tables agree:
\* jobs with their checkpoints, assets with their current jobs, and deletion
\* requests with both (repository.py).
THEOREM TablesAlwaysAgree == Spec => []TablesAgree
<1>1. RepositoryInit => TablesAgree
  <2> SUFFICES ASSUME RepositoryInit PROVE TablesAgree
    OBVIOUS
  <2>1. /\ \A j \in Jobs : jobs[j] = AbsentJob /\ steps[j] = NoSteps
        /\ \A a \in Assets : assets[a].current = NoJob
        /\ requests = {}
    BY DEF RepositoryInit, TablesInit
  <2>2. AbsentJob.status = "absent" /\ AbsentJob.stage = 0
    BY DEF AbsentJob
  <2>3. IsLatestStage(0, NoSteps)
    BY StagesAssumption DEF IsLatestStage, NoSteps, Stages
  <2>4. QED
    BY <2>1, <2>2, <2>3
    DEF TablesAgree, StageIsLatestStep, CompletedJobsAreComplete,
        AssetShowsOutcome, DeletionStopsJobs, DeletedAssetsAreEmpty
<1>2. RowInv /\ TablesAgree /\ [Next]_vars => TablesAgree'
  BY StepAgrees DEF AgreementKept
<1>3. Spec => []RowInv
  BY RowInvariant
<1>4. QED
  BY <1>1, <1>2, <1>3, PTL DEF Spec

\* The asset row shows the outcome of its current job, whatever jobs of its other versions
\* go on to do.
COROLLARY OutcomesAreShown == Spec => []AssetShowsOutcome
<1>1. TablesAgree => AssetShowsOutcome
  BY DEF TablesAgree
<1>2. QED
  BY <1>1, TablesAlwaysAgree, PTL

\* Documents that are searchable stay searchable until their asset is deleted or a
\* newer version's job becomes current: no retry, cancellation, recovery or late
\* caller takes them back (is_asset_search_ready).
THEOREM SearchReadinessStays == Spec => SearchReadinessIsStable
<1>1. RowInv /\ TablesAgree /\ [Next]_vars =>
        [\A j \in Jobs : SearchReady(j, jobs[j].attempt) =>
            \/ SearchReady(j, jobs[j].attempt)'
            \/ assets'[AssetOf[j]].status = "deleted"
            \/ assets'[AssetOf[j]].current # j]_vars
  BY StepAgrees DEF AgreementKept, ReadyKept
<1>2. QED
  BY <1>1, RowInvariant, TablesAlwaysAgree, PTL DEF Spec, SearchReadinessIsStable

(***************************************************************************)
(* The job tables implement JobLifecycle: every transaction moves every    *)
(* job by a step of the abstract lifecycle, or not at all, for any number  *)
(* of jobs and owner tokens and any clock lag below the lease.             *)
(***************************************************************************)

-----------------------------------------------------------------------------
(* The lifecycle of one row *)

NotHeld(row) == row.owner = NoOwner \/ Expired(row, 0)

\* The row stays where it is, with its holder; the lease may lapse or be renewed.
LifeGoesOn(old, new) == PhaseOf(new) = PhaseOf(old) /\ new.owner = old.owner

LifeIsFreed(old, new) ==
    /\ new.owner = NoOwner
    /\ \/ PhaseOf(old) \in {"absent", "failed", "executing"} /\ PhaseOf(new) = "waiting"
       \/ PhaseOf(old) = "executing" /\ PhaseOf(new) \in {"completed", "failed"}
       \/ PhaseOf(old) = "waiting" /\ PhaseOf(new) = "cancelled"
       \/ PhaseOf(old) \notin {"executing", "cancelling"} /\ PhaseOf(new) = "absent"
       \/ /\ PhaseOf(old) \in {"executing", "cancelling"} /\ PhaseOf(new) = "cancelling"
          /\ IF PhaseOf(old) = "executing" THEN Expired(old, 0) ELSE NotHeld(old)
       \/ /\ PhaseOf(old) = "cancelling" /\ PhaseOf(new) = "cancelled"
          /\ old.owner # NoOwner

LifeIsTaken(old, new) ==
    /\ new.owner \in Owners /\ ~Expired(new, 0) /\ NotHeld(old)
    /\ \/ PhaseOf(old) \in {"waiting", "executing"} /\ PhaseOf(new) = "executing"
       \/ PhaseOf(old) = "cancelling" /\ PhaseOf(new) = "cancelling"

LifeIsCancelled(old, new) ==
    /\ PhaseOf(old) = "executing" /\ PhaseOf(new) = "cancelling"
    /\ new.owner = old.owner /\ new.lease = old.lease

LifeStep(old, new) ==
    \/ LifeGoesOn(old, new) \/ LifeIsFreed(old, new)
    \/ LifeIsTaken(old, new) \/ LifeIsCancelled(old, new)

LEMMA PhaseType == \A row \in JobRow : PhaseOf(row) \in Lifecycle!Phase
  BY DEF PhaseOf, JobRow, JobStatus, Pending, Terminal, Lifecycle!Phase

\* A move of one row is a step of its job in the lifecycle.
LEMMA LifeStepIsJobStep ==
    ASSUME NEW j \in Jobs, LifeStep(jobs[j], jobs'[j])
    PROVE  Lifecycle!JobStep(j) \/ Lifecycle!Stays(j)
<1> DEFINE old == jobs[j]
           new == jobs'[j]
<1>1. Expired(old, 0) \in BOOLEAN /\ Expired(new, 0) \in BOOLEAN
  BY DEF Expired
<1>2. /\ old.owner = NoOwner => ~Expired(old, 0)
      /\ new.owner = NoOwner => ~Expired(new, 0)
  BY DEF Expired
<1>3. CASE LifeGoesOn(old, new)
  BY <1>1, <1>2, <1>3
  DEF LifeGoesOn, Lifecycle!JobStep, Lifecycle!Stays, Lifecycle!Renew,
      Lifecycle!Lapse, Lifecycle!Becomes, Lifecycle!SameHolder
<1>4. CASE LifeIsFreed(old, new)
  BY <1>1, <1>2, <1>4
  DEF LifeIsFreed, NotHeld, Lifecycle!JobStep, Lifecycle!Becomes, Lifecycle!Unheld,
      Lifecycle!Free, Lifecycle!Submit, Lifecycle!Retry, Lifecycle!GiveUp,
      Lifecycle!CancelWaiting, Lifecycle!Purge, Lifecycle!CancelExecuting,
      Lifecycle!AbandonCleanup, Lifecycle!FinishCleanup
<1>5. CASE LifeIsTaken(old, new)
  BY <1>1, <1>2, <1>5
  DEF LifeIsTaken, NotHeld, Lifecycle!JobStep, Lifecycle!Becomes, Lifecycle!HeldAnew,
      Lifecycle!Free, Lifecycle!Start, Lifecycle!StartCleanup
<1>6. CASE LifeIsCancelled(old, new)
  BY <1>1, <1>6
  DEF LifeIsCancelled, Expired, Lifecycle!JobStep, Lifecycle!Becomes,
      Lifecycle!SameHolder, Lifecycle!CancelExecuting
<1>7. QED
  BY <1>3, <1>4, <1>5, <1>6 DEF LifeStep

\* A transaction that moves every row so is a step of the lifecycle.
LifeSteps == \A j \in Jobs : LifeStep(jobs[j], jobs'[j])

LEMMA LifeStepsImplement ==
    ASSUME TablesTypeOK', LifeSteps
    PROVE  Lifecycle!Next
<1>1. \A j \in Jobs : jobs'[j] \in JobRow
  BY DEF TablesTypeOK
<1>2. [j \in Jobs |-> PhaseOf(jobs'[j])] \in [Jobs -> Lifecycle!Phase]
  BY <1>1, PhaseType
<1>3. [j \in Jobs |-> jobs'[j].owner] \in [Jobs -> Owners \cup {NoOwner}]
  BY <1>1 DEF JobRow
<1>4. [j \in Jobs |-> Expired(jobs'[j], 0)] \in [Jobs -> BOOLEAN]
  BY DEF Expired
<1>5. \A j \in Jobs : Lifecycle!JobStep(j) \/ Lifecycle!Stays(j)
  BY LifeStepIsJobStep DEF LifeSteps
<1>6. QED
  BY <1>2, <1>3, <1>4, <1>5 DEF Lifecycle!Next

-----------------------------------------------------------------------------
(* The helpers that rewrite a row *)

\* Whoever sees a lease expired with a late clock reading is right about it.
LEMMA ExpiredLater ==
    ASSUME NEW row \in JobRow, NEW d \in Lags, Expired(row, d)
    PROVE  Expired(row, 0)
  BY TimeAssumption DEF Expired, JobRow

LEMMA LifeStands == \A row : LifeStep(row, row)
  BY DEF LifeStep, LifeGoesOn

LEMMA CancelRowLives ==
    ASSUME NEW row \in JobRow, NEW d \in Lags, RowOK(row)
    PROVE  LifeStep(row, CancelRow(row, d))
<1> DEFINE new == CancelRow(row, d)
<1>1. CASE row.status \in Pending
  <2>1. new.owner = NoOwner /\ new.status = "cancelled"
    BY <1>1, Zenon DEF CancelRow, Unleased, JobRow
  <2>2. PhaseOf(row) = "waiting" /\ PhaseOf(new) = "cancelled"
    BY <1>1, <2>1 DEF PhaseOf, Pending
  <2>3. QED
    BY <2>1, <2>2 DEF LifeStep, LifeIsFreed
<1>2. CASE row.status = "running"
  <2>1. /\ new.status = "running" /\ new.cancel
        /\ IF Expired(row, d) THEN new.owner = NoOwner
           ELSE new.owner = row.owner /\ new.lease = row.lease
    BY <1>2 DEF CancelRow, Unleased, JobRow, Pending
  <2>2. /\ PhaseOf(new) = "cancelling"
        /\ PhaseOf(row) = IF row.cancel THEN "cancelling" ELSE "executing"
    BY <1>2, <2>1 DEF PhaseOf, Pending
  <2>3. Expired(row, d) => Expired(row, 0)
    BY ExpiredLater
  <2> HIDE DEF new
  <2>4. LifeStep(row, new)
    BY <2>1, <2>2, <2>3
    DEF LifeStep, LifeGoesOn, LifeIsFreed, LifeIsCancelled, NotHeld
  <2>5. QED
    BY <2>4 DEF new
<1>3. CASE row.status \notin Pending \cup {"running"}
  BY <1>3, LifeStands DEF CancelRow
<1>4. QED
  BY <1>1, <1>2, <1>3

\* Recovery of a row of an asset without a deletion request, or of one that is
\* to be cleaned up: by DeletionStopsJobs there is no other.
LEMMA RecoverRowLives ==
    ASSUME NEW row \in JobRow, NEW d \in Lags, NEW j \in Jobs, RowOK(row),
           AssetOf[j] \in requests => Stopped(row)
    PROVE  LifeStep(row, RecoverRow(j, row, d))
<1> DEFINE new == RecoverRow(j, row, d)
<1>1. CASE row.status = "running" /\ Expired(row, d)
  <2>1. /\ new.owner = NoOwner
        /\ IF row.cancel THEN new.status = "running" /\ new.cancel
           ELSE new.status = "queued"
    BY <1>1 DEF RecoverRow, Unleased, JobRow, Stopped, Terminal
  <2>2. /\ PhaseOf(row) = IF row.cancel THEN "cancelling" ELSE "executing"
        /\ PhaseOf(new) = IF row.cancel THEN "cancelling" ELSE "waiting"
    BY <1>1, <2>1 DEF PhaseOf, Pending
  <2>3. Expired(row, 0)
    BY <1>1, ExpiredLater
  <2> HIDE DEF new
  <2>4. LifeStep(row, new)
    BY <2>1, <2>2, <2>3 DEF LifeStep, LifeIsFreed, NotHeld
  <2>5. QED
    BY <2>4 DEF new
<1>2. CASE ~(row.status = "running" /\ Expired(row, d))
  BY <1>2, LifeStands DEF RecoverRow
<1>3. QED
  BY <1>1, <1>2

\* What recovery and the end of a retry delay make of a row together, and what a
\* claim may find in it.
LEMMA RefreshedRowLives ==
    ASSUME TablesTypeOK, RowsOK, TablesAgree, NEW j \in Jobs, NEW d \in Lags
    PROVE  LET new == RefreshedJobs(d)[j] IN
           /\ LifeStep(jobs[j], new)
           /\ DueForCleanup(j, new, d) =>
                  PhaseOf(jobs[j]) = "cancelling" /\ NotHeld(jobs[j])
           /\ DueForAttempt(j, new, d) =>
                  PhaseOf(jobs[j]) \in {"waiting", "executing"} /\ NotHeld(jobs[j])
<1> DEFINE old == jobs[j]
           row == RecoverRow(j, old, d)
           new == DueRow(j, row, d)
<1>1. old \in JobRow /\ RowOK(old) /\ RefreshedJobs(d)[j] = new
  BY RefreshedRow DEF TablesTypeOK, RowsOK
<1>2. AssetOf[j] \in requests => Stopped(old)
  BY DEF TablesAgree, DeletionStopsJobs, Stopped
<1>3. CASE old.status = "running" /\ Expired(old, d)
  <2>1. /\ row.owner = NoOwner
        /\ IF old.cancel THEN row.status = "running" /\ row.cancel
           ELSE row.status = "queued"
    BY <1>1, <1>2, <1>3 DEF RecoverRow, Unleased, JobRow, Stopped, Terminal
  <2>2. new = row
    BY <2>1 DEF DueRow
  <2>3. Expired(old, 0) /\ PhaseOf(old) = IF old.cancel THEN "cancelling" ELSE "executing"
    BY <1>1, <1>3, ExpiredLater DEF PhaseOf, Pending
  <2>4. LifeStep(old, row)
    BY <1>1, <1>2, RecoverRowLives
  <2> HIDE DEF row, new, old
  <2>5. QED
    BY <1>1, <2>1, <2>2, <2>3, <2>4 DEF DueForCleanup, DueForAttempt, NotHeld, old
<1>4. CASE ~(old.status = "running" /\ Expired(old, d))
  <2>1. row = old
    BY <1>4 DEF RecoverRow
  <2>2. /\ new.owner = old.owner /\ new.cancel = old.cancel /\ new.lease = old.lease
        /\ \/ new.status = old.status
           \/ old.status = "retry_wait" /\ new.status = "queued"
    BY <1>1, <2>1 DEF DueRow, JobRow
  <2>3. LifeStep(old, new)
    BY <2>2 DEF LifeStep, LifeGoesOn, PhaseOf, Pending
  <2>4. DueForCleanup(j, new, d) => PhaseOf(old) = "cancelling" /\ NotHeld(old)
    <3>1. SUFFICES ASSUME DueForCleanup(j, new, d)
                   PROVE  PhaseOf(old) = "cancelling" /\ NotHeld(old)
      OBVIOUS
    <3>2. old.status = "running" /\ old.cancel /\ ~Live(new, d)
      BY <2>2, <3>1 DEF DueForCleanup
    <3>3. ~Live(old, d) /\ ~Expired(old, d)
      BY <1>4, <2>2, <3>2 DEF Live
    <3>4. old.owner = NoOwner
      BY <1>1, <3>3, TimeAssumption DEF Live, Expired, JobRow
    <3>5. QED
      BY <3>2, <3>4 DEF PhaseOf, Pending, NotHeld
  <2>5. DueForAttempt(j, new, d) =>
            PhaseOf(old) \in {"waiting", "executing"} /\ NotHeld(old)
    <3>1. SUFFICES ASSUME new.status = "queued"
                   PROVE  PhaseOf(old) = "waiting" /\ old.owner = NoOwner
      BY DEF DueForAttempt, NotHeld
    <3>2. old.status \in Pending
      BY <2>2, <3>1 DEF Pending
    <3>3. QED
      BY <1>1, <3>2 DEF PhaseOf, RowOK, Pending
  <2> HIDE DEF row, new, old
  <2>6. QED
    BY <1>1, <2>3, <2>4, <2>5 DEF old
<1>5. QED
  BY <1>3, <1>4

-----------------------------------------------------------------------------
(* The transactions *)

LEMMA OneRowLives ==
    ASSUME TablesTypeOK, NEW j \in Jobs, NEW row, LifeStep(jobs[j], row),
           jobs' = [jobs EXCEPT ![j] = row]
    PROVE  LifeSteps
  BY LifeStands DEF LifeSteps, TablesTypeOK

LEMMA JobCallLives ==
    ASSUME TablesTypeOK, RowsOK, NEW j \in Jobs, NEW d \in Lags, JobCall(j, d)
    PROVE  LifeSteps
<1>1. jobs[j] \in JobRow /\ RowOK(jobs[j])
  BY DEF TablesTypeOK, RowsOK
<1>2. ASSUME NEW row, row.status = "queued", row.owner = NoOwner,
             jobs[j].status \in {"absent", "failed"},
             jobs' = [jobs EXCEPT ![j] = row]
      PROVE  LifeSteps
  <2>1. PhaseOf(jobs[j]) \in {"absent", "failed"} /\ PhaseOf(row) = "waiting"
    BY <1>2 DEF PhaseOf, Pending
  <2>2. QED
    BY <1>2, <2>1, OneRowLives DEF LifeStep, LifeIsFreed
<1>3. CASE CompleteUpload(j, d)
  <2> DEFINE row == [AbsentJob EXCEPT !.status = "queued", !.wait = -d]
  <2>1. row.status = "queued" /\ row.owner = NoOwner
    BY Zenon DEF AbsentJob
  <2>2. QED
    BY <1>2, <1>3, <2>1 DEF CompleteUpload
<1>4. CASE RequestCancel(j, d)
  BY <1>1, <1>4, CancelRowLives, OneRowLives DEF RequestCancel
<1>5. CASE RetryFailedJob(j, d)
  <2> DEFINE row == [Unleased(jobs[j]) EXCEPT !.status = "queued", !.wait = -d,
                                              !.cancel = FALSE]
  <2>1. row.status = "queued" /\ row.owner = NoOwner
    BY <1>1, Zenon DEF Unleased, JobRow
  <2>2. QED
    BY <1>2, <1>5, <2>1 DEF RetryFailedJob
<1>6. QED
  BY <1>3, <1>4, <1>5 DEF JobCall

\* The holder of an uncancelled execution gives it up.
LEMMA GivenUpLives ==
    ASSUME NEW old, PhaseOf(old) = "executing",
           NEW row, row.status \in {"retry_wait", "failed", "completed"},
           row.owner = NoOwner
    PROVE  LifeStep(old, row)
<1>1. PhaseOf(row) \in {"waiting", "failed", "completed"}
  BY DEF PhaseOf, Pending
<1>2. QED
  BY <1>1 DEF LifeStep, LifeIsFreed

LEMMA LeaseCallLives ==
    ASSUME TablesTypeOK, NEW h \in Handle, NEW d \in Lags, LeaseCall(h, d)
    PROVE  LifeSteps
<1> DEFINE old == jobs[h.job]
<1>1. h.job \in Jobs /\ old \in JobRow
  BY DEF TablesTypeOK, Handle
<1>2. CASE RenewLease(h, d) \/ RenewCleanupLease(h, d)
  <2> DEFINE row == [old EXCEPT !.lease = LeaseSeconds - d]
  <2>1. /\ row.status = old.status /\ row.cancel = old.cancel
        /\ row.owner = old.owner
    BY <1>1, Zenon DEF JobRow
  <2>2. LifeStep(old, row)
    BY <2>1 DEF LifeStep, LifeGoesOn, PhaseOf
  <2>3. jobs' = [jobs EXCEPT ![h.job] = row]
    BY <1>2, Zenon DEF RenewLease, RenewCleanupLease
  <2>4. QED
    BY <1>1, <2>2, <2>3, OneRowLives
<1>3. HoldsUncancelled(h, d) => PhaseOf(old) = "executing"
  BY DEF HoldsUncancelled, Holds, PhaseOf, Pending
<1>4. CASE ReleaseClaim(h, d)
  <2> DEFINE row == [Unleased(old) EXCEPT !.status = "retry_wait",
                         !.attempt = h.attempt - 1, !.wait = -d]
  <2>1. row.status = "retry_wait" /\ row.owner = NoOwner
    BY <1>1, Zenon DEF Unleased, JobRow
  <2>2. PhaseOf(old) = "executing"
    BY <1>3, <1>4 DEF ReleaseClaim
  <2> HIDE DEF row, old
  <2>3. LifeStep(old, row)
    BY <2>1, <2>2, GivenUpLives
  <2>4. QED
    BY <1>1, <1>4, <2>3, OneRowLives DEF ReleaseClaim, row, old
<1>5. CASE MarkFailed(h, d)
  <2> DEFINE row == [Unleased(old) EXCEPT !.status = "failed"]
  <2>1. row.status = "failed" /\ row.owner = NoOwner
    BY <1>1, Zenon DEF Unleased, JobRow
  <2>2. PhaseOf(old) = "executing"
    BY <1>3, <1>5 DEF MarkFailed
  <2> HIDE DEF row, old
  <2>3. LifeStep(old, row)
    BY <2>1, <2>2, GivenUpLives
  <2>4. QED
    BY <1>1, <1>5, <2>3, OneRowLives DEF MarkFailed, row, old
<1>6. CASE FinishCancel(h, d)
  <2> DEFINE row == [Unleased(old) EXCEPT !.status = "cancelled", !.cancel = FALSE]
  <2>1. row.status = "cancelled" /\ row.owner = NoOwner
    BY <1>1, Zenon DEF Unleased, JobRow
  <2>2. old.status = "running" /\ old.cancel /\ old.owner # NoOwner
    BY <1>6 DEF FinishCancel, CleanupLease, Holds, Live
  <2>3. PhaseOf(old) = "cancelling" /\ PhaseOf(row) = "cancelled"
    BY <2>1, <2>2 DEF PhaseOf, Pending
  <2>4. LifeStep(old, row)
    BY <2>1, <2>2, <2>3 DEF LifeStep, LifeIsFreed
  <2>5. QED
    BY <1>1, <1>6, <2>4, OneRowLives DEF FinishCancel
<1>7. ASSUME NEW delay \in 0..MaxDelay, ScheduleRetry(h, d, delay)
      PROVE  LifeSteps
  <2> DEFINE row == [Unleased(old) EXCEPT !.status = "retry_wait", !.wait = delay - d]
  <2>1. row.status = "retry_wait" /\ row.owner = NoOwner
    BY <1>1, Zenon DEF Unleased, JobRow
  <2>2. PhaseOf(old) = "executing"
    BY <1>3, <1>7 DEF ScheduleRetry
  <2> HIDE DEF row, old
  <2>3. LifeStep(old, row)
    BY <2>1, <2>2, GivenUpLives
  <2>4. QED
    BY <1>1, <1>7, <2>3, OneRowLives DEF ScheduleRetry, row, old
<1>8. QED
  BY <1>2, <1>4, <1>5, <1>6, <1>7 DEF LeaseCall

LEMMA PipelineCallLives ==
    ASSUME TablesTypeOK, NEW h \in Handle, PipelineCall(h)
    PROVE  LifeSteps
<1> DEFINE old == jobs[h.job]
<1>1. h.job \in Jobs /\ old \in JobRow
  BY DEF TablesTypeOK, Handle
<1>2. CASE StartPipeline(h)
  BY <1>2, LifeStands DEF StartPipeline, LifeSteps
<1>3. CASE CompletePipeline(h)
  <2> DEFINE row == [Unleased(old) EXCEPT !.status = "completed",
                                          !.stage = PublishStage]
  <2>1. row.status = "completed" /\ row.owner = NoOwner
    BY <1>1, Zenon DEF Unleased, JobRow
  <2>2. PhaseOf(old) = "executing"
    BY <1>3 DEF CompletePipeline, CancelNotSeen, ActiveLease, Holds, PhaseOf, Pending
  <2> HIDE DEF row, old
  <2>3. LifeStep(old, row)
    BY <2>1, <2>2, GivenUpLives
  <2>4. QED
    BY <1>1, <1>3, <2>3, OneRowLives DEF CompletePipeline, row, old
<1>4. ASSUME NEW n, jobs' = [jobs EXCEPT ![h.job].stage = n]
      PROVE  LifeSteps
  <2> DEFINE row == [old EXCEPT !.stage = n]
  <2>1. /\ row.status = old.status /\ row.cancel = old.cancel
        /\ row.owner = old.owner
    BY <1>1, Zenon DEF JobRow
  <2>2. LifeStep(old, row)
    BY <2>1 DEF LifeStep, LifeGoesOn, PhaseOf
  <2>3. jobs' = [jobs EXCEPT ![h.job] = row]
    BY <1>4, Zenon
  <2>4. QED
    BY <1>1, <2>2, <2>3, OneRowLives
<1>5. ASSUME NEW s \in Stages, CheckpointStep(h, s) \/ ResetStepsFrom(h, s)
      PROVE  \E n : jobs' = [jobs EXCEPT ![h.job].stage = n]
  BY <1>5 DEF CheckpointStep, ResetStepsFrom
<1>6. QED
  BY <1>2, <1>3, <1>4, <1>5 DEF PipelineCall

LEMMA SweepLives ==
    ASSUME TablesTypeOK, RowsOK, TablesAgree, NEW d \in Lags,
           RecoverExpiredJobs(d) \/ ClaimFindsNothing(d) \/ TablesTick
    PROVE  LifeSteps
<1>1. \A j \in Jobs : jobs[j] \in JobRow /\ RowOK(jobs[j])
  BY DEF TablesTypeOK, RowsOK
<1>2. CASE RecoverExpiredJobs(d)
  <2>1. \A j \in Jobs : AssetOf[j] \in requests => Stopped(jobs[j])
    BY DEF TablesAgree, DeletionStopsJobs, Stopped
  <2>2. QED
    BY <1>1, <1>2, <2>1, RecoverRowLives DEF RecoverExpiredJobs, LifeSteps
<1>3. CASE ClaimFindsNothing(d)
  BY <1>3, RefreshedRowLives DEF ClaimFindsNothing, LifeSteps
<1>4. CASE TablesTick
  <2>1. \A j \in Jobs : LifeStep(jobs[j], TickRow(jobs[j]))
    BY <1>1, TickRowFacts DEF LifeStep, LifeGoesOn, PhaseOf
  <2>2. QED
    BY <1>4, <2>1 DEF TablesTick, LifeSteps
<1>5. QED
  BY <1>2, <1>3, <1>4

\* A claim takes a waiting job, or one whose holder's lease has lapsed.
LEMMA ClaimLives ==
    ASSUME TablesTypeOK, RowsOK, TablesAgree,
           NEW j \in Jobs, NEW o \in Owners, NEW d \in Lags, ClaimDueJob(j, o, d)
    PROVE  LifeSteps
<1> DEFINE row == RefreshedJobs(d)[j]
           new == ClaimedRow(row, o, d)
<1>1. row \in JobRow /\ RowOK(row)
  BY RefreshedRow
<1>2. /\ new.status = "running" /\ new.owner = o
      /\ new.cancel <=> row.status = "running"
  BY <1>1, ClaimedRowFacts
<1>3. new.lease = LeaseSeconds - d
  BY <1>1, Zenon DEF ClaimedRow, JobRow
<1>4. ~Expired(new, 0)
  BY <1>3, TimerRanges DEF Expired
<1>5. jobs' = [RefreshedJobs(d) EXCEPT ![j] = new]
  BY Zenon DEF ClaimDueJob
<1>6. DOMAIN RefreshedJobs(d) = Jobs
  BY DEF RefreshedJobs
<1>7. jobs'[j] = new /\ \A k \in Jobs \ {j} : jobs'[k] = RefreshedJobs(d)[k]
  BY <1>5, <1>6, Zenon
<1>8. NotHeld(jobs[j]) /\
      \/ row.status = "running" /\ PhaseOf(jobs[j]) = "cancelling"
      \/ row.status = "queued" /\ PhaseOf(jobs[j]) \in {"waiting", "executing"}
  <2>1. DueForCleanup(j, row, d) \/ DueForAttempt(j, row, d)
    BY DEF ClaimDueJob, Claimable
  <2>2. /\ DueForCleanup(j, row, d) => row.status = "running"
        /\ DueForAttempt(j, row, d) => row.status = "queued"
    BY DEF DueForCleanup, DueForAttempt
  <2>3. QED
    BY <2>1, <2>2, RefreshedRowLives
<1> HIDE DEF row, new
<1>9. LifeStep(jobs[j], new)
  <2>1. PhaseOf(new) = IF row.status = "running" THEN "cancelling" ELSE "executing"
    BY <1>2 DEF PhaseOf, Pending
  <2>2. QED
    BY <1>2, <1>4, <1>8, <2>1 DEF LifeStep, LifeIsTaken
<1>10. \A k \in Jobs : LifeStep(jobs[k], RefreshedJobs(d)[k])
  BY RefreshedRowLives
<1>11. QED
  BY <1>7, <1>9, <1>10 DEF LifeSteps

LEMMA DeletionLives ==
    ASSUME TablesTypeOK, RowsOK, NEW a \in Assets,
           \/ \E d \in Lags : PrepareAssetDeletion(a, d)
           \/ FinalizeAssetDeletion(a)
    PROVE  LifeSteps
<1>1. ASSUME NEW d \in Lags, PrepareAssetDeletion(a, d)
      PROVE  LifeSteps
  <2>1. \A j \in Jobs : LifeStep(jobs[j], CancelRow(jobs[j], d))
    BY CancelRowLives DEF TablesTypeOK, RowsOK
  <2>2. QED
    BY <1>1, <2>1, LifeStands DEF PrepareAssetDeletion, LifeSteps
<1>2. CASE FinalizeAssetDeletion(a)
  <2>1. AbsentJob.owner = NoOwner /\ AbsentJob.status = "absent"
    BY DEF AbsentJob
  <2>2. \A j \in Jobs : AssetOf[j] = a => jobs[j].status # "running"
    BY <1>2 DEF FinalizeAssetDeletion, HasRunningJob
  <2>3. ASSUME NEW j \in Jobs, jobs[j].status # "running"
        PROVE  LifeStep(jobs[j], AbsentJob)
    <3>1. jobs[j].status \in JobStatus \ {"running"}
      BY <2>3 DEF TablesTypeOK, JobRow
    <3>2. PhaseOf(AbsentJob) = "absent" /\ PhaseOf(jobs[j]) \notin {"executing", "cancelling"}
      BY <2>1, <3>1 DEF PhaseOf, JobStatus, Pending, Terminal
    <3>3. QED
      BY <2>1, <3>2 DEF LifeStep, LifeIsFreed
  <2>4. QED
    BY <1>2, <2>2, <2>3, LifeStands DEF FinalizeAssetDeletion, LifeSteps
<1>3. QED
  BY <1>1, <1>2

-----------------------------------------------------------------------------
(* The theorem *)

LEMMA StepLives ==
    ASSUME RowInv, TablesAgree, [Next]_vars
    PROVE  LifeSteps
<1>1. TablesTypeOK /\ RowsOK /\ claims \subseteq Handle
  BY DEF RowInv, TypeOK
<1>2. UNCHANGED tables => LifeSteps
  BY LifeStands DEF tables, LifeSteps
<1>3. ASSUME NEW j \in Jobs, NEW d \in Lags, JobCall(j, d)
      PROVE  LifeSteps
  BY <1>1, <1>3, JobCallLives
<1>4. ASSUME NEW h \in claims, NEW d \in Lags, LeaseCall(h, d)
      PROVE  LifeSteps
  BY <1>1, <1>4, LeaseCallLives
<1>5. ASSUME NEW h \in claims, PipelineCall(h)
      PROVE  LifeSteps
  BY <1>1, <1>5, PipelineCallLives
<1>6. ASSUME NEW d \in Lags, RecoverExpiredJobs(d) \/ ClaimFindsNothing(d)
      PROVE  LifeSteps
  BY <1>1, <1>6, SweepLives
<1>7. ASSUME NEW j \in Jobs, NEW o \in Owners, NEW d \in Lags, Claim(j, o, d)
      PROVE  LifeSteps
  BY <1>1, <1>7, ClaimLives DEF Claim
<1>8. ASSUME NEW a \in Assets, NEW d \in Lags, BeginDeletion(a, d)
      PROVE  LifeSteps
  BY <1>1, <1>8, DeletionLives DEF BeginDeletion
<1>9. ASSUME NEW a \in Assets, EndDeletion(a)
      PROVE  LifeSteps
  BY <1>1, <1>9, DeletionLives DEF EndDeletion
<1>10. CASE Tick
  <2>1. 0 \in Lags
    BY TimeAssumption
  <2>2. QED
    BY <1>1, <1>10, <2>1, SweepLives DEF Tick
<1>11. CASE \/ \E gone \in SUBSET claims : Forget(gone)
            \/ \E a \in Assets : AbortDeletion(a)
            \/ UNCHANGED vars
  BY <1>2, <1>11 DEF Forget, AbortDeletion, vars
<1>12. QED
  BY <1>3, <1>4, <1>5, <1>6, <1>7, <1>8, <1>9, <1>10, <1>11 DEF Next

\* Every behaviour of the job tables is one of the abstract lifecycle: one holder
\* at a time, takeover only of a lapsed lease, cancellation of a running job only
\* through a holder's cleanup (repository.py).
THEOREM RepositoryImplementsLifecycle == Spec => ImplementsLifecycle
<1>1. RepositoryInit => Lifecycle!Init
  <2> SUFFICES ASSUME RepositoryInit PROVE Lifecycle!Init
    OBVIOUS
  <2>1. jobs = [j \in Jobs |-> AbsentJob]
    BY DEF RepositoryInit, TablesInit
  <2>2. /\ PhaseOf(AbsentJob) = "absent" /\ AbsentJob.owner = NoOwner
        /\ Expired(AbsentJob, 0) = FALSE
    BY DEF AbsentJob, PhaseOf, Pending, Expired
  <2>3. QED
    BY <2>1, <2>2 DEF Lifecycle!Init
<1>2. RowInv /\ TypeOK' /\ TablesAgree /\ [Next]_vars => Lifecycle!Next
  BY StepLives, LifeStepsImplement DEF TypeOK
<1>3. QED
  BY <1>1, <1>2, RowInvariant, TypeCorrect, TablesAlwaysAgree, PTL
  DEF Spec, ImplementsLifecycle, Lifecycle!Spec

-----------------------------------------------------------------------------
(* The upload sessions of the assets: why a session keeps its chunks, its source *)
(* and its answers together, for any number of clients, contents, chunks,        *)
(* requests and mishaps: what is confirmed or on disk is never changed, and only *)
(* the handler that owns a reservation, with its file in place, confirms it.     *)

ChunkPcs == {"reserve", "reread", "write", "confirm", "release", "report", "assemble"}
OwnerPcs == {"reread", "write", "confirm", "release"}

\* Every row is of the client that has bound the session.
RowFits(n) == rows[n] # NoRow => /\ session.client # Nobody
                                 /\ SenderOf[rows[n].content] = session.client
                                 /\ n <= Total

Stored(c) == c.n \in Confirmed /\ rows[c.n].content = c.content

\* What a handler that stands at an await has found out before.
CallFits(c) ==
    /\ c.pc \in ChunkPcs => /\ c.n \in Ordinals /\ c.content \in offered
                            /\ c.n <= TotalOf[SenderOf[c.content]]
                            /\ InOrder => 1 .. c.n - 1 \subseteq acked
    /\ c.pc \in {"report", "assemble"} => Stored(c)
    /\ c.pc \in {"reread", "write"} /\ ~c.token => Stored(c)
    /\ c.pc \in {"confirm", "release"} => c.token
    /\ c.pc = "assemble" => Whole
    /\ c.pc = "complete" => c.n = 0
    /\ c.pc = "finalize" => /\ source # NoFile /\ c.digest = source
                            /\ c.n # 0 => c.n \in Confirmed
    /\ session.expired => ~c.token

HandlerOwns(c, n) ==
    /\ c.pc \in OwnerPcs /\ c.token /\ c.n = n /\ c.content = rows[n].content
    /\ c.pc = "confirm" => parts[n] = c.content

\* The owner of a reservation is a handler that still has its token.
OwnerFits(n) == rows[n].owner \in Calls =>
    rows[n].status = "reserved" /\ HandlerOwns(calls[rows[n].owner], n)

SessionInv ==
    /\ SessionTypeOK
    /\ session.received = Cardinality(Confirmed)
    /\ \A n \in Ordinals : RowFits(n) /\ OwnerFits(n)
    /\ \A k \in Calls : CallFits(calls[k])
    /\ ConfirmedChunksAreStored /\ SourceIsTheUpload
    /\ acked \subseteq Confirmed
    /\ (session.ready => queued)
    /\ (session.expired => session.ready)

-----------------------------------------------------------------------------

LEMMA CountsFit ==
    ASSUME NEW S \in SUBSET Ordinals
    PROVE  IsFiniteSet(S) /\ Cardinality(S) \in 0 .. MaxStored + 1
<1>1. IsFiniteSet(Ordinals) /\ Cardinality(Ordinals) = MaxStored + 1
  BY FS_Interval, UploadAssumption DEF Ordinals
<1>2. IsFiniteSet(S) /\ Cardinality(S) <= MaxStored + 1
  BY <1>1, FS_Subset
<1> QED BY <1>2, FS_CardinalityType, UploadAssumption

\* A session with as many confirmed chunks as its upload has is complete.
LEMMA WholeIsFull ==
    ASSUME SessionInv
    PROVE  /\ Total \in Ordinals /\ Confirmed \subseteq 1 .. Total
           /\ Whole <=> Confirmed = 1 .. Total
           /\ Cardinality(Confirmed) = Total <=> Confirmed = 1 .. Total
<1>1. Total \in Ordinals
  BY UploadAssumption DEF SessionInv, SessionTypeOK, Total, Ordinals
<1>2. Confirmed \subseteq 1 .. Total
  BY <1>1 DEF SessionInv, RowFits, Confirmed, NoRow, Ordinals
<1>3. IsFiniteSet(1 .. Total) /\ Cardinality(1 .. Total) = Total
  BY <1>1, FS_Interval, UploadAssumption DEF Ordinals
<1>4. Cardinality(Confirmed) = Total <=> Confirmed = 1 .. Total
  BY <1>2, <1>3, FS_Subset
<1> QED BY <1>1, <1>2, <1>4 DEF Whole, SessionInv

\* Nothing is reserved in a complete session.
LEMMA FullIsSettled ==
    ASSUME SessionInv, Confirmed = 1 .. Total
    PROVE  \A n \in Ordinals : /\ rows[n] = NoRow \/ n \in Confirmed
                               /\ rows[n].owner \notin Calls
<1> TAKE n \in Ordinals
<1>1. Total \in Nat /\ n \in Nat /\ n >= 1
  BY UploadAssumption, WholeIsFull DEF Ordinals
<1>2. rows[n] = NoRow \/ n \in Confirmed
  BY <1>1 DEF SessionInv, RowFits
<1>3. CASE rows[n] = NoRow
  BY <1>2, <1>3, UploadAssumption DEF NoRow
<1>4. CASE n \in Confirmed
  BY <1>2, <1>4 DEF SessionInv, OwnerFits, Confirmed
<1> QED BY <1>2, <1>3, <1>4

\* A handler that has only read the rows goes on; what it knows stays true.
LEMMA CallMoves ==
    ASSUME SessionInv, NEW k \in Calls, NEW c \in Call, calls' = [calls EXCEPT ![k] = c],
           CallFits(c)', \A n \in Ordinals : rows[n].owner = k => HandlerOwns(c, n),
           UNCHANGED <<session, rows, parts, source, sha256, queued, offered>>,
           acked \subseteq acked', acked' \subseteq Confirmed, mishaps' \in 0 .. MaxMishaps
    PROVE  SessionInv'
<1>1. SessionTypeOK'
  BY DEF SessionInv, SessionTypeOK, Confirmed
<1>2. Confirmed' = Confirmed /\ (Total = Total)' /\ InOrder' = InOrder /\ Whole' = Whole /\ Total' = Total
  BY DEF Confirmed, InOrder, Whole, Total
<1>3. ASSUME NEW n \in Ordinals PROVE (RowFits(n) /\ OwnerFits(n))'
  BY <1>2 DEF SessionInv, SessionTypeOK, RowFits, OwnerFits, HandlerOwns
<1>4. ASSUME NEW h \in Calls PROVE CallFits(calls[h])'
  <2>1. CASE h = k
    BY <2>1 DEF SessionInv, SessionTypeOK
  <2>2. CASE h # k
    <3>1. calls'[h] = calls[h]
      BY <2>2 DEF SessionInv, SessionTypeOK
    <3>2. CallFits(calls[h])
      BY DEF SessionInv
    <3> QED BY <1>2, <3>1, <3>2 DEF CallFits, Stored
  <2> QED BY <2>1, <2>2
<1>5. (ConfirmedChunksAreStored /\ SourceIsTheUpload)'
  BY <1>2 DEF SessionInv, ConfirmedChunksAreStored, SourceIsTheUpload
<1> QED BY <1>1, <1>2, <1>3, <1>4, <1>5 DEF SessionInv

\* A handler without a token, or at another await, owns no reservation.
LEMMA OwnersStandThere ==
    ASSUME SessionInv, NEW k \in Calls, ~calls[k].token \/ calls[k].pc \notin OwnerPcs
    PROVE  \A n \in Ordinals : rows[n].owner # k
BY DEF SessionInv, OwnerFits, HandlerOwns

LEMMA IdleIsCall == Idle \in Call
BY UploadAssumption DEF Idle, Call, Pc, Ordinals

\* An answer of a handler that owns nothing leaves the others alone.
LEMMA EndIsSafe ==
    ASSUME SessionInv, NEW k \in Calls, Ends(k), \A n \in Ordinals : rows[n].owner # k,
           UNCHANGED <<session, rows, parts, source, sha256, queued, offered>>,
           acked \subseteq acked', acked' \subseteq Confirmed, mishaps' \in 0 .. MaxMishaps
    PROVE  SessionInv'
<1>1. CallFits(Idle)'
  BY DEF Idle, CallFits, ChunkPcs
<1> QED BY IdleIsCall, <1>1, CallMoves DEF Ends

\* A mishap is counted.
LEMMA MishapsCount ==
    ASSUME SessionInv, Mishap \/ UNCHANGED mishaps
    PROVE  mishaps' \in 0 .. MaxMishaps
BY UploadAssumption DEF SessionInv, SessionTypeOK, Mishap

\* A handler that goes to its next await.
LEMMA GoingIsSafe ==
    ASSUME SessionInv, NEW k \in Calls, NEW c \in Call, calls' = [calls EXCEPT ![k] = c],
           CallFits(c), \A n \in Ordinals : rows[n].owner = k => HandlerOwns(c, n),
           UNCHANGED <<sessionRow, fileVars, sha256, queued, clientVars>>,
           Mishap \/ UNCHANGED mishaps
    PROVE  SessionInv'
<1>1. CallFits(c)'
  BY DEF CallFits, Stored, Confirmed, InOrder, Whole, Total, sessionRow, fileVars, clientVars
<1>2. acked \subseteq acked' /\ acked' \subseteq Confirmed
  BY DEF SessionInv, clientVars
<1> QED BY <1>1, <1>2, MishapsCount, CallMoves DEF sessionRow, fileVars, clientVars

\* A client's request.
LEMMA ClientSendsSafely ==
    ASSUME SessionInv, NEW k \in Calls, ClientSends(k)
    PROVE  SessionInv'
<1>0. \A n \in Ordinals : rows[n].owner # k
  <2> SUFFICES calls[k] = Idle
    BY OwnersStandThere DEF Idle
  <2> QED BY DEF ClientSends, SendChunk, SendComplete
<1>1. ASSUME NEW x \in Contents, NEW n \in Ordinals, SendChunk(k, x, n) PROVE SessionInv'
  <2> DEFINE c == [Idle EXCEPT !.pc = "reserve", !.n = n, !.content = x]
  <2>1. c \in Call
    BY IdleIsCall DEF Call, Pc
  <2>2. CallFits(c)
    BY <1>1 DEF SendChunk, CallFits, ChunkPcs, Idle, IsNext
  <2>3. calls' = [calls EXCEPT ![k] = c]
    BY <1>1 DEF SendChunk
  <2> QED BY <1>0, <1>1, <2>1, <2>2, <2>3, GoingIsSafe DEF SendChunk
<1>2. CASE SendComplete(k)
  <2> DEFINE c == [Idle EXCEPT !.pc = "complete"]
  <2>1. c \in Call
    BY IdleIsCall DEF Call, Pc
  <2>2. CallFits(c)
    BY DEF CallFits, ChunkPcs, Idle
  <2>3. calls' = [calls EXCEPT ![k] = c]
    BY <1>2 DEF SendComplete
  <2> QED BY <1>0, <1>2, <2>1, <2>2, <2>3, GoingIsSafe DEF SendComplete
<1> QED BY <1>1, <1>2 DEF ClientSends

\* An exception: the reservation is still the handler's until it is released.
LEMMA ThrowIsSafe ==
    ASSUME SessionInv, NEW k \in Calls, Throws(k), Mishap \/ UNCHANGED mishaps,
           calls[k].pc \in {"write", "confirm"}
    PROVE  SessionInv'
<1>1. CASE calls[k].token
  <2> DEFINE c == [calls[k] EXCEPT !.pc = "release"]
  <2>1. c \in Call
    BY DEF SessionInv, SessionTypeOK, Call, Pc
  <2>2. CallFits(c)
    <3>1. CallFits(calls[k])
      BY DEF SessionInv
    <3> QED BY <1>1, <3>1 DEF CallFits, ChunkPcs, SessionInv, SessionTypeOK, Call
  <2>3. calls' = [calls EXCEPT ![k] = c]
    BY <1>1 DEF Throws, GoesTo
  <2>4. ASSUME NEW n \in Ordinals, rows[n].owner = k PROVE HandlerOwns(c, n)
    BY <1>1, <2>4 DEF SessionInv, SessionTypeOK, Call, OwnerFits, HandlerOwns, OwnerPcs
  <2> QED BY <2>1, <2>2, <2>3, <2>4, GoingIsSafe DEF Throws
<1>2. CASE ~calls[k].token
  <2>1. \A n \in Ordinals : rows[n].owner # k
    BY <1>2, OwnersStandThere
  <2>2. acked \subseteq acked' /\ acked' \subseteq Confirmed
    BY DEF Throws, SessionInv, clientVars
  <2> QED BY <1>2, <2>1, <2>2, EndIsSafe, MishapsCount DEF Throws, sessionRow, fileVars, clientVars
<1> QED BY <1>1, <1>2

\* An error answer of a handler that owns nothing.
LEMMA RefusalIsSafe ==
    ASSUME SessionInv, NEW k \in Calls, Ends(k),
           ~calls[k].token \/ calls[k].pc \notin OwnerPcs,
           UNCHANGED <<sessionRow, fileVars, sha256, queued, clientVars>>,
           Mishap \/ UNCHANGED mishaps
    PROVE  SessionInv'
<1>1. acked \subseteq acked' /\ acked' \subseteq Confirmed
  BY DEF SessionInv, clientVars
<1> QED BY <1>1, OwnersStandThere, EndIsSafe, MishapsCount DEF sessionRow, fileVars, clientVars

\* The steps in which a handler only reads.
LEMMA ReadingIsSafe ==
    ASSUME SessionInv, NEW k \in Calls,
           \/ ReserveNothing(k) \/ ReserveRefused(k) \/ Reread(k)
           \/ ChunkRefused(k) \/ SkipWrite(k) \/ ConfirmRefused(k)
           \/ ReportLast(k) \/ AssembleRefused(k) \/ ReadSource(k) \/ NoSource(k) \/ SourceRefused(k)
           \/ WriteFails(k) \/ ConfirmFails(k) \/ AssembleFails(k)
    PROVE  SessionInv'
<1> DEFINE c0 == calls[k]
<1>1. CallFits(c0) /\ c0 \in Call
  BY DEF SessionInv, SessionTypeOK
<1>2. calls \in [Calls -> Call]
  BY DEF SessionInv, SessionTypeOK
<1>3. CASE ReserveNothing(k)
  <2> DEFINE c == [c0 EXCEPT !.pc = "reread"]
  <2>1. c \in Call
    BY <1>1 DEF Call, Pc
  <2>2. Stored(c)
    BY <1>1, <1>3 DEF ReserveNothing, Reserving, Stored, Confirmed, CallFits, ChunkPcs, Call
  <2>3. CallFits(c)
    BY <1>1, <1>3, <2>2 DEF ReserveNothing, Reserving, CallFits, ChunkPcs, Call
  <2>4. calls' = [calls EXCEPT ![k] = c]
    BY <1>3 DEF ReserveNothing, GoesTo
  <2>5. \A n \in Ordinals : rows[n].owner # k
    BY <1>3, OwnersStandThere DEF ReserveNothing, Reserving, OwnerPcs
  <2> QED BY <1>3, <2>1, <2>3, <2>4, <2>5, GoingIsSafe DEF ReserveNothing
<1>4. CASE ReserveRefused(k) \/ AssembleRefused(k) \/ NoSource(k) \/ SourceRefused(k) \/ AssembleFails(k)
  BY <1>4, RefusalIsSafe DEF ReserveRefused, Reserving, AssembleRefused, NoSource, SourceRefused,
                             AssembleFails, Refused, OwnerPcs
<1>5. CASE Reread(k)
  <2> DEFINE c == [c0 EXCEPT !.pc = "write", !.total = Total]
  <2>1. c \in Call
    BY <1>1, WholeIsFull DEF Call, Pc
  <2>2. CallFits(c)
    BY <1>1, <1>5 DEF Reread, CallFits, Stored, ChunkPcs, Call
  <2>3. calls' = [calls EXCEPT ![k] = c]
    BY <1>5 DEF Reread
  <2>4. ASSUME NEW n \in Ordinals, rows[n].owner = k PROVE HandlerOwns(c, n)
    BY <1>1, <2>4 DEF SessionInv, OwnerFits, HandlerOwns, OwnerPcs, Call
  <2> QED BY <1>5, <2>1, <2>2, <2>3, <2>4, GoingIsSafe DEF Reread
<1>6. CASE ChunkRefused(k) \/ WriteFails(k) \/ ConfirmRefused(k) \/ ConfirmFails(k)
  BY <1>6, ThrowIsSafe DEF ChunkRefused, WriteFails, ConfirmRefused, ConfirmFails, ToWrite
<1>7. CASE SkipWrite(k)
  <2> DEFINE c == [c0 EXCEPT !.pc = "report"]
  <2>1. c \in Call
    BY <1>1 DEF Call, Pc
  <2>2. CallFits(c)
    BY <1>1, <1>7 DEF SkipWrite, ToWrite, CallFits, Stored, ChunkPcs, Call
  <2>3. calls' = [calls EXCEPT ![k] = c]
    BY <1>7 DEF SkipWrite, GoesTo
  <2>4. \A n \in Ordinals : rows[n].owner # k
    BY <1>7, OwnersStandThere DEF SkipWrite, ToWrite
  <2> QED BY <1>7, <2>1, <2>2, <2>3, <2>4, GoingIsSafe DEF SkipWrite
<1>8. CASE ReportLast(k)
  <2> DEFINE c == [c0 EXCEPT !.pc = "assemble"]
  <2>1. c \in Call
    BY <1>1 DEF Call, Pc
  <2>2. CallFits(c)
    BY <1>1, <1>8 DEF ReportLast, CallFits, Stored, ChunkPcs, Call
  <2>3. calls' = [calls EXCEPT ![k] = c]
    BY <1>8 DEF ReportLast, GoesTo
  <2>4. \A n \in Ordinals : rows[n].owner # k
    BY <1>8, OwnersStandThere DEF ReportLast, OwnerPcs
  <2> QED BY <1>8, <2>1, <2>2, <2>3, <2>4, GoingIsSafe DEF ReportLast
<1>9. CASE ReadSource(k)
  <2> DEFINE c == [c0 EXCEPT !.pc = "finalize", !.digest = source]
  <2>1. c \in Call
    BY <1>1 DEF Call, Pc, SessionInv, SessionTypeOK
  <2>2. CallFits(c)
    BY <1>1, <1>9 DEF ReadSource, CallFits, ChunkPcs, Call
  <2>3. calls' = [calls EXCEPT ![k] = c]
    BY <1>9 DEF ReadSource
  <2>4. \A n \in Ordinals : rows[n].owner # k
    BY <1>9, OwnersStandThere DEF ReadSource, OwnerPcs
  <2> QED BY <1>9, <2>1, <2>2, <2>3, <2>4, GoingIsSafe DEF ReadSource
<1> QED BY <1>3, <1>4, <1>5, <1>6, <1>7, <1>8, <1>9

\* An answer 200 for a chunk that is confirmed.
LEMMA AnswerIsSafe ==
    ASSUME SessionInv, NEW k \in Calls, Answered(k), calls[k].n \in Confirmed,
           calls[k].pc \notin OwnerPcs,
           UNCHANGED <<session, rows, parts, source, sha256, queued>>
    PROVE  SessionInv'
<1>1. acked \subseteq acked' /\ acked' \subseteq Confirmed
  BY DEF Answered, SessionInv
<1>2. Mishap \/ UNCHANGED mishaps
  BY DEF Answered
<1> QED BY <1>1, <1>2, MishapsCount, OwnersStandThere, EndIsSafe DEF Answered

LEMMA CountIsSafe ==
    ASSUME SessionInv, NEW k \in Calls, ReportCount(k)
    PROVE  SessionInv'
<1>1. calls[k].n \in Confirmed
  BY DEF SessionInv, CallFits, Stored, ReportCount
<1> QED BY <1>1, AnswerIsSafe DEF ReportCount, OwnerPcs, sessionRow, fileVars

-----------------------------------------------------------------------------

\* What a handler knows stays true as long as confirmed rows and the source do.
LEMMA FitsStays ==
    ASSUME SessionInv, NEW h \in Calls, calls'[h] = calls[h],
           offered' = offered, acked \subseteq acked',
           \A n \in Confirmed : n \in Confirmed' /\ rows'[n].content = rows[n].content,
           calls[h].pc = "assemble" => Whole', source # NoFile => source' = source,
           session'.expired = session.expired
    PROVE  CallFits(calls[h])'
<1>1. InOrder' = InOrder
  BY DEF InOrder
<1>2. CallFits(calls[h])
  BY DEF SessionInv
<1>3. Stored(calls[h]) => Stored(calls[h])'
  BY DEF Stored
<1> QED BY <1>1, <1>2, <1>3 DEF CallFits

\* Before its last chunk is confirmed a session has no source, no digest and no job.
LEMMA OpenSession ==
    ASSUME SessionInv, Confirmed # 1 .. Total
    PROVE  /\ source = NoFile /\ sha256 = NoFile
           /\ ~queued /\ ~session.ready /\ ~session.expired
           /\ \A k \in Calls : calls[k].pc \notin {"assemble", "finalize"}
<1>1. source = NoFile /\ sha256 = NoFile
  BY DEF SessionInv, SourceIsTheUpload
<1>2. \A k \in Calls : calls[k].pc \notin {"assemble", "finalize"}
  BY <1>1, WholeIsFull DEF SessionInv, CallFits
<1> QED BY <1>1, <1>2 DEF SessionInv, SessionTypeOK, SourceIsTheUpload

\* A chunk is reserved in an open session only.
LEMMA ReservesInOpenSession ==
    ASSUME SessionInv, NEW k \in Calls, ReserveNew(k) \/ ReserveAgain(k)
    PROVE  /\ Confirmed # 1 .. Total /\ calls[k].n \notin Confirmed
           /\ Unbound \/ session.client = Sender(k)
           /\ calls[k].n \in Ordinals /\ calls[k].content \in Contents
           /\ calls[k].n <= TotalOf[Sender(k)]
<1> DEFINE n == calls[k].n
<1>1. /\ n \in Ordinals /\ calls[k].content \in Contents /\ n <= TotalOf[Sender(k)]
      /\ calls[k].pc = "reserve"
  BY DEF ReserveNew, ReserveAgain, Reserving, SessionInv, SessionTypeOK, CallFits, ChunkPcs, Sender
<1>2. n \notin Confirmed
  BY DEF ReserveNew, ReserveAgain, Confirmed, NoRow
<1>3. Unbound \/ session.client = Sender(k)
  BY DEF ReserveNew, ReserveAgain, Accepts
<1>4. ASSUME Confirmed = 1 .. Total PROVE FALSE
  <2>1. rows[n] = NoRow
    BY <1>1, <1>2, <1>4, FullIsSettled
  <2>2. 1 \in Confirmed /\ 1 \in Ordinals
    BY <1>4, WholeIsFull, UploadAssumption DEF Ordinals
  <2>3. ~Unbound
    BY <2>2 DEF Unbound, Confirmed, NoRow
  <2>4. Total = TotalOf[Sender(k)]
    BY <1>1, <1>3, <2>3, UploadAssumption DEF Total, Sender
  <2>5. n \in 1 .. Total
    BY <1>1, <2>4, WholeIsFull, UploadAssumption DEF Ordinals
  <2> QED BY <1>2, <1>4, <2>5
<1> QED BY <1>1, <1>2, <1>3, <1>4

LEMMA ReserveIsSafe ==
    ASSUME SessionInv, NEW k \in Calls, ReserveNew(k) \/ ReserveAgain(k)
    PROVE  SessionInv'
<1> DEFINE n == calls[k].n
           c == [calls[k] EXCEPT !.pc = "reread", !.token = TRUE]
           row == [status |-> "reserved", content |-> calls[k].content, owner |-> k, lapsed |-> FALSE]
<1> USE DEF sessionRow, fileVars, clientVars
<1>0. /\ rows \in [Ordinals -> Row] /\ calls \in [Calls -> Call] /\ calls[k].pc = "reserve"
      /\ CallFits(calls[k]) /\ Sender(k) \in Clients /\ UNCHANGED <<parts, source, sha256, queued, offered, acked, mishaps>>
  BY ReservesInOpenSession, UploadAssumption
     DEF SessionInv, SessionTypeOK, ReserveNew, ReserveAgain, Reserving, Sender
<1>1. rows' = [rows EXCEPT ![n] = row] /\ calls' = [calls EXCEPT ![k] = c]
  BY DEF ReserveNew, ReserveAgain, Reserves
<1>2. session' = [session EXCEPT !.client = Sender(k)]
  <2>1. CASE ReserveNew(k)
    BY <2>1, ReservesInOpenSession DEF ReserveNew, SessionInv, SessionTypeOK
  <2>2. CASE ReserveAgain(k)
    <3>1. ~Unbound
      BY <2>2, ReservesInOpenSession DEF ReserveAgain, Unbound, NoRow
    <3> QED BY <2>2, <3>1, ReservesInOpenSession DEF ReserveAgain, SessionInv, SessionTypeOK
  <2> QED BY <2>1, <2>2
<1>3. SessionTypeOK'
  <2>1. c \in Call
    BY <1>0 DEF Call, Pc
  <2>2. row \in Row
    BY ReservesInOpenSession DEF Row
  <2> QED BY <1>0, <1>1, <1>2, <2>1, <2>2 DEF SessionInv, SessionTypeOK
<1>4. Confirmed' = Confirmed /\ \A m \in Confirmed : rows'[m] = rows[m]
  BY <1>0, <1>1, ReservesInOpenSession DEF Confirmed
<1>5. ASSUME NEW m \in Ordinals PROVE (RowFits(m) /\ OwnerFits(m))'
  <2>1. CASE m = n
    <3>1. session'.client = Sender(k) /\ session'.client # Nobody
      BY <1>0, <1>2, UploadAssumption DEF SessionInv, SessionTypeOK
    <3>2. Total' = TotalOf[Sender(k)]
      BY <3>1 DEF Total
    <3>3. rows'[m] = row /\ calls'[k] = c
      BY <1>0, <1>1, <2>1
    <3>4. c.pc = "reread" /\ c.token /\ c.n = n /\ c.content = row.content
      BY <1>0 DEF Call
    <3>5. RowFits(m)'
      BY <2>1, <3>1, <3>2, <3>3, ReservesInOpenSession DEF RowFits, Sender
    <3>6. HandlerOwns(calls[k], m)'
      BY <2>1, <3>3, <3>4 DEF HandlerOwns, OwnerPcs
    <3>7. OwnerFits(m)'
      BY <3>3, <3>6 DEF OwnerFits
    <3> QED BY <3>5, <3>7
  <2>2. CASE m # n
    <3>1. rows'[m] = rows[m] /\ parts'[m] = parts[m]
      BY <1>0, <1>1, <2>2
    <3>2. rows[m].owner # k
      BY <1>0, OwnersStandThere DEF OwnerPcs
    <3>3. rows[m] # NoRow => session' = session
      BY <1>2, ReservesInOpenSession DEF Unbound, SessionInv, SessionTypeOK
    <3>4. RowFits(m) /\ OwnerFits(m)
      BY DEF SessionInv
    <3>5. RowFits(m)'
      BY <3>1, <3>3, <3>4 DEF RowFits, Total
    <3>6. OwnerFits(m)'
      BY <1>0, <1>1, <3>1, <3>2, <3>4 DEF OwnerFits, HandlerOwns
    <3> QED BY <3>5, <3>6
  <2> QED BY <2>1, <2>2
<1>6. ASSUME NEW h \in Calls PROVE CallFits(calls[h])'
  <2>1. session'.expired = session.expired /\ ~session.expired
    BY <1>2, ReservesInOpenSession, OpenSession DEF SessionInv, SessionTypeOK
  <2>2. CASE h = k
    <3>1. calls'[h] = c /\ InOrder' = InOrder
      BY <1>0, <1>1, <2>2 DEF InOrder
    <3> QED BY <1>0, <2>1, <3>1 DEF CallFits, ChunkPcs, Call
  <2>3. CASE h # k
    <3>1. calls'[h] = calls[h]
      BY <1>0, <1>1, <2>3
    <3>2. calls[h].pc # "assemble"
      BY ReservesInOpenSession, OpenSession
    <3> QED BY <1>0, <1>4, <2>1, <3>1, <3>2, FitsStays
  <2> QED BY <2>2, <2>3
<1>7. (ConfirmedChunksAreStored /\ SourceIsTheUpload)'
  BY <1>0, <1>4, ReservesInOpenSession, OpenSession
     DEF SessionInv, ConfirmedChunksAreStored, SourceIsTheUpload
<1>8. session'.received = session.received /\ session'.ready = session.ready /\ session'.expired = session.expired
  BY <1>2 DEF SessionInv, SessionTypeOK
<1> QED BY <1>0, <1>3, <1>4, <1>5, <1>6, <1>7, <1>8 DEF SessionInv

\* The chunk file of a handler; a file that is there stays as it is.
LEMMA WriteIsSafe ==
    ASSUME SessionInv, NEW k \in Calls, WriteChunk(k)
    PROVE  SessionInv'
<1> DEFINE n == calls[k].n
           x == calls[k].content
           c == [calls[k] EXCEPT !.pc = Written(k)]
<1> USE DEF sessionRow, fileVars, clientVars
<1>0. /\ parts \in [Ordinals -> Contents \cup {NoFile}] /\ calls \in [Calls -> Call]
      /\ calls[k].pc = "write" /\ CallFits(calls[k]) /\ n \in Ordinals /\ x \in Contents
      /\ calls' = [calls EXCEPT ![k] = c]
      /\ UNCHANGED <<session, rows, source, sha256, queued, offered, acked, mishaps>>
  BY DEF SessionInv, SessionTypeOK, WriteChunk, ToWrite, CallFits, ChunkPcs, GoesTo
<1>1. parts' = [parts EXCEPT ![n] = x] /\ parts[n] \in {NoFile, x}
  BY <1>0 DEF WriteChunk, Links
<1>2. c \in Call /\ c.pc = Written(k) /\ c.token = calls[k].token /\ c.n = n /\ c.content = x
  BY <1>0 DEF Call, Pc, Written
<1>3. SessionTypeOK'
  BY <1>0, <1>1, <1>2 DEF SessionInv, SessionTypeOK
<1>4. Confirmed' = Confirmed
  BY <1>0 DEF Confirmed
<1>5. ASSUME NEW m \in Ordinals PROVE (RowFits(m) /\ OwnerFits(m))'
  <2>1. RowFits(m) /\ OwnerFits(m)
    BY DEF SessionInv
  <2>2. RowFits(m)'
    BY <1>0, <2>1 DEF RowFits, Total
  <2>3. ASSUME rows[m].owner \in Calls PROVE HandlerOwns(calls[rows[m].owner], m)'
    <3>1. HandlerOwns(calls[rows[m].owner], m)
      BY <2>1, <2>3 DEF OwnerFits
    <3>2. CASE rows[m].owner = k
      BY <1>0, <1>1, <1>2, <3>1, <3>2 DEF HandlerOwns, OwnerPcs, Written
    <3>3. CASE rows[m].owner # k
      <4>1. calls'[rows[m].owner] = calls[rows[m].owner]
        BY <1>0, <2>3, <3>3
      <4>2. parts[m] \in Contents => parts'[m] = parts[m]
        BY <1>0, <1>1, UploadAssumption
      <4>3. rows[m].content \in Contents
        BY <2>1, <2>3 DEF SessionInv, SessionTypeOK, OwnerFits, Row, NoRow
      <4> QED BY <1>0, <3>1, <4>1, <4>2, <4>3 DEF HandlerOwns
    <3> QED BY <3>2, <3>3
  <2> QED BY <1>0, <2>1, <2>2, <2>3 DEF OwnerFits
<1>6. ASSUME NEW h \in Calls PROVE CallFits(calls[h])'
  <2>1. CASE h = k
    <3>1. calls'[h] = c /\ InOrder' = InOrder
      BY <1>0, <2>1 DEF InOrder
    <3>2. /\ calls'[k].pc = Written(k) /\ calls'[k].token = calls[k].token
          /\ calls'[k].n = n /\ calls'[k].content = x
      BY <1>2, <2>1, <3>1
    <3>3. ~calls[k].token => n \in Confirmed' /\ rows'[n].content = x
      BY <1>0, <1>4 DEF CallFits, Stored
    <3>4. n \in Ordinals /\ x \in offered' /\ n <= TotalOf[SenderOf[x]]
          /\ (InOrder' => 1 .. n - 1 \subseteq acked') /\ (session'.expired => ~calls[k].token)
      BY <1>0, <3>1 DEF CallFits, ChunkPcs
    <3> QED BY <2>1, <3>2, <3>3, <3>4 DEF CallFits, Stored, Written
  <2>2. CASE h # k
    <3>1. calls'[h] = calls[h] /\ (calls[h].pc = "assemble" => Whole')
      BY <1>0, <2>2 DEF SessionInv, CallFits, Whole, Total
    <3> QED BY <1>0, <1>4, <3>1, FitsStays
  <2> QED BY <2>1, <2>2
<1>7. ASSUME NEW m \in Confirmed
      PROVE  parts'[m] = rows[m].content \/ (parts'[m] = NoFile /\ session.ready /\ session.expired)
  <2>1. parts[m] = rows[m].content \/ (parts[m] = NoFile /\ session.ready /\ session.expired)
    BY DEF SessionInv, ConfirmedChunksAreStored
  <2>2. CASE m = n /\ parts[n] = NoFile
    <3>1. session.expired
      BY <2>1, <2>2, UploadAssumption DEF Confirmed, SessionInv, SessionTypeOK, Row, NoRow
    <3>2. Stored(calls[k])
      BY <1>0, <3>1 DEF CallFits
    <3> QED BY <1>0, <1>1, <2>2, <3>2 DEF Stored
  <2>3. CASE m # n \/ parts[n] # NoFile
    <3>1. parts'[m] = parts[m]
      BY <1>0, <1>1, <2>3 DEF Confirmed
    <3> QED BY <2>1, <3>1
  <2> QED BY <2>2, <2>3
<1>8. ConfirmedChunksAreStored'
  BY <1>0, <1>4, <1>7 DEF ConfirmedChunksAreStored
<1>9. SourceIsTheUpload'
  BY <1>0, <1>4 DEF SessionInv, SourceIsTheUpload, Total
<1> QED BY <1>0, <1>3, <1>4, <1>5, <1>6, <1>8, <1>9 DEF SessionInv

\* The owner of a reservation is where its chunk is, in a session without a source.
LEMMA OwnersAreOpen ==
    ASSUME SessionInv, NEW k \in Calls, Owns(k), calls[k].pc \in {"confirm", "release"}
    PROVE  /\ Confirmed # 1 .. Total /\ calls[k].n \in Ordinals /\ calls[k].n \notin Confirmed
           /\ calls[k].content = rows[calls[k].n].content
           /\ calls[k].pc = "confirm" => parts[calls[k].n] = calls[k].content
           /\ rows[calls[k].n] # NoRow
           /\ \A m \in Ordinals : rows[m].owner = k => m = calls[k].n
<1>1. calls[k].n \in Ordinals
  BY DEF SessionInv, CallFits, ChunkPcs
<1>2. calls[k].n \notin Confirmed /\ rows[calls[k].n] # NoRow
  BY DEF Owns, Confirmed, NoRow
<1>3. OwnerFits(calls[k].n) /\ \A m \in Ordinals : OwnerFits(m)
  BY <1>1 DEF SessionInv
<1>4. HandlerOwns(calls[k], calls[k].n) /\ \A m \in Ordinals : rows[m].owner = k => m = calls[k].n
  BY <1>3 DEF Owns, OwnerFits, HandlerOwns
<1>5. Confirmed # 1 .. Total
  BY <1>1, <1>2, FullIsSettled
<1> QED BY <1>1, <1>2, <1>4, <1>5 DEF HandlerOwns

LEMMA ConfirmIsSafe ==
    ASSUME SessionInv, NEW k \in Calls, Confirm(k)
    PROVE  SessionInv'
<1> DEFINE n == calls[k].n
           c == [calls[k] EXCEPT !.pc = "report"]
           row == [rows[n] EXCEPT !.status = "confirmed", !.owner = Nobody, !.lapsed = FALSE]
<1> USE DEF sessionRow, fileVars, clientVars
<1>0. /\ rows \in [Ordinals -> Row] /\ calls \in [Calls -> Call]
      /\ calls[k].pc = "confirm" /\ CallFits(calls[k]) /\ Owns(k) /\ n \in Ordinals
      /\ calls' = [calls EXCEPT ![k] = c] /\ rows' = [rows EXCEPT ![n] = row]
      /\ UNCHANGED <<parts, source, sha256, queued, offered, acked, mishaps>>
  BY OwnersAreOpen DEF SessionInv, SessionTypeOK, Confirm, GoesTo
<1>1. row \in Row /\ row.status = "confirmed" /\ row.owner = Nobody /\ row.content = rows[n].content
  <2>1. rows[n] \in [status : {"reserved", "confirmed"}, content : Contents,
                     owner : Calls \cup {Nobody}, lapsed : BOOLEAN]
    BY <1>0, OwnersAreOpen DEF Row
  <2> QED BY <2>1 DEF Row
<1>2. c \in Call /\ c.pc = "report" /\ c.n = n /\ c.content = calls[k].content /\ c.token = calls[k].token
  BY <1>0 DEF Call, Pc
<1>3. Confirmed' = Confirmed \cup {n}
  BY <1>0, <1>1 DEF Confirmed
<1>4. session' = [session EXCEPT !.received = Cardinality(Confirmed')] /\ Total' = Total
  BY DEF Confirm, Refreshed, Confirmed, SessionInv, SessionTypeOK, Total
<1>5. Cardinality(Confirmed') \in 0 .. MaxStored + 1
  BY CountsFit DEF Confirmed
<1>6. SessionTypeOK'
  BY <1>0, <1>1, <1>2, <1>4, <1>5 DEF SessionInv, SessionTypeOK
<1>7. /\ session'.client = session.client /\ session'.received = Cardinality(Confirmed')
      /\ session'.ready = session.ready /\ session'.expired = session.expired
  BY <1>4 DEF SessionInv, SessionTypeOK
<1>8. ASSUME NEW m \in Ordinals PROVE (RowFits(m) /\ OwnerFits(m))'
  <2>1. RowFits(m) /\ OwnerFits(m)
    BY DEF SessionInv
  <2>2. CASE m = n
    <3>1. rows'[m] = row /\ rows[m] # NoRow
      BY <1>0, <2>2, OwnersAreOpen
    <3> QED BY <1>1, <1>4, <1>7, <2>1, <2>2, <3>1, UploadAssumption DEF RowFits, OwnerFits
  <2>3. CASE m # n
    <3>1. rows'[m] = rows[m] /\ rows[m].owner # k
      BY <1>0, <2>3, OwnersAreOpen
    <3> QED BY <1>0, <1>4, <1>7, <2>1, <3>1 DEF RowFits, OwnerFits, HandlerOwns
  <2> QED BY <2>2, <2>3
<1>9. ASSUME NEW h \in Calls PROVE CallFits(calls[h])'
  <2>1. CASE h = k
    <3>1. calls'[h] = c /\ InOrder' = InOrder
      BY <1>0, <2>1 DEF InOrder
    <3>2. rows'[n].content = c.content
      BY <1>0, <1>1, <1>2, OwnersAreOpen
    <3>3. /\ calls'[k].pc = "report" /\ calls'[k].token = calls[k].token
          /\ calls'[k].n = n /\ calls'[k].content = calls[k].content
      BY <1>2, <2>1, <3>1
    <3>4. n \in Confirmed' /\ rows'[n].content = calls[k].content
      BY <1>2, <1>3, <3>2
    <3>5. /\ n \in Ordinals /\ calls[k].content \in offered'
          /\ n <= TotalOf[SenderOf[calls[k].content]]
          /\ (InOrder' => 1 .. n - 1 \subseteq acked') /\ (session'.expired => ~calls[k].token)
      BY <1>0, <1>7, <3>1 DEF CallFits, ChunkPcs
    <3> QED BY <2>1, <3>3, <3>4, <3>5 DEF CallFits, Stored
  <2>2. CASE h # k
    <3>1. calls'[h] = calls[h] /\ calls[h].pc # "assemble"
      BY <1>0, <2>2, OwnersAreOpen, OpenSession
    <3>2. \A m \in Confirmed : m \in Confirmed' /\ rows'[m].content = rows[m].content
      BY <1>0, <1>1, <1>3 DEF Confirmed
    <3> QED BY <1>0, <1>7, <3>1, <3>2, FitsStays
  <2> QED BY <2>1, <2>2
<1>10. ConfirmedChunksAreStored'
  <2> SUFFICES ASSUME NEW m \in Confirmed' 
                  PROVE  \/ parts'[m] = rows'[m].content
                         \/ parts'[m] = NoFile /\ session'.ready /\ session'.expired
    BY DEF ConfirmedChunksAreStored
  <2>1. CASE m = n
    BY <1>0, <1>1, <2>1, OwnersAreOpen
  <2>2. CASE m # n
    <3>1. m \in Confirmed /\ rows'[m] = rows[m]
      BY <1>0, <1>3, <2>2 DEF Confirmed
    <3> QED BY <1>0, <1>7, <3>1 DEF SessionInv, ConfirmedChunksAreStored
  <2> QED BY <2>1, <2>2
<1>11. SourceIsTheUpload'
  BY <1>0, OwnersAreOpen, OpenSession DEF SourceIsTheUpload
<1> QED BY <1>0, <1>3, <1>6, <1>7, <1>8, <1>9, <1>10, <1>11 DEF SessionInv

\* A chunk that could not be stored is taken back; the last one unbinds the session.
LEMMA ReleaseIsSafe ==
    ASSUME SessionInv, NEW k \in Calls, Release(k), Owns(k)
    PROVE  SessionInv'
<1> DEFINE n == calls[k].n
           free == \A m \in Ordinals : rows'[m] = NoRow
<1> USE DEF sessionRow, fileVars, clientVars
<1>0. /\ rows \in [Ordinals -> Row] /\ calls \in [Calls -> Call]
      /\ calls[k].pc = "release" /\ n \in Ordinals
      /\ calls' = [calls EXCEPT ![k] = Idle] /\ rows' = [rows EXCEPT ![n] = NoRow]
      /\ UNCHANGED <<parts, source, sha256, queued, offered, acked, mishaps>>
  BY OwnersAreOpen DEF SessionInv, SessionTypeOK, Release, Ends
<1>1. Confirmed' = Confirmed /\ \A m \in Confirmed : rows'[m] = rows[m]
  BY <1>0, OwnersAreOpen DEF Confirmed, NoRow
<1>2. /\ session'.received = Cardinality(Confirmed) /\ session'.ready = session.ready
      /\ session'.expired = session.expired
      /\ session'.client = IF free THEN Nobody ELSE session.client
      /\ session' \in [client : Clients \cup {Nobody}, received : 0 .. MaxStored + 1,
                       ready : BOOLEAN, expired : BOOLEAN]
  <2>1. session' = [session EXCEPT !.received = Refreshed(rows'),
                                   !.client = IF free THEN Nobody ELSE session.client]
    BY DEF Release
  <2>2. Refreshed(rows') = Cardinality(Confirmed) /\ Cardinality(Confirmed) \in 0 .. MaxStored + 1
    BY <1>1, CountsFit DEF Refreshed, Confirmed
  <2> QED BY <2>1, <2>2 DEF SessionInv, SessionTypeOK
<1>3. SessionTypeOK'
  BY <1>0, <1>2, IdleIsCall DEF SessionInv, SessionTypeOK, Row
<1>4. ASSUME NEW m \in Ordinals PROVE (RowFits(m) /\ OwnerFits(m))'
  <2>1. RowFits(m) /\ OwnerFits(m)
    BY DEF SessionInv
  <2>2. CASE m = n
    BY <1>0, <2>2, UploadAssumption DEF RowFits, OwnerFits, NoRow
  <2>3. CASE m # n
    <3>1. rows'[m] = rows[m] /\ rows[m].owner # k
      BY <1>0, <2>3, OwnersAreOpen
    <3>2. rows[m] # NoRow => session'.client = session.client
      BY <1>2, <3>1
    <3>3. RowFits(m)'
      BY <2>1, <3>1, <3>2 DEF RowFits, Total
    <3>4. OwnerFits(m)'
      BY <1>0, <2>1, <3>1 DEF OwnerFits, HandlerOwns
    <3> QED BY <3>3, <3>4
  <2> QED BY <2>2, <2>3
<1>5. ASSUME NEW h \in Calls PROVE CallFits(calls[h])'
  <2>1. CASE h = k
    BY <1>0, <2>1 DEF CallFits, ChunkPcs, Idle
  <2>2. CASE h # k
    <3>1. calls'[h] = calls[h] /\ calls[h].pc # "assemble"
      BY <1>0, <2>2, OwnersAreOpen, OpenSession
    <3> QED BY <1>0, <1>1, <1>2, <3>1, FitsStays
  <2> QED BY <2>1, <2>2
<1>6. (ConfirmedChunksAreStored /\ SourceIsTheUpload)'
  BY <1>0, <1>1, <1>2, OwnersAreOpen, OpenSession
     DEF SessionInv, ConfirmedChunksAreStored, SourceIsTheUpload
<1> QED BY <1>0, <1>1, <1>2, <1>3, <1>4, <1>5, <1>6 DEF SessionInv

\* Reservations grow old and lose the handlers they belong to.
LEMMA AgeingIsSafe ==
    ASSUME SessionInv, SessionTypeOK',
           UNCHANGED <<session, parts, source, sha256, queued, offered, acked>>,
           \A n \in Ordinals :
               \/ rows'[n] = rows[n]
               \/ /\ rows[n] # NoRow /\ rows'[n] # NoRow
                  /\ rows'[n].status = rows[n].status /\ rows'[n].content = rows[n].content
                  /\ rows'[n].owner \in {rows[n].owner, Nobody},
           \A h \in Calls :
               \/ calls'[h] = calls[h]
               \/ calls'[h] = Idle /\ \A n \in Ordinals : rows'[n].owner # h
    PROVE  SessionInv'
<1>1. Confirmed' = Confirmed /\ Total' = Total /\ Whole' = Whole
  BY DEF Confirmed, Total, Whole
<1>2. \A n \in Ordinals : rows'[n] # NoRow => rows[n] # NoRow /\ rows'[n].content = rows[n].content
  OBVIOUS
<1>3. ASSUME NEW n \in Ordinals PROVE (RowFits(n) /\ OwnerFits(n))'
  <2>1. RowFits(n) /\ OwnerFits(n)
    BY DEF SessionInv
  <2>2. RowFits(n)'
    BY <1>1, <1>2, <2>1 DEF RowFits
  <2>3. OwnerFits(n)'
    <3>1. SUFFICES ASSUME rows'[n].owner \in Calls
                   PROVE  rows'[n].status = "reserved" /\ HandlerOwns(calls[rows[n].owner], n)'
      BY DEF OwnerFits
    <3>2. rows'[n].owner = rows[n].owner /\ rows'[n].status = rows[n].status
          /\ rows'[n].content = rows[n].content
      BY <3>1, UploadAssumption
    <3>3. calls'[rows[n].owner] = calls[rows[n].owner]
      BY <3>1, <3>2
    <3> QED BY <2>1, <3>1, <3>2, <3>3 DEF OwnerFits, HandlerOwns
  <2> QED BY <2>2, <2>3
<1>4. ASSUME NEW h \in Calls PROVE CallFits(calls[h])'
  <2>1. CASE calls'[h] = Idle
    BY <2>1 DEF CallFits, ChunkPcs, Idle
  <2>2. CASE calls'[h] = calls[h]
    <3>1. calls[h].pc = "assemble" => Whole'
      BY <1>1 DEF SessionInv, CallFits
    <3>2. \A n \in Confirmed : n \in Confirmed' /\ rows'[n].content = rows[n].content
      BY <1>1 DEF Confirmed
    <3> QED BY <2>2, <3>1, <3>2, FitsStays
  <2> QED BY <2>1, <2>2
<1>5. ConfirmedChunksAreStored'
  <2>1. \A n \in Confirmed : rows'[n].content = rows[n].content
    BY DEF Confirmed
  <2> QED BY <1>1, <2>1 DEF SessionInv, ConfirmedChunksAreStored
<1>6. SourceIsTheUpload'
  <2>1. ASSUME source # NoFile
        PROVE  Confirmed = 1 .. Total /\ source = [n \in 1 .. Total |-> rows'[n].content]
    <3>1. Confirmed = 1 .. Total /\ source = [n \in 1 .. Total |-> rows[n].content]
      BY <2>1 DEF SessionInv, SourceIsTheUpload
    <3>2. \A n \in 1 .. Total : rows'[n].content = rows[n].content
      BY <3>1 DEF Confirmed
    <3> QED BY <3>1, <3>2
  <2> QED BY <1>1, <2>1 DEF SessionInv, SourceIsTheUpload
<1> QED BY <1>1, <1>3, <1>4, <1>5, <1>6 DEF SessionInv

\* What a handler that is gone had reserved belongs to nobody.
LEMMA DisownedRows ==
    ASSUME SessionInv, NEW gone \in SUBSET Calls
    PROVE  /\ Disowned(gone) \in [Ordinals -> Row]
           /\ \A n \in Ordinals :
                  /\ Disowned(gone)[n].owner \notin gone
                  /\ \/ Disowned(gone)[n] = rows[n]
                     \/ /\ rows[n] # NoRow /\ Disowned(gone)[n] # NoRow
                        /\ Disowned(gone)[n].status = rows[n].status
                        /\ Disowned(gone)[n].content = rows[n].content
                        /\ Disowned(gone)[n].owner = Nobody
<1> SUFFICES ASSUME NEW n \in Ordinals
             PROVE  /\ Disowned(gone)[n] \in Row /\ Disowned(gone)[n].owner \notin gone
                    /\ \/ Disowned(gone)[n] = rows[n]
                       \/ /\ rows[n] # NoRow /\ Disowned(gone)[n] # NoRow
                          /\ Disowned(gone)[n].status = rows[n].status
                          /\ Disowned(gone)[n].content = rows[n].content
                          /\ Disowned(gone)[n].owner = Nobody
  BY DEF Disowned
<1>1. rows[n] \in Row /\ Nobody \notin gone
  BY UploadAssumption DEF SessionInv, SessionTypeOK
<1>2. CASE rows[n].owner \notin gone
  BY <1>1, <1>2 DEF Disowned
<1>3. CASE rows[n].owner \in gone
  <2>1. rows[n] # NoRow
    BY <1>1, <1>3 DEF NoRow
  <2>2. rows[n] \in [status : {"reserved", "confirmed"}, content : Contents,
                     owner : Calls \cup {Nobody}, lapsed : BOOLEAN]
    BY <1>1, <2>1 DEF Row
  <2>3. Disowned(gone)[n] = [rows[n] EXCEPT !.owner = Nobody]
    BY <1>3 DEF Disowned
  <2>4. [rows[n] EXCEPT !.owner = Nobody].status = rows[n].status /\ rows[n].status # "none"
    BY <2>2
  <2> QED BY <1>1, <2>1, <2>2, <2>3, <2>4 DEF Row, NoRow
<1> QED BY <1>2, <1>3

LEMMA LossIsSafe ==
    ASSUME SessionInv, NEW gone \in SUBSET Calls, rows' = Disowned(gone),
           calls' = [k \in Calls |-> IF k \in gone THEN Idle ELSE calls[k]], Mishap,
           UNCHANGED <<session, fileVars, sha256, queued, clientVars>>
    PROVE  SessionInv'
<1> USE DEF fileVars, clientVars
<1>1. calls' \in [Calls -> Call]
  BY IdleIsCall DEF SessionInv, SessionTypeOK
<1>2. SessionTypeOK'
  BY <1>1, DisownedRows, MishapsCount DEF SessionInv, SessionTypeOK
<1>3. ASSUME NEW n \in Ordinals
      PROVE  \/ rows'[n] = rows[n]
             \/ /\ rows[n] # NoRow /\ rows'[n] # NoRow
                /\ rows'[n].status = rows[n].status /\ rows'[n].content = rows[n].content
                /\ rows'[n].owner \in {rows[n].owner, Nobody}
  BY DisownedRows
<1>4. ASSUME NEW h \in Calls
      PROVE  \/ calls'[h] = calls[h]
             \/ calls'[h] = Idle /\ \A n \in Ordinals : rows'[n].owner # h
  BY DisownedRows
<1> QED BY <1>2, <1>3, <1>4, AgeingIsSafe

LEMMA ReleasingIsSafe ==
    ASSUME SessionInv, NEW k \in Calls, Release(k) \/ ReleaseFails(k)
    PROVE  SessionInv'
<1>1. CASE Release(k) /\ Owns(k)
  BY <1>1, ReleaseIsSafe
<1>2. CASE Release(k) /\ ~Owns(k)
  <2>1. ASSUME NEW m \in Ordinals, rows[m].owner = k PROVE FALSE
    <3>1. rows[m].status = "reserved" /\ HandlerOwns(calls[k], m)
      BY <2>1 DEF SessionInv, OwnerFits
    <3> QED BY <1>2, <2>1, <3>1 DEF HandlerOwns, Owns
  <2>2. acked \subseteq acked' /\ acked' \subseteq Confirmed
    BY <1>2 DEF Release, SessionInv, clientVars
  <2> QED BY <1>2, <2>1, <2>2, EndIsSafe, MishapsCount DEF Release, sessionRow, fileVars, clientVars
<1>3. CASE ReleaseFails(k)
  <2>1. calls' = [h \in Calls |-> IF h \in {k} THEN Idle ELSE calls[h]]
    BY <1>3 DEF ReleaseFails, Ends, SessionInv, SessionTypeOK
  <2> QED BY <1>3, <2>1, LossIsSafe DEF ReleaseFails
<1> QED BY <1>1, <1>2, <1>3

\* The source is the same whenever it is assembled.
LEMMA AssembleIsSafe ==
    ASSUME SessionInv, NEW k \in Calls, Assemble(k)
    PROVE  SessionInv'
<1> DEFINE file == [n \in 1 .. Total |-> parts[n]]
           c == [calls[k] EXCEPT !.pc = "finalize", !.digest = file]
<1> USE DEF sessionRow, fileVars, clientVars
<1>0. /\ calls \in [Calls -> Call] /\ calls[k].pc = "assemble" /\ CallFits(calls[k])
      /\ source' = file /\ calls' = [calls EXCEPT ![k] = c]
      /\ UNCHANGED <<session, rows, parts, sha256, queued, offered, acked, mishaps>>
  BY DEF SessionInv, SessionTypeOK, Assemble
<1>1. Confirmed = 1 .. Total /\ calls[k].n \in Confirmed
  BY <1>0, WholeIsFull DEF CallFits, Stored
<1>2. ASSUME NEW n \in 1 .. Total PROVE parts[n] = rows[n].content /\ parts[n] \in Contents
  <2>1. parts[n] # NoFile /\ n \in Confirmed /\ n \in Ordinals
    BY <1>1 DEF Assemble, PartsAreThere, Confirmed
  <2> QED BY <2>1 DEF SessionInv, SessionTypeOK, ConfirmedChunksAreStored
<1>3. file = [n \in 1 .. Total |-> rows[n].content] /\ file \in Files /\ file # NoFile
  <2>1. file \in [1 .. Total -> Contents]
    BY <1>2
  <2>2. file \in Files
    BY <2>1, WholeIsFull DEF Files
  <2> QED BY <1>2, <2>2, UploadAssumption
<1>4. source # NoFile => source' = source
  BY <1>0, <1>3 DEF SessionInv, SourceIsTheUpload
<1>5. c \in Call /\ c.pc = "finalize" /\ c.n = calls[k].n /\ c.token = calls[k].token /\ c.digest = file
  BY <1>0, <1>3 DEF Call, Pc
<1>6. SessionTypeOK'
  BY <1>0, <1>3, <1>5 DEF SessionInv, SessionTypeOK
<1>7. Confirmed' = Confirmed /\ Total' = Total /\ Whole' = Whole
  BY <1>0 DEF Confirmed, Total, Whole
<1>8. ASSUME NEW n \in Ordinals PROVE (RowFits(n) /\ OwnerFits(n))'
  <2>1. RowFits(n) /\ OwnerFits(n)
    BY DEF SessionInv
  <2>2. rows[n].owner # k
    BY <1>0, OwnersStandThere DEF OwnerPcs
  <2> QED BY <1>0, <1>7, <2>1, <2>2 DEF RowFits, OwnerFits, HandlerOwns
<1>9. ASSUME NEW h \in Calls PROVE CallFits(calls[h])'
  <2>1. CASE h = k
    <3>1. /\ calls'[h].pc = "finalize" /\ calls'[h].n \in Confirmed' /\ calls'[h].digest = source'
          /\ calls'[h].token = calls[k].token /\ source' # NoFile
      BY <1>0, <1>1, <1>3, <1>5, <1>7, <2>1
    <3>2. session'.expired => ~calls[k].token
      BY <1>0 DEF CallFits
    <3> QED BY <3>1, <3>2 DEF CallFits, ChunkPcs
  <2>2. CASE h # k
    <3>1. calls'[h] = calls[h] /\ (calls[h].pc = "assemble" => Whole')
      BY <1>0, <1>7, <2>2 DEF SessionInv, CallFits
    <3> QED BY <1>0, <1>4, <1>7, <3>1, FitsStays
  <2> QED BY <2>1, <2>2
<1>10. ConfirmedChunksAreStored'
  BY <1>0, <1>7 DEF SessionInv, ConfirmedChunksAreStored
<1>11. SourceIsTheUpload'
  <2>1. sha256 # NoFile => source # NoFile
    BY DEF SessionInv, SourceIsTheUpload
  <2> QED BY <1>0, <1>1, <1>3, <1>4, <1>7, <2>1 DEF SessionInv, SourceIsTheUpload
<1> QED BY <1>0, <1>6, <1>7, <1>8, <1>9, <1>10, <1>11 DEF SessionInv

\* The digest that is recorded is the one of the source.
LEMMA FinalizeIsSafe ==
    ASSUME SessionInv, NEW k \in Calls, FinalizeSource(k)
    PROVE  SessionInv'
<1> DEFINE c == [calls[k] EXCEPT !.pc = "queue"]
<1> USE DEF sessionRow, fileVars, clientVars
<1>0. /\ calls \in [Calls -> Call] /\ calls[k].pc = "finalize" /\ CallFits(calls[k])
      /\ sha256' = source /\ source # NoFile /\ (calls[k].n # 0 => calls[k].n \in Confirmed)
      /\ UNCHANGED <<session, rows, parts, source, queued, offered>>
  BY DEF SessionInv, SessionTypeOK, FinalizeSource, CallFits, Answered
<1>1. Confirmed' = Confirmed /\ Total' = Total /\ Whole' = Whole
  BY <1>0 DEF Confirmed, Total, Whole
<1>2. acked \subseteq acked' /\ acked' \subseteq Confirmed
  BY <1>0 DEF FinalizeSource, Answered, SessionInv
<1>3. mishaps' \in 0 .. MaxMishaps
  BY MishapsCount DEF FinalizeSource, Answered
<1>4. \/ calls' = [calls EXCEPT ![k] = c]
      \/ calls' = [calls EXCEPT ![k] = Idle]
  BY DEF FinalizeSource, GoesTo, Answered, Ends
<1>5. c \in Call /\ c.pc = "queue" /\ c.token = calls[k].token
  BY <1>0 DEF Call, Pc
<1>6. SessionTypeOK'
  BY <1>0, <1>2, <1>3, <1>4, <1>5, IdleIsCall DEF SessionInv, SessionTypeOK, Confirmed
<1>7. ASSUME NEW n \in Ordinals PROVE (RowFits(n) /\ OwnerFits(n))'
  <2>1. RowFits(n) /\ OwnerFits(n)
    BY DEF SessionInv
  <2>2. rows[n].owner # k
    BY <1>0, OwnersStandThere DEF OwnerPcs
  <2> QED BY <1>0, <1>1, <1>4, <2>1, <2>2 DEF RowFits, OwnerFits, HandlerOwns
<1>8. ASSUME NEW h \in Calls PROVE CallFits(calls[h])'
  <2>1. CASE h = k
    <3>1. \/ calls'[h].pc = "queue" /\ calls'[h].token = calls[k].token
          \/ calls'[h].pc = "idle" /\ ~calls'[h].token
      <4>1. CASE calls' = [calls EXCEPT ![k] = c]
        BY <1>0, <1>5, <2>1, <4>1
      <4>2. CASE calls' = [calls EXCEPT ![k] = Idle]
        BY <1>0, <2>1, <4>2 DEF Idle
      <4> QED BY <1>4, <4>1, <4>2
    <3>2. session'.expired => ~calls[k].token
      BY <1>0 DEF CallFits
    <3> QED BY <3>1, <3>2 DEF CallFits, ChunkPcs
  <2>2. CASE h # k
    <3>1. calls'[h] = calls[h] /\ (calls[h].pc = "assemble" => Whole')
      BY <1>0, <1>1, <1>4, <2>2 DEF SessionInv, CallFits
    <3> QED BY <1>0, <1>1, <1>2, <3>1, FitsStays
  <2> QED BY <2>1, <2>2
<1>9. (ConfirmedChunksAreStored /\ SourceIsTheUpload)'
  BY <1>0, <1>1 DEF SessionInv, ConfirmedChunksAreStored, SourceIsTheUpload
<1> QED BY <1>0, <1>1, <1>2, <1>6, <1>7, <1>8, <1>9 DEF SessionInv

LEMMA QueueIsSafe ==
    ASSUME SessionInv, NEW k \in Calls, QueueJob(k)
    PROVE  SessionInv'
<1> USE DEF sessionRow, fileVars, clientVars
<1>0. /\ calls \in [Calls -> Call] /\ calls[k].pc = "queue" /\ calls' = [calls EXCEPT ![k] = Idle]
      /\ UNCHANGED <<rows, parts, source, sha256, offered, acked, mishaps>>
  BY DEF SessionInv, SessionTypeOK, QueueJob, Ends
<1>1. /\ session'.client = session.client /\ session'.received = session.received
      /\ session'.expired = session.expired /\ queued' \in BOOLEAN
      /\ (session.ready => session'.ready) /\ (session'.ready => queued')
      /\ queued' => sha256 # NoFile
      /\ session' \in [client : Clients \cup {Nobody}, received : 0 .. MaxStored + 1,
                       ready : BOOLEAN, expired : BOOLEAN]
  <2>1. CASE queued' = TRUE /\ session' = [session EXCEPT !.ready = TRUE]
    <3>1. sha256 # NoFile
      BY <2>1 DEF QueueJob, SessionInv, SourceIsTheUpload
    <3> QED BY <2>1, <3>1 DEF SessionInv, SessionTypeOK
  <2>2. CASE UNCHANGED <<session, queued>>
    BY <2>2 DEF SessionInv, SessionTypeOK, SourceIsTheUpload
  <2> QED BY <2>1, <2>2 DEF QueueJob
<1>2. SessionTypeOK'
  BY <1>0, <1>1, IdleIsCall DEF SessionInv, SessionTypeOK
<1>3. Confirmed' = Confirmed /\ Total' = Total /\ Whole' = Whole
  BY <1>0, <1>1 DEF Confirmed, Total, Whole
<1>4. ASSUME NEW n \in Ordinals PROVE (RowFits(n) /\ OwnerFits(n))'
  <2>1. RowFits(n) /\ OwnerFits(n)
    BY DEF SessionInv
  <2>2. rows[n].owner # k
    BY <1>0, OwnersStandThere DEF OwnerPcs
  <2> QED BY <1>0, <1>1, <1>3, <2>1, <2>2 DEF RowFits, OwnerFits, HandlerOwns
<1>5. ASSUME NEW h \in Calls PROVE CallFits(calls[h])'
  <2>1. CASE h = k
    BY <1>0, <2>1 DEF CallFits, ChunkPcs, Idle
  <2>2. CASE h # k
    <3>1. calls'[h] = calls[h] /\ (calls[h].pc = "assemble" => Whole')
      BY <1>0, <1>3, <2>2 DEF SessionInv, CallFits
    <3> QED BY <1>0, <1>1, <1>3, <3>1, FitsStays
  <2> QED BY <2>1, <2>2
<1>6. (ConfirmedChunksAreStored /\ SourceIsTheUpload)'
  BY <1>0, <1>1, <1>3 DEF SessionInv, ConfirmedChunksAreStored, SourceIsTheUpload
<1> QED BY <1>0, <1>1, <1>2, <1>3, <1>4, <1>5, <1>6 DEF SessionInv

\* Reservations and the session run out.
LEMMA TimeIsSafe ==
    ASSUME SessionInv, (\E n \in Ordinals : Lapses(n)) \/ Expires
    PROVE  SessionInv'
<1> USE DEF sessionRow, fileVars, clientVars
<1>1. ASSUME NEW n \in Ordinals, Lapses(n) PROVE SessionInv'
  <2> DEFINE row == [rows[n] EXCEPT !.lapsed = TRUE]
  <2>0. rows \in [Ordinals -> Row] /\ rows' = [rows EXCEPT ![n] = row]
    BY <1>1 DEF Lapses, SessionInv, SessionTypeOK
  <2>1. rows[n] # NoRow /\ rows[n] \in Row
    BY <1>1, <2>0 DEF Lapses, NoRow
  <2>2. rows[n] \in [status : {"reserved", "confirmed"}, content : Contents,
                     owner : Calls \cup {Nobody}, lapsed : BOOLEAN]
    BY <2>1 DEF Row
  <2>3. /\ row \in Row /\ row # NoRow /\ row.status = rows[n].status
        /\ row.content = rows[n].content /\ row.owner = rows[n].owner
    <3>1. /\ row \in [status : {"reserved", "confirmed"}, content : Contents,
                      owner : Calls \cup {Nobody}, lapsed : BOOLEAN]
          /\ row.status = rows[n].status /\ row.content = rows[n].content
          /\ row.owner = rows[n].owner /\ row.status # "none"
      BY <2>2
    <3> QED BY <3>1 DEF Row, NoRow
  <2>4. SessionTypeOK'
    BY <1>1, <2>0, <2>3, MishapsCount DEF Lapses, SessionInv, SessionTypeOK
  <2>5. ASSUME NEW m \in Ordinals
        PROVE  \/ rows'[m] = rows[m]
               \/ /\ rows[m] # NoRow /\ rows'[m] # NoRow
                  /\ rows'[m].status = rows[m].status /\ rows'[m].content = rows[m].content
                  /\ rows'[m].owner \in {rows[m].owner, Nobody}
    BY <2>0, <2>1, <2>3
  <2> QED BY <1>1, <2>4, <2>5, AgeingIsSafe DEF Lapses
<1>2. CASE Expires
  <2>0. UNCHANGED <<rows, parts, source, sha256, queued, calls, offered, acked, mishaps>>
    BY <1>2 DEF Expires
  <2>1. /\ session'.client = session.client /\ session'.received = session.received
        /\ session'.ready = session.ready /\ session.ready /\ session'.expired
        /\ session' \in [client : Clients \cup {Nobody}, received : 0 .. MaxStored + 1,
                         ready : BOOLEAN, expired : BOOLEAN]
    BY <1>2 DEF Expires, SessionInv, SessionTypeOK
  <2>2. SessionTypeOK'
    BY <2>0, <2>1 DEF SessionInv, SessionTypeOK
  <2>3. Confirmed' = Confirmed /\ Total' = Total
    BY <2>0, <2>1 DEF Confirmed, Total
  <2>4. ASSUME NEW n \in Ordinals PROVE (RowFits(n) /\ OwnerFits(n))'
    BY <2>0, <2>1, <2>3 DEF SessionInv, RowFits, OwnerFits, HandlerOwns
  <2>5. ASSUME NEW h \in Calls PROVE CallFits(calls[h])'
    <3>1. calls'[h] = Idle
      BY <1>2, <2>0 DEF Expires
    <3> QED BY <3>1 DEF CallFits, ChunkPcs, Idle
  <2>6. (ConfirmedChunksAreStored /\ SourceIsTheUpload)'
    BY <2>0, <2>1, <2>3 DEF SessionInv, ConfirmedChunksAreStored, SourceIsTheUpload
  <2> QED BY <2>0, <2>1, <2>2, <2>3, <2>4, <2>5, <2>6 DEF SessionInv
<1> QED BY <1>1, <1>2

\* The chunk files go when the session is complete and its day is over.
LEMMA CleanUpIsSafe ==
    ASSUME SessionInv, CleanUp
    PROVE  SessionInv'
<1> USE DEF sessionRow, fileVars, clientVars
<1>0. /\ parts' = [n \in Ordinals |-> NoFile] /\ session.ready /\ session.expired
      /\ UNCHANGED <<session, rows, source, sha256, queued, calls, offered, acked, mishaps>>
  BY DEF CleanUp
<1>1. SessionTypeOK'
  BY <1>0 DEF SessionInv, SessionTypeOK
<1>2. Confirmed' = Confirmed /\ Total' = Total /\ Whole' = Whole
  BY <1>0 DEF Confirmed, Total, Whole
<1>3. ASSUME NEW n \in Ordinals PROVE (RowFits(n) /\ OwnerFits(n))'
  <2>1. RowFits(n) /\ rows[n].owner \notin Calls
    BY <1>0 DEF SessionInv, OwnerFits, HandlerOwns, CallFits
  <2> QED BY <1>0, <1>2, <2>1 DEF RowFits, OwnerFits
<1>4. ASSUME NEW h \in Calls PROVE CallFits(calls[h])'
  <2>1. calls'[h] = calls[h] /\ (calls[h].pc = "assemble" => Whole')
    BY <1>0, <1>2 DEF SessionInv, CallFits
  <2> QED BY <1>0, <1>2, <2>1, FitsStays
<1>5. ConfirmedChunksAreStored'
  BY <1>0, <1>2 DEF ConfirmedChunksAreStored, Confirmed
<1>6. SourceIsTheUpload'
  BY <1>0, <1>2 DEF SessionInv, SourceIsTheUpload
<1> QED BY <1>0, <1>1, <1>2, <1>3, <1>4, <1>5, <1>6 DEF SessionInv

-----------------------------------------------------------------------------

\* A new session is empty.
LEMMA SessionStarts == SessionInit => SessionInv
<1> SUFFICES ASSUME SessionInit PROVE SessionInv
  OBVIOUS
<1>1. Confirmed = {} /\ Cardinality({}) = 0
  BY FS_EmptySet DEF SessionInit, Confirmed, NoRow
<1>2. SessionTypeOK
  <2>1. session \in [client : Clients \cup {Nobody}, received : 0 .. MaxStored + 1,
                    ready : BOOLEAN, expired : BOOLEAN]
    BY UploadAssumption DEF SessionInit
  <2>2. rows \in [Ordinals -> Row] /\ calls \in [Calls -> Call] /\ mishaps \in 0 .. MaxMishaps
    BY IdleIsCall, UploadAssumption DEF SessionInit, Row
  <2> QED BY <2>1, <2>2 DEF SessionInit, SessionTypeOK
<1>3. ASSUME NEW n \in Ordinals PROVE RowFits(n) /\ OwnerFits(n)
  BY UploadAssumption DEF SessionInit, RowFits, OwnerFits, NoRow
<1>4. ASSUME NEW k \in Calls PROVE CallFits(calls[k])
  BY DEF SessionInit, CallFits, ChunkPcs, Idle
<1> QED BY <1>1, <1>2, <1>3, <1>4 DEF SessionInit, SessionInv, ConfirmedChunksAreStored, SourceIsTheUpload

LEMMA SessionStutters ==
    ASSUME SessionInv, UNCHANGED uploadVars
    PROVE  SessionInv'
BY DEF uploadVars, sessionRow, fileVars, clientVars, SessionInv, SessionTypeOK, RowFits, OwnerFits,
       HandlerOwns, CallFits, Stored, Confirmed, Total, Whole, InOrder, ConfirmedChunksAreStored,
       SourceIsTheUpload

\* Every step of clients, handlers, time and crashes keeps the invariant.
LEMMA SessionsStaySound == SessionInv /\ [SessionNext]_uploadVars => SessionInv'
<1> SUFFICES ASSUME SessionInv, [SessionNext]_uploadVars PROVE SessionInv'
  OBVIOUS
<1>1. ASSUME NEW k \in Calls, ClientSends(k) PROVE SessionInv'
  BY <1>1, ClientSendsSafely
<1>2. ASSUME NEW k \in Calls, HandlerStep(k) PROVE SessionInv'
  BY <1>2, ReserveIsSafe, ReadingIsSafe, WriteIsSafe, ConfirmIsSafe, ReleasingIsSafe, CountIsSafe,
     AssembleIsSafe, FinalizeIsSafe, QueueIsSafe DEF HandlerStep
<1>3. ASSUME NEW k \in Calls, HandlerFails(k) PROVE SessionInv'
  BY <1>3, ReadingIsSafe, ReleasingIsSafe DEF HandlerFails
<1>4. ASSUME NEW gone \in SUBSET Calls, Crash(gone) PROVE SessionInv'
  BY <1>4, LossIsSafe DEF Crash
<1>5. CASE (\E n \in Ordinals : Lapses(n)) \/ Expires \/ CleanUp
  BY <1>5, TimeIsSafe, CleanUpIsSafe
<1>6. CASE UNCHANGED uploadVars
  BY <1>6, SessionStutters
<1> QED BY <1>1, <1>2, <1>3, <1>4, <1>5, <1>6 DEF SessionNext

\* The invariant says what is promised; that the last chunk of a client that sends in
\* order finds the session complete follows from the answers it has had.
LEMMA InvariantIsSound == SessionInv => SessionsAreSound
<1> SUFFICES ASSUME SessionInv PROVE SessionsAreSound
  OBVIOUS
<1>1. ChunksOfOneUpload
  BY DEF SessionInv, RowFits, ChunksOfOneUpload
<1>2. AnswersAreTrue
  BY DEF SessionInv, CallFits, Stored, AnswersAreTrue
<1>3. ASSUME InOrder, NEW k \in Calls, calls[k].pc = "report", IsLast(k) PROVE Whole
  <2>1. /\ calls[k].n \in Confirmed /\ rows[calls[k].n].content = calls[k].content
        /\ 1 .. calls[k].n - 1 \subseteq Confirmed
    BY <1>3 DEF SessionInv, CallFits, Stored, ChunkPcs
  <2>2. Total = calls[k].n
    <3>1. rows[calls[k].n] # NoRow /\ calls[k].n \in Ordinals
      BY <2>1 DEF Confirmed, NoRow
    <3> QED BY <1>3, <2>1, <3>1 DEF SessionInv, RowFits, Total, IsLast, Sender
  <2>3. Confirmed = 1 .. Total
    <3>1. Total \in Nat /\ Total >= 1
      BY WholeIsFull, UploadAssumption DEF Ordinals
    <3>2. \A m \in 1 .. Total : m = Total \/ m \in 1 .. Total - 1
      BY <3>1
    <3> QED BY <2>1, <2>2, <3>2, WholeIsFull
  <2> QED BY <2>3, WholeIsFull
<1> QED BY <1>1, <1>2, <1>3 DEF SessionInv, SessionsAreSound, LastChunkAssembles

\* Chunks, source, digest and answers of an upload session agree, for any number of
\* uploads, requests and crashes (SessionsAreSound).
THEOREM SessionsAlwaysSound == SessionSpec => []SessionsAreSound
BY SessionStarts, SessionsStaySound, InvariantIsSound, PTL DEF SessionSpec
=============================================================================
