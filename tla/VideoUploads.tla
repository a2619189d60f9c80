----------------------------- MODULE VideoUploads -----------------------------
(* The uploads of VideoManagementComponent.tsx: one session at a time uploads  *)
(* its files in batches, files confirmed meanwhile join a queue, a failed job  *)
(* can be retried on its own, and Cancel All ends the session.                 *)
EXTENDS UploadTransfer, Sequences, SequencesExt

CONSTANT Parallel   \* NUM_PARALLEL_FILE_UPLOADS

ASSUME ParallelConstant == Parallel \in Nat \ {0} /\ IsFiniteSet(Files)

VARIABLES
    selectedFiles,      \* files in the upload dialog
    started,            \* files that were confirmed (ids are never reused)
    uploadProgress,     \* status of the listed files, "none" for the others
    uploadJobs,         \* listed files with a jobId
    isUploadingNow,     \* the state isUploading
    isUploadingRef,     \* the ref that follows it with the next render
    session,            \* files whose coroutine belongs to the current session
    entriesToProcess,   \* files the session's loop has still to start
    inBatch,            \* files of its current batch that have not settled
    pendingFilesQueue,  \* pendingFilesQueueRef
    retryControllers,   \* files whose job is being retried
    completedAny,
    unseen              \* completed files the list of streams was not fetched for since

panelVars == <<uploadProgress, uploadJobs>>
loopVars == <<isUploadingNow, isUploadingRef, session, entriesToProcess, inBatch, pendingFilesQueue,
              completedAny>>
videoUploadVars == <<transferVars, selectedFiles, started, panelVars, loopVars, retryControllers, unseen>>

ActiveUploads == {f \in Files : uploadProgress[f] \in {"pending", "uploading", "processing"}}

VideoUploadsTypeOK ==
    /\ TransferTypeOK
    /\ selectedFiles \subseteq Files /\ started \subseteq Files
    /\ uploadProgress \in [Files -> {"none", "pending", "uploading", "processing", "success", "error",
                                     "cancelled"}]
    /\ {session, inBatch, retryControllers, uploadJobs, unseen} \subseteq SUBSET Files
    /\ {isUploadingNow, isUploadingRef, completedAny} \subseteq BOOLEAN
    /\ entriesToProcess \in Seq(Files) /\ pendingFilesQueue \in Seq(Files)

VideoUploadsInit ==
    /\ TransferInit
    /\ selectedFiles = {} /\ started = {} /\ uploadJobs = {} /\ session = {} /\ inBatch = {}
    /\ retryControllers = {} /\ unseen = {}
    /\ uploadProgress = [f \in Files |-> "none"]
    /\ isUploadingNow = FALSE /\ isUploadingRef = FALSE /\ completedAny = FALSE
    /\ entriesToProcess = <<>> /\ pendingFilesQueue = <<>>

-----------------------------------------------------------------------------
(* The dialog.                                                               *)

FilesSelected ==
    /\ \E fs \in SUBSET (Files \ (started \cup selectedFiles)) \ {{}} :
           selectedFiles' = selectedFiles \cup fs
    /\ UNCHANGED <<transferVars, started, panelVars, loopVars, retryControllers, unseen>>

RemoveFile ==
    /\ \E f \in selectedFiles : selectedFiles' = selectedFiles \ {f}
    /\ UNCHANGED <<transferVars, started, panelVars, loopVars, retryControllers, unseen>>

CloseUploadDialog ==
    /\ selectedFiles # {}
    /\ selectedFiles' = {}
    /\ UNCHANGED <<transferVars, started, panelVars, loopVars, retryControllers, unseen>>

Confirmed(fs) == started' = started \cup fs /\ selectedFiles' = {}

\* While the ref says that a session runs the files join its queue and the list.
ConfirmQueued ==
    /\ selectedFiles # {} /\ isUploadingRef
    /\ pendingFilesQueue' = pendingFilesQueue \o SetToSeq(selectedFiles)
    /\ uploadProgress' = [f \in Files |->
           IF f \in selectedFiles THEN "pending" ELSE uploadProgress[f]]
    /\ Confirmed(selectedFiles)
    /\ UNCHANGED <<transferVars, uploadJobs, isUploadingNow, isUploadingRef, session,
                   entriesToProcess, inBatch, completedAny, retryControllers, unseen>>

\* Otherwise they replace the list and processUploadQueue starts a session.
ConfirmSession ==
    /\ selectedFiles # {} /\ ~isUploadingRef
    /\ uploadProgress' = [f \in Files |-> IF f \in selectedFiles THEN "pending" ELSE "none"]
    /\ uploadJobs' = {}
    /\ isUploadingNow' = TRUE /\ isUploadingRef' = TRUE
    /\ session' = selectedFiles
    /\ entriesToProcess' = SetToSeq(selectedFiles)
    /\ inBatch' = {}
    /\ completedAny' = FALSE
    /\ Confirmed(selectedFiles)
    /\ UNCHANGED <<transferVars, pendingFilesQueue, retryControllers, unseen>>

-----------------------------------------------------------------------------
(* The loop of processUploadQueue, between two batches.                      *)

BatchSize(s) == IF Len(s) < Parallel THEN Len(s) ELSE Parallel

BetweenBatches == isUploadingNow /\ inBatch = {}

StartBatch(s) ==
    LET batchFiles == {s[i] : i \in 1 .. BatchSize(s)}
    IN /\ inBatch' = batchFiles
       /\ session' = session \cup batchFiles
       /\ entriesToProcess' = SubSeq(s, BatchSize(s) + 1, Len(s))
       /\ Start(batchFiles, "url")
       /\ uploadProgress' = [f \in Files |-> IF f \in batchFiles /\ uploadProgress[f] = "pending"
                                             THEN "uploading" ELSE uploadProgress[f]]

NextBatch ==
    /\ BetweenBatches /\ entriesToProcess # <<>>
    /\ StartBatch(entriesToProcess)
    /\ UNCHANGED <<cancelling, selectedFiles, started, uploadJobs, isUploadingNow, isUploadingRef,
                   pendingFilesQueue, completedAny, retryControllers, unseen>>

TakeQueue ==
    /\ BetweenBatches /\ entriesToProcess = <<>> /\ pendingFilesQueue # <<>>
    /\ StartBatch(pendingFilesQueue)
    /\ pendingFilesQueue' = <<>>
    /\ UNCHANGED <<cancelling, selectedFiles, started, uploadJobs, isUploadingNow, isUploadingRef,
                   completedAny, retryControllers, unseen>>

\* Mutant: the loop ends with the entries it was called with.
EntriesDone == entriesToProcess = <<>>

LoopDone == entriesToProcess = <<>> /\ pendingFilesQueue = <<>>

\* The loop ends; the ref follows with the render.
SessionEnds ==
    /\ BetweenBatches /\ LoopDone
    /\ isUploadingNow' = FALSE
    /\ unseen' = IF completedAny THEN {} ELSE unseen
    /\ UNCHANGED <<transferVars, selectedFiles, started, panelVars, isUploadingRef, session,
                   entriesToProcess, inBatch, pendingFilesQueue, completedAny, retryControllers>>

RefFollows ==
    /\ isUploadingRef /\ ~isUploadingNow
    /\ isUploadingRef' = FALSE
    /\ UNCHANGED <<transferVars, selectedFiles, started, panelVars, isUploadingNow, session,
                   entriesToProcess, inBatch, pendingFilesQueue, completedAny, retryControllers,
                   unseen>>

-----------------------------------------------------------------------------
(* The steps of a coroutine.                                                 *)

Current(f) == f \in session /\ f \notin retryControllers
betweenVars == <<selectedFiles, started, isUploadingNow, isUploadingRef, session, entriesToProcess,
                 pendingFilesQueue>>

\* A status only replaces the one it follows on.
Follows(f, from, to) ==
    uploadProgress' = [uploadProgress EXCEPT ![f] = IF @ \in from THEN to ELSE @]

VideoTravels(f) ==
    /\ Travels(f)
    /\ IF at[f] = "chunk" /\ at'[f] = "complete"
       THEN Follows(f, {"uploading"}, "processing")
       ELSE UNCHANGED uploadProgress
    /\ UNCHANGED <<betweenVars, uploadJobs, inBatch, completedAny, retryControllers, unseen>>

VideoCompletes(f) ==
    /\ CompleteAnswered(f)
    /\ uploadJobs' = uploadJobs \cup {g \in {f} : uploadProgress[g] = "processing"}
    /\ UNCHANGED <<betweenVars, uploadProgress, inBatch, completedAny, retryControllers, unseen>>

ApplyTerminalJobStatus(f) ==
    Follows(f, {"processing"}, CASE job[f] = "completed" -> "success"
                                 [] job[f] = "cancelled" -> "cancelled"
                                 [] OTHER -> "error")

Settles(f) ==
    /\ inBatch' = inBatch \ {f}
    /\ UNCHANGED <<betweenVars, uploadJobs, retryControllers>>

VideoReturns(f) ==
    /\ Current(f)
    /\ \/ /\ PollSaysEnded(f)
          /\ completedAny' = (completedAny \/ job[f] = "completed")
          /\ unseen' = unseen \cup {g \in {f} : job[g] = "completed"}
          /\ ApplyTerminalJobStatus(f)
       \/ /\ TransferFails(f)
          /\ Follows(f, {"pending", "uploading", "processing"}, "error")
          /\ UNCHANGED <<completedAny, unseen>>
    /\ Settles(f)

\* The coroutine of a cancelled session returns without a trace.
StaleReturns(f) ==
    /\ ~Current(f)
    /\ WakesUpAborted(f)
    /\ UNCHANGED <<selectedFiles, started, panelVars, loopVars, retryControllers, unseen>>

RetryControllerGone(f) ==
    /\ retryControllers' = retryControllers \ {f}
    /\ UNCHANGED <<betweenVars, uploadJobs, inBatch, completedAny>>

VideoRetryReturns(f) ==
    /\ f \in retryControllers
    /\ \/ /\ PollSaysEnded(f)
          /\ ApplyTerminalJobStatus(f)
          /\ unseen' = IF job[f] = "completed" THEN {} ELSE unseen
       \/ /\ TransferFails(f)
          /\ Follows(f, {"processing"}, "error")
          /\ UNCHANGED unseen
    /\ RetryControllerGone(f)

-----------------------------------------------------------------------------
(* The progress panel.                                                       *)

RetryUpload(f) ==
    /\ uploadProgress[f] = "error" /\ f \in uploadJobs
    /\ Start({f}, "retry")
    /\ retryControllers' = retryControllers \cup {f}
    /\ uploadProgress' = [uploadProgress EXCEPT ![f] = "processing"]
    /\ UNCHANGED <<cancelling, selectedFiles, started, uploadJobs, loopVars, unseen>>

AbortedByCancel == session \cup retryControllers

\* Mutant: a cancelled session fetches nothing.
SeesNothing == unseen

SeenByCancel == IF \E f \in Files : uploadProgress[f] = "success" THEN {} ELSE unseen

HandleCancelUploads ==
    /\ ActiveUploads # {}
    /\ pendingFilesQueue' = <<>> /\ entriesToProcess' = <<>> /\ inBatch' = {}
    /\ cancelling' = cancelling \cup {f \in uploadJobs : uploadProgress[f] = "processing"}
    /\ Abort(AbortedByCancel)
    /\ retryControllers' = {}
    /\ session' = {}
    /\ uploadProgress' = [f \in Files |->
           IF f \in ActiveUploads THEN "cancelled" ELSE uploadProgress[f]]
    /\ isUploadingNow' = FALSE /\ isUploadingRef' = FALSE
    /\ unseen' = SeenByCancel
    /\ UNCHANGED <<selectedFiles, started, uploadJobs, completedAny>>

HandleClearUploadProgress ==
    /\ ActiveUploads = {} /\ \E f \in Files : uploadProgress[f] # "none"
    /\ uploadProgress' = [f \in Files |-> "none"]
    /\ uploadJobs' = {}
    /\ UNCHANGED <<transferVars, selectedFiles, started, loopVars, retryControllers, unseen>>

-----------------------------------------------------------------------------

VideoStep(f) ==
    VideoTravels(f) \/ VideoCompletes(f) \/ VideoReturns(f) \/ StaleReturns(f) \/ VideoRetryReturns(f)

VideoServerStep ==
    /\ ServerStep
    /\ UNCHANGED <<selectedFiles, started, panelVars, loopVars, retryControllers, unseen>>

LoopStep == NextBatch \/ TakeQueue \/ SessionEnds

VideoUserStep ==
    \/ FilesSelected \/ RemoveFile \/ CloseUploadDialog \/ ConfirmQueued \/ ConfirmSession
    \/ HandleCancelUploads \/ HandleClearUploadProgress
    \/ \E f \in Files : RetryUpload(f)

\* The loop resumes in a microtask: nothing comes between a batch and what follows it.
VideoUploadsNext ==
    \/ LoopStep
    \/ /\ ~BetweenBatches
       /\ VideoUserStep \/ VideoServerStep \/ RefFollows \/ \E f \in Files : VideoStep(f)

\* Requests are answered or fail, promises resume, React renders, the worker ends jobs.
VideoUploadsFairness ==
    /\ WF_videoUploadVars(LoopStep) /\ WF_videoUploadVars(RefFollows)
    /\ \A f \in Files : /\ WF_videoUploadVars(VideoStep(f))
                        /\ WF_videoUploadVars(JobEnds(f) /\ VideoServerStep)

VideoUploadsSpec == VideoUploadsInit /\ [][VideoUploadsNext]_videoUploadVars
FairVideoUploadsSpec == VideoUploadsSpec /\ VideoUploadsFairness

-----------------------------------------------------------------------------

\* Cancel All ends every coroutine: no request for a cancelled file is under way or
\* will be sent, whether it was uploading, queued or being retried.
CancelledFilesAreQuiet ==
    \A f \in Files : uploadProgress[f] = "cancelled" => at[f] \in {"idle", "backoff"} /\ f \notin retryControllers

\* A session never uploads more files at once than NUM_PARALLEL_FILE_UPLOADS, also
\* when the queue grows while it runs.
ParallelLimit == Cardinality({f \in Files : Current(f) /\ at[f] # "idle"}) <= Parallel

\* Whenever no session runs, the list of streams was fetched after every completed
\* upload that the panel shows: no video it calls uploaded waits for the user to reload
\* the tab.  (One whose row was cleared or replaced before Cancel All came may.)
CompletedUploadsAreSeen ==
    isUploadingNow \/ \A f \in unseen : uploadProgress[f] = "none"

\* A file queued while a session runs is started by that session's loop or cancelled.
\* (One queued after the loop's last look, before the ref follows, is not.)
QueuedFilesAreServed ==
    \A f \in Files : (isUploadingNow /\ f \in ToSet(pendingFilesQueue)) ~> uploadProgress[f] # "pending"
=============================================================================
