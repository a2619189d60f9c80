------------------------------ MODULE ChatUpload ------------------------------
(* ChatFileUpload.tsx: the upload dialog of the chat input.  A batch of files  *)
(* is uploaded in parallel, its progress is shown in a popup from which files  *)
(* can be cancelled and failed jobs retried, and what completed is published   *)
(* to the chat when the whole batch has ended.                                 *)
EXTENDS UploadTransfer

VARIABLES
    dialogOpen,     \* showFileSelectPopup
    dialog,         \* files in the selection dialog
    badNames,       \* those whose upload name is empty or has spaces
    uploaded,       \* files of a batch that was confirmed (ids are never reused)
    batch,          \* files the running batch waits for
    result,         \* what the coroutine of each file of the batch returned
    status,         \* uploadStatus of the listed files, "none" for the others
    jobKnown,       \* listed files with a jobId
    controllers,    \* keys of abortControllerMapRef
    cancelledIds,   \* cancelledFileIdsRef
    isUploading,
    showProgress, showSuccess,
    results,        \* allUploadResults: the files that have a row in the success popup
    timers,         \* 1000 ms timers of batches that ended without an error
    published       \* how often each file was published

popupVars == <<showProgress, showSuccess, results>>
batchVars == <<batch, result, controllers, cancelledIds, isUploading, timers, published>>
chatListVars == <<status, jobKnown>>
dialogVars == <<dialogOpen, dialog, badNames>>
chatUploadVars == <<transferVars, dialogVars, uploaded, popupVars, batchVars, chatListVars>>

Active == {"pending", "uploading", "processing"}
Outcomes == {"none", "success", "error", "cancelled"}

ChatUploadTypeOK ==
    /\ TransferTypeOK
    /\ dialogOpen \in BOOLEAN /\ badNames \subseteq dialog
    /\ dialog \subseteq Files /\ uploaded \subseteq Files /\ dialog \cap uploaded = {}
    /\ batch \subseteq uploaded
    /\ result \in [Files -> Outcomes]
    /\ status \in [Files -> Active \cup Outcomes]
    /\ jobKnown \subseteq {f \in Files : status[f] # "none"}
    /\ controllers \subseteq Files /\ cancelledIds \subseteq Files /\ results \subseteq Files
    /\ {isUploading, showProgress, showSuccess} \subseteq BOOLEAN
    /\ timers \in Nat
    /\ published \in [Files -> Nat]

ChatUploadInit ==
    /\ TransferInit
    /\ dialogOpen = FALSE /\ badNames = {}
    /\ dialog = {} /\ uploaded = {} /\ batch = {} /\ controllers = {} /\ cancelledIds = {}
    /\ result = [f \in Files |-> "none"]
    /\ status = [f \in Files |-> "none"]
    /\ jobKnown = {} /\ results = {} /\ timers = 0
    /\ isUploading = FALSE /\ showProgress = FALSE /\ showSuccess = FALSE
    /\ published = [f \in Files |-> 0]

-----------------------------------------------------------------------------
(* The popups and what they offer.                                           *)

CancelOffered(f) == showProgress /\ status[f] \in Active
CancelAllOffered == \E f \in Files : CancelOffered(f)
RetryOffered(f) == showProgress /\ status[f] = "error" /\ f \in jobKnown
SuccessPopup == showSuccess /\ results # {}
CloseOffered == SuccessPopup \/ (showProgress /\ ~CancelAllOffered)

-----------------------------------------------------------------------------
(* The selection dialog; an open popup covers it and the page.               *)

NoPopup == ~showProgress /\ ~SuccessPopup
Fresh == Files \ (uploaded \cup dialog)
afterDialogVars == <<transferVars, uploaded, popupVars, batchVars, chatListVars>>

TriggerUpload ==
    /\ ~isUploading /\ NoPopup /\ ~dialogOpen
    /\ dialogOpen' = TRUE
    /\ UNCHANGED <<afterDialogVars, dialog, badNames>>

\* Files dropped on the chat input or picked with it.
OpenDialogWithFiles ==
    /\ ~isUploading /\ NoPopup /\ ~dialogOpen
    /\ \E fs \in SUBSET Fresh \ {{}} : dialog' = fs
    /\ dialogOpen' = TRUE
    /\ UNCHANGED <<afterDialogVars, badNames>>

\* Files dropped on the open dialog or picked with it.
ProcessNewFiles ==
    /\ dialogOpen /\ NoPopup
    /\ \E fs \in SUBSET Fresh \ {{}} : dialog' = dialog \cup fs
    /\ UNCHANGED <<afterDialogVars, dialogOpen, badNames>>

HandleRemoveFile ==
    /\ dialogOpen /\ NoPopup
    /\ \E f \in dialog : dialog' = dialog \ {f} /\ badNames' = badNames \ {f}
    /\ UNCHANGED <<afterDialogVars, dialogOpen>>

\* A picked file's name is made valid; typing may make it empty or put a space in it.
HandleUploadFilenameChange ==
    /\ dialogOpen /\ NoPopup
    /\ \E f \in dialog : badNames' \in {badNames \cup {f}, badNames \ {f}}
    /\ UNCHANGED <<afterDialogVars, dialogOpen, dialog>>

ResetDialog == dialogOpen' = FALSE /\ dialog' = {} /\ badNames' = {}

HandleDialogClose ==
    /\ dialogOpen /\ NoPopup
    /\ ResetDialog
    /\ UNCHANGED afterDialogVars

HandleConfirm == dialogOpen /\ NoPopup /\ dialog # {} /\ badNames = {}

\* The dialog is confirmed while no batch runs: processFilesParallel lists the files and starts a
\* coroutine for each of them, which stops at the request for its upload URL.
ProcessFilesParallel ==
    /\ HandleConfirm
    /\ batch = {}
    /\ Start(dialog, "url")
    /\ ResetDialog
    /\ uploaded' = uploaded \cup dialog
    /\ batch' = dialog
    /\ result' = [f \in Files |-> "none"]
    /\ status' = [f \in Files |-> IF f \in dialog THEN "uploading" ELSE "none"]
    /\ jobKnown' = {}
    /\ controllers' = controllers \cup dialog
    /\ cancelledIds' = {}
    /\ isUploading' = TRUE
    /\ showProgress' = TRUE
    /\ results' = {}
    /\ UNCHANGED <<showSuccess, timers, published, cancelling>>

-----------------------------------------------------------------------------
(* The end of a coroutine.  The files in DOMAIN out return to                *)
(* processFilesParallel; the batch ends with the last of them, in the same   *)
(* task.  ctrl and ids are the refs, uploading the flag, when they return.   *)

NewResult(out) == [f \in Files |-> IF f \in DOMAIN out THEN out[f] ELSE result[f]]
BatchOver(out) == DOMAIN out # {} /\ \A f \in batch : NewResult(out)[f] # "none"
Successes(out) == {f \in batch : NewResult(out)[f] = "success"}

PublishSuccessfulUploads(fs) ==
    published' = [f \in Files |-> IF f \in fs THEN published[f] + 1 ELSE published[f]]

BatchEnds(out) ==
    /\ results' = batch
    /\ PublishSuccessfulUploads(Successes(out))
    /\ timers' = IF \A f \in batch : NewResult(out)[f] # "error" THEN timers + 1 ELSE timers
    /\ isUploading' = FALSE
    /\ controllers' = {}
    /\ cancelledIds' = {}
    /\ batch' = {}

Returns(out, ctrl, ids, uploading) ==
    /\ result' = NewResult(out)
    /\ IF BatchOver(out)
       THEN BatchEnds(out)
       ELSE /\ controllers' = ctrl /\ cancelledIds' = ids /\ isUploading' = uploading
            /\ UNCHANGED <<results, published, timers, batch>>

Return(f, outcome) == Returns([g \in {f} |-> outcome], controllers \ {f}, cancelledIds, isUploading)

\* setUploadingFiles maps over the listed files: an unlisted one stays unlisted.
UpdateUploadingFileStatus(f, s) == status' = [status EXCEPT ![f] = IF @ = "none" THEN @ ELSE s]

Main(f) == f \in batch /\ result[f] = "none"   \* uploadSingleFileWithTracking still runs
Retrying(f) == at[f] # "idle" /\ ~Main(f)      \* handleRetryUpload runs

-----------------------------------------------------------------------------
(* The steps of a coroutine.                                                 *)

UploadTravels(f) ==
    /\ Travels(f)
    /\ UNCHANGED <<dialogVars, uploaded, popupVars, batchVars, chatListVars>>

\* /complete answered: the file is processing, its job is known and is polled.
UploadCompletes(f) ==
    /\ CompleteAnswered(f)
    /\ UpdateUploadingFileStatus(f, "processing")
    /\ jobKnown' = IF status[f] = "none" THEN jobKnown ELSE jobKnown \cup {f}
    /\ UNCHANGED <<dialogVars, uploaded, popupVars, batchVars>>

\* Mutant: every job that ended counts as a success.
AnyEndIsSuccess(f) == IF f \in cancelledIds THEN "cancelled" ELSE "success"

Outcome(f) ==
    CASE f \in cancelledIds \/ job[f] = "cancelled" -> "cancelled"
      [] f \notin cancelledIds /\ job[f] = "failed" -> "error"
      [] OTHER -> "success"

\* Mutant: the error of an aborted upload is reported like any other.
ReportsTheAbort(f) == UpdateUploadingFileStatus(f, "error")

\* An aborted upload leaves the status that the cancel handler has set.
AfterAbort(f) == UNCHANGED status

UploadReturns(f) ==
    /\ Main(f)
    /\ \/ PollSaysEnded(f) /\ Return(f, Outcome(f)) /\ UpdateUploadingFileStatus(f, Outcome(f))
       \/ TransferFails(f) /\ Return(f, "error") /\ UpdateUploadingFileStatus(f, "error")
       \/ WakesUpAborted(f) /\ Return(f, "cancelled") /\ AfterAbort(f)
    /\ UNCHANGED <<dialogVars, uploaded, showProgress, showSuccess, jobKnown>>

RetryEnds(f) == isUploading' = FALSE

RetryReturns(f) ==
    /\ Retrying(f)
    /\ \/ /\ PollSaysEnded(f)
          /\ UpdateUploadingFileStatus(f,
                 CASE job[f] = "completed" -> "success"
                   [] job[f] = "cancelled" -> "cancelled"
                   [] OTHER -> "error")
          /\ PublishSuccessfulUploads({g \in {f} : job[g] = "completed"})
       \/ TransferFails(f) /\ UpdateUploadingFileStatus(f, "error") /\ UNCHANGED published
    /\ RetryEnds(f)
    /\ controllers' = controllers \ {f}
    /\ UNCHANGED <<dialogVars, uploaded, popupVars, jobKnown, batch, result, cancelledIds, timers>>

-----------------------------------------------------------------------------
(* The progress and success popups.                                          *)

\* Retry is offered for a failed file whose job is known.
HandleRetryUpload(f) ==
    /\ RetryOffered(f)
    /\ Start({f}, "retry")
    /\ controllers' = controllers \cup {f}
    /\ cancelledIds' = cancelledIds \ {f}
    /\ isUploading' = TRUE
    /\ UpdateUploadingFileStatus(f, "processing")
    /\ UNCHANGED <<dialogVars, uploaded, popupVars, jobKnown, batch, result, timers, published,
                   cancelling>>

\* What an abort of the files fs ends: the coroutines of a batch return cancelled,
\* a retry drops isUploading.
CancelledMains(fs) == [f \in {g \in EndedBy(fs) : Main(g)} |-> "cancelled"]

CancelJobs(fs) ==
    cancelling' = cancelling \cup {f \in fs : status[f] = "processing" /\ f \in jobKnown}

Cancels(fs, ctrl) ==
    /\ CancelJobs(fs)
    /\ Abort(ctrl)
    /\ Returns(CancelledMains(ctrl), controllers \ ctrl, cancelledIds \cup fs,
               isUploading /\ \A f \in EndedBy(ctrl) : Main(f))
    /\ status' = [f \in Files |-> IF f \in fs THEN "cancelled" ELSE status[f]]
    /\ UNCHANGED <<dialogVars, uploaded, showProgress, showSuccess, jobKnown>>

HandleCancelSingleUpload(f) ==
    /\ CancelOffered(f)
    /\ Cancels({f}, controllers \cap {f})

HandleCancelAllUploads ==
    /\ CancelAllOffered
    /\ Cancels({f \in Files : status[f] \in Active}, controllers)

HandleClosePopup ==
    /\ CloseOffered
    /\ showProgress' = FALSE /\ showSuccess' = FALSE
    /\ results' = {}
    /\ status' = [f \in Files |-> "none"]
    /\ jobKnown' = {}
    /\ UNCHANGED <<transferVars, dialogVars, uploaded, batchVars>>

\* The timer of a batch that ended without errors, whichever batch is on the screen.
BatchTimer ==
    /\ timers > 0
    /\ timers' = timers - 1
    /\ showProgress' = FALSE /\ showSuccess' = TRUE
    /\ UNCHANGED <<transferVars, dialogVars, uploaded, results, batch, result, controllers,
                   cancelledIds, isUploading, published, chatListVars>>

-----------------------------------------------------------------------------

CoroutineStep(f) ==
    UploadTravels(f) \/ UploadCompletes(f) \/ UploadReturns(f) \/ RetryReturns(f)

ChatServerStep ==
    ServerStep /\ UNCHANGED <<dialogVars, uploaded, popupVars, batchVars, chatListVars>>

ChatUserStep ==
    \/ TriggerUpload \/ OpenDialogWithFiles \/ ProcessNewFiles \/ HandleRemoveFile
    \/ HandleUploadFilenameChange \/ HandleDialogClose \/ ProcessFilesParallel
    \/ \E f \in Files : HandleRetryUpload(f) \/ HandleCancelSingleUpload(f)
    \/ HandleCancelAllUploads \/ HandleClosePopup

ChatUploadNext ==
    ChatUserStep \/ ChatServerStep \/ BatchTimer \/ \E f \in Files : CoroutineStep(f)

\* Requests are answered or fail, timers fire and the worker ends every job.
ChatUploadFairness ==
    \A f \in Files : /\ WF_chatUploadVars(CoroutineStep(f))
                     /\ WF_chatUploadVars(JobEnds(f) /\ ChatServerStep)

ChatUploadSpec == ChatUploadInit /\ [][ChatUploadNext]_chatUploadVars
FairChatUploadSpec == ChatUploadSpec /\ ChatUploadFairness

-----------------------------------------------------------------------------

\* A file is published to the chat at most once, by its batch or by a retry, and only
\* when its job has completed on the server.
PublishedOnceCompleted ==
    \A f \in Files : published[f] <= 1 /\ (published[f] = 1 => job[f] = "completed")

\* A cancelled file stays cancelled, whatever its request answers later.  A retry is
\* left out: the end of another file's upload drops its controller.
CancelledStaysCancelled ==
    [][\A f \in Files : status[f] = "cancelled" /\ ~Retrying(f)
                            => status'[f] \in {"cancelled", "none"}]_chatUploadVars

\* The warning before leaving the page and the block on new uploads end with the uploads.
UploadingEnds == isUploading ~> ~isUploading
=============================================================================
