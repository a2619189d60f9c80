----------------------------- MODULE UploadProofs -----------------------------
(* What the uploads of the chat and of the Video Management tab, the list of    *)
(* its streams and its thumbnails promise, for any number of files, chunks,    *)
(* retries, streams and cards.  Both uploads move their coroutines by the      *)
(* steps of UploadTransfer only: that no incomplete file is completed is       *)
(* proved once for them.  What either shows and publishes follows from who     *)
(* keeps a coroutine: its batch, its retry, or nobody, once it was aborted     *)
(* while it slept.                                                             *)
EXTENDS MCUploads, FiniteSetTheorems, SequenceTheorems, TLAPS

TransferShape ==
    /\ at \in [Files -> Waits]
    /\ chunk \in [Files -> 1 .. Chunks]
    /\ stored \in [Files -> SUBSET (1 .. Chunks)]
    /\ job \in [Files -> JobStates]

\* The chunks before the one that is sent are on the server, although the responses
\* to some of them were lost.
EarlierChunksAreStored == \A f \in Files : 1 .. chunk[f] - 1 \subseteq stored[f]

TransferInv == TransferShape /\ EarlierChunksAreStored /\ WholeFilesOnly

\* A transfer starts with nothing sent.
LEMMA TransferStarts == TransferInit => TransferInv
BY TransferConstants DEF TransferInit, TransferInv, TransferShape, EarlierChunksAreStored,
                         WholeFilesOnly, Waits, JobStates

\* The invariant is about four variables.
LEMMA TransferStutters ==
    ASSUME TransferInv, UNCHANGED <<at, chunk, stored, job>>
    PROVE  TransferInv'
BY DEF TransferInv, TransferShape, EarlierChunksAreStored, WholeFilesOnly

\* A coroutine may go to any wait but "complete" without more being known of it.
LEMMA WaitingIsHarmless ==
    ASSUME TransferInv, NEW at2 \in [Files -> Waits], at' = at2,
           \A f \in Files : at2[f] # "complete" \/ at2[f] = at[f],
           UNCHANGED <<chunk, stored, job>>
    PROVE  TransferInv'
BY DEF TransferInv, TransferShape, EarlierChunksAreStored, WholeFilesOnly

\* What a request leaves behind on the server: chunks are added, and a job is made
\* only for a file all of whose chunks are there.
LEMMA RequestsAreSafe ==
    ASSUME TransferInv, NEW fs, Receives(fs)
    PROVE  /\ stored' \in [Files -> SUBSET (1 .. Chunks)]
           /\ job' \in [Files -> JobStates]
           /\ \A f \in Files : stored[f] \subseteq stored'[f]
           /\ \A f \in Files : job'[f] # "none" => stored[f] = 1 .. Chunks
<1> USE DEF TransferInv, TransferShape
<1>1. stored' \in [Files -> SUBSET (1 .. Chunks)] /\ \A f \in Files : stored[f] \subseteq stored'[f]
  BY DEF Receives, Stores
<1>2. job' \in [Files -> JobStates]
  BY DEF Receives, Queues, JobStates
<1>3. ASSUME NEW f \in Files, job'[f] # "none" PROVE stored[f] = 1 .. Chunks
  <2>1. job[f] # "none" \/ at[f] = "complete"
    BY <1>3 DEF Receives, Queues
  <2> QED BY <2>1 DEF WholeFilesOnly
<1> QED BY <1>1, <1>2, <1>3

\* A request is over, answered or not: the coroutine waits for something else.
LEMMA RequestsKeepTheInvariant ==
    ASSUME TransferInv, NEW fs, Receives(fs),
           NEW at2 \in [Files -> Waits], at' = at2,
           \A f \in Files : at2[f] # "complete" \/ at2[f] = at[f],
           UNCHANGED chunk
    PROVE  TransferInv'
<1>1. TransferShape'
  BY RequestsAreSafe DEF TransferInv, TransferShape
<1>2. EarlierChunksAreStored'
  BY RequestsAreSafe DEF TransferInv, EarlierChunksAreStored
<1>3. ASSUME NEW f \in Files, job'[f] # "none" \/ at'[f] = "complete"
      PROVE  stored'[f] = 1 .. Chunks
  <2>1. stored[f] = 1 .. Chunks
    BY <1>3, RequestsAreSafe DEF TransferInv, WholeFilesOnly
  <2> QED BY <2>1, RequestsAreSafe
<1> QED BY <1>1, <1>2, <1>3 DEF TransferInv, WholeFilesOnly

\* The answer to a chunk: the next one, or /complete behind the last.
LEMMA ChunksAreCounted ==
    ASSUME TransferInv, NEW f \in Files, ChunkStored(f)
    PROVE  TransferInv'
<1> USE TransferConstants DEF TransferInv, TransferShape
<1>1. /\ stored' \in [Files -> SUBSET (1 .. Chunks)] /\ job' \in [Files -> JobStates]
      /\ \A g \in Files : stored[g] \subseteq stored'[g]
      /\ \A g \in Files : job'[g] # "none" => stored[g] = 1 .. Chunks
  BY RequestsAreSafe DEF ChunkStored
<1>2. chunk[f] \in stored'[f]
  BY DEF ChunkStored, Receives, Stores
<1>3. CASE chunk[f] = Chunks
  <2>1. at' = [at EXCEPT ![f] = "complete"] /\ UNCHANGED chunk
    BY <1>3 DEF ChunkStored, NextChunk, GoesTo
  <2>2. TransferShape'
    BY <2>1, <1>1 DEF Waits
  <2>3. EarlierChunksAreStored'
    BY <2>1, <1>1 DEF EarlierChunksAreStored
  <2>4. stored'[f] = 1 .. Chunks
    <3>1. 1 .. Chunks - 1 \subseteq stored'[f]
      BY <1>1, <1>3 DEF EarlierChunksAreStored
    <3>2. Chunks \in stored'[f] /\ stored'[f] \subseteq 1 .. Chunks
      BY <1>1, <1>2, <1>3
    <3>3. 1 .. Chunks \subseteq (1 .. Chunks - 1) \cup {Chunks}
      OBVIOUS
    <3> QED BY <3>1, <3>2, <3>3
  <2>5. WholeFilesOnly'
    BY <2>1, <2>4, <1>1 DEF WholeFilesOnly
  <2> QED BY <2>2, <2>3, <2>5
<1>4. CASE chunk[f] # Chunks
  <2>1. chunk' = [chunk EXCEPT ![f] = @ + 1] /\ UNCHANGED at
    BY <1>4 DEF ChunkStored, NextChunk
  <2>2. TransferShape'
    <3>1. chunk[f] + 1 \in 1 .. Chunks
      BY <1>4
    <3>2. chunk' \in [Files -> 1 .. Chunks]
      BY <2>1, <3>1
    <3> QED BY <2>1, <3>2, <1>1
  <2>3. ASSUME NEW g \in Files PROVE 1 .. chunk'[g] - 1 \subseteq stored'[g]
    BY <2>1, <1>1, <1>2 DEF EarlierChunksAreStored
  <2>4. WholeFilesOnly'
    BY <2>1, <1>1 DEF WholeFilesOnly
  <2> QED BY <2>2, <2>3, <2>4 DEF EarlierChunksAreStored
<1> QED BY <1>3, <1>4

-----------------------------------------------------------------------------

\* Everything the components let happen to their transfers.
CoroutineMoves(f) ==
    Travels(f) \/ CompleteAnswered(f) \/ PollSaysEnded(f) \/ TransferFails(f) \/ WakesUpAborted(f)

TransferMoves ==
    \/ \E f \in Files : CoroutineMoves(f)
    \/ \E fs \in SUBSET Files : Start(fs, "url") \/ Start(fs, "retry") \/ Abort(fs)
    \/ ServerStep
    \/ UNCHANGED <<progressVars, serverVars>>

\* A step of a coroutine that only changes what it waits for.
LEMMA GoingElsewhere ==
    ASSUME TransferInv, NEW f \in Files, NEW wait \in Waits \ {"complete"},
           at' = [at EXCEPT ![f] = wait], UNCHANGED <<chunk, stored, job>>
    PROVE  TransferInv'
<1> DEFINE at2 == [at EXCEPT ![f] = wait]
<1>1. at2 \in [Files -> Waits] /\ \A g \in Files : at2[g] # "complete" \/ at2[g] = at[g]
  BY DEF TransferInv, TransferShape
<1> QED BY <1>1, WaitingIsHarmless

\* The same at the end of a request.
LEMMA RequestEnds ==
    ASSUME TransferInv, NEW f \in Files, NEW wait \in Waits \ {"complete"}, NEW fs, Receives(fs),
           at' = [at EXCEPT ![f] = wait], UNCHANGED chunk
    PROVE  TransferInv'
<1> DEFINE at2 == [at EXCEPT ![f] = wait]
<1>1. at2 \in [Files -> Waits] /\ \A g \in Files : at2[g] # "complete" \/ at2[g] = at[g]
  BY DEF TransferInv, TransferShape
<1> QED BY <1>1, RequestsKeepTheInvariant

\* Every step of a coroutine keeps the invariant.
LEMMA CoroutinesAreSafe ==
    ASSUME TransferInv, NEW f \in Files, CoroutineMoves(f)
    PROVE  TransferInv'
<1> USE DEF Waits
<1>1. CASE UrlAnswered(f)
  BY <1>1, GoingElsewhere DEF UrlAnswered, GoesTo, serverVars
<1>2. CASE ChunkStored(f)
  BY <1>2, ChunksAreCounted
<1>3. CASE ChunkAttemptFails(f)
  BY <1>3, RequestEnds DEF ChunkAttemptFails, Retries
<1>4. CASE BackoffEnds(f)
  BY <1>4, GoingElsewhere DEF BackoffEnds, WakesUp, GoesTo, serverVars
<1>5. CASE PollSaysActive(f)
  BY <1>5, GoingElsewhere DEF PollSaysActive, GoesTo, serverVars
<1>6. CASE SleepEnds(f)
  BY <1>6, GoingElsewhere DEF SleepEnds, GoesTo, serverVars
<1>7. CASE RetryAccepted(f)
  BY <1>7, RequestEnds DEF RetryAccepted, GoesTo
<1>8. CASE CompleteAnswered(f)
  BY <1>8, RequestEnds DEF CompleteAnswered, GoesTo
<1>9. CASE PollSaysEnded(f)
  BY <1>9, GoingElsewhere DEF PollSaysEnded, GoesTo, serverVars
<1>10. CASE TransferFails(f)
  BY <1>10, RequestEnds DEF TransferFails, GoesTo
<1>11. CASE WakesUpAborted(f)
  BY <1>11, GoingElsewhere DEF WakesUpAborted, WakesUp, GoesTo, serverVars
<1> QED BY <1>1, <1>2, <1>3, <1>4, <1>5, <1>6, <1>7, <1>8, <1>9, <1>10, <1>11
        DEF CoroutineMoves, Travels

\* A file that is started or retried waits for neither a chunk nor /complete.
LEMMA StartsAreSafe ==
    ASSUME TransferInv, NEW fs \in SUBSET Files, NEW wait \in Waits \ {"complete"}, Start(fs, wait)
    PROVE  TransferInv'
<1> DEFINE at2 == [f \in Files |-> IF f \in fs THEN wait ELSE at[f]]
<1>1. at2 \in [Files -> Waits] /\ \A g \in Files : at2[g] # "complete" \/ at2[g] = at[g]
  BY DEF TransferInv, TransferShape
<1> QED BY <1>1, WaitingIsHarmless DEF Start, serverVars

\* An abort ends waits; the requests it cuts off may still have reached the server.
LEMMA AbortsAreSafe ==
    ASSUME TransferInv, NEW fs \in SUBSET Files, Abort(fs)
    PROVE  TransferInv'
<1> DEFINE at2 == [f \in Files |-> IF f \in EndedBy(fs) THEN "idle" ELSE at[f]]
<1>1. at2 \in [Files -> Waits] /\ \A g \in Files : at2[g] # "complete" \/ at2[g] = at[g]
  BY DEF TransferInv, TransferShape, Waits
<1>2. PICK got : Receives(got)
  BY DEF Abort
<1> HIDE DEF at2
<1>3. at' = at2 /\ UNCHANGED chunk
  BY DEF Abort, at2
<1> QED BY <1>1, <1>2, <1>3, RequestsKeepTheInvariant

\* What is aborted besides files is nothing.
LEMMA AbortsAreOfFiles ==
    ASSUME NEW fs, Abort(fs)
    PROVE  Abort(fs \cap Files)
<1>1. EndedBy(fs \cap Files) \subseteq EndedBy(fs)
  BY DEF EndedBy
<1>2. PICK got \in SUBSET EndedBy(fs) : Receives(got)
  BY DEF Abort
<1>3. Receives(got \cap Files)
  BY <1>2 DEF Receives, Stores, Queues
<1>4. got \cap Files \in SUBSET EndedBy(fs \cap Files)
  BY <1>2 DEF EndedBy
<1>5. \A f \in Files : f \in EndedBy(fs) <=> f \in EndedBy(fs \cap Files)
  BY DEF EndedBy
<1> QED BY <1>3, <1>4, <1>5 DEF Abort

\* The worker and the cancel requests change jobs that exist.
LEMMA ServerIsSafe ==
    ASSUME TransferInv, ServerStep
    PROVE  TransferInv'
<1>1. PICK f \in Files : JobEnds(f) \/ CancelArrives(f) \/ CancelIsLost(f)
  BY DEF ServerStep
<1>2. UNCHANGED <<at, chunk, stored>>
  BY <1>1 DEF JobEnds, CancelArrives, CancelIsLost, progressVars, serverVars
<1>3. /\ job' \in [Files -> JobStates]
      /\ \A g \in Files : job'[g] # "none" => job[g] # "none"
  BY <1>1 DEF JobEnds, CancelArrives, CancelIsLost, serverVars, TransferInv, TransferShape, JobStates
<1> QED BY <1>2, <1>3 DEF TransferInv, TransferShape, EarlierChunksAreStored, WholeFilesOnly

\* The invariant is inductive for every component that moves its transfers so.
LEMMA TransfersAreSafe == TransferInv /\ TransferMoves => TransferInv'
<1> SUFFICES ASSUME TransferInv, TransferMoves PROVE TransferInv'
  OBVIOUS
<1>1. CASE \E f \in Files : CoroutineMoves(f)
  BY <1>1, CoroutinesAreSafe
<1>2. CASE \E fs \in SUBSET Files : Start(fs, "url") \/ Start(fs, "retry") \/ Abort(fs)
  BY <1>2, StartsAreSafe, AbortsAreSafe DEF Waits
<1>3. CASE ServerStep
  BY <1>3, ServerIsSafe
<1>4. CASE UNCHANGED <<progressVars, serverVars>>
  BY <1>4, TransferStutters DEF progressVars, serverVars
<1> QED BY <1>1, <1>2, <1>3, <1>4 DEF TransferMoves

-----------------------------------------------------------------------------

\* Every step of the chat's uploads is one of UploadTransfer.
LEMMA ChatMovesTransfers == [ChatUploadNext]_chatUploadVars => TransferMoves
<1> USE DEF TransferMoves
<1>1. CASE ChatUserStep
  <2> USE DEF transferVars, progressVars, serverVars, afterDialogVars
  <2>1. CASE TriggerUpload \/ OpenDialogWithFiles \/ ProcessNewFiles \/ HandleRemoveFile
    BY <2>1 DEF TriggerUpload, OpenDialogWithFiles, ProcessNewFiles, HandleRemoveFile
  <2>2. CASE HandleUploadFilenameChange \/ HandleDialogClose \/ HandleClosePopup
    BY <2>2 DEF HandleUploadFilenameChange, HandleDialogClose, HandleClosePopup
  <2>3. CASE ProcessFilesParallel
    <3>1. Start(dialog \cap Files, "url")
      BY <2>3 DEF ProcessFilesParallel, Start
    <3> QED BY <3>1
  <2>4. ASSUME NEW f \in Files, HandleRetryUpload(f) PROVE TransferMoves
    BY <2>4 DEF HandleRetryUpload
  <2>5. ASSUME NEW fs, NEW ctrl, Cancels(fs, ctrl) PROVE TransferMoves
    <3>1. Abort(ctrl)
      BY <2>5 DEF Cancels
    <3>2. Abort(ctrl \cap Files)
      BY <3>1, AbortsAreOfFiles
    <3> QED BY <3>2
  <2> QED BY <1>1, <2>1, <2>2, <2>3, <2>4, <2>5
          DEF ChatUserStep, HandleCancelSingleUpload, HandleCancelAllUploads
<1>2. CASE ChatServerStep
  BY <1>2 DEF ChatServerStep
<1>3. CASE BatchTimer
  BY <1>3 DEF BatchTimer, transferVars, progressVars, serverVars
<1>4. ASSUME NEW f \in Files, CoroutineStep(f) PROVE TransferMoves
  BY <1>4 DEF CoroutineStep, UploadTravels, UploadCompletes, UploadReturns, RetryReturns, CoroutineMoves
<1>5. CASE UNCHANGED chatUploadVars
  BY <1>5 DEF chatUploadVars, transferVars, progressVars, serverVars
<1> QED BY <1>1, <1>2, <1>3, <1>4, <1>5 DEF ChatUploadNext

\* Every step of the Video Management tab's uploads is one of UploadTransfer.
LEMMA ManagementMovesTransfers == [VideoUploadsNext]_videoUploadVars => TransferMoves
<1> USE DEF TransferMoves
<1>1. CASE VideoUserStep
  <2> USE DEF transferVars, progressVars, serverVars
  <2>1. CASE FilesSelected \/ RemoveFile \/ CloseUploadDialog \/ HandleClearUploadProgress
    BY <2>1 DEF FilesSelected, RemoveFile, CloseUploadDialog, HandleClearUploadProgress
  <2>2. CASE ConfirmQueued \/ ConfirmSession
    BY <2>2 DEF ConfirmQueued, ConfirmSession
  <2>3. CASE HandleCancelUploads
    <3>1. Abort(AbortedByCancel)
      BY <2>3 DEF HandleCancelUploads
    <3>2. Abort(AbortedByCancel \cap Files)
      BY <3>1, AbortsAreOfFiles
    <3> QED BY <3>2
  <2>4. ASSUME NEW f \in Files, RetryUpload(f) PROVE TransferMoves
    BY <2>4 DEF RetryUpload
  <2> QED BY <1>1, <2>1, <2>2, <2>3, <2>4 DEF VideoUserStep
<1>2. CASE VideoServerStep
  BY <1>2 DEF VideoServerStep
<1>3. CASE RefFollows \/ SessionEnds
  BY <1>3 DEF RefFollows, SessionEnds, transferVars, progressVars, serverVars
<1>4. ASSUME NEW s, StartBatch(s) PROVE TransferMoves
  <2>1. PICK fs : Start(fs, "url")
    BY <1>4 DEF StartBatch
  <2>2. Start(fs \cap Files, "url")
    BY <2>1 DEF Start
  <2> QED BY <2>2
<1>5. CASE LoopStep
  BY <1>3, <1>4, <1>5 DEF LoopStep, NextBatch, TakeQueue
<1>6. ASSUME NEW f \in Files, VideoStep(f) PROVE TransferMoves
  BY <1>6 DEF VideoStep, VideoTravels, VideoCompletes, VideoReturns, StaleReturns, VideoRetryReturns,
              CoroutineMoves
<1>7. CASE UNCHANGED videoUploadVars
  BY <1>7 DEF videoUploadVars, transferVars, progressVars, serverVars
<1> QED BY <1>1, <1>2, <1>3, <1>5, <1>6, <1>7 DEF VideoUploadsNext

-----------------------------------------------------------------------------

\* The chat sends /complete only for files whose chunks are all stored.
THEOREM ChatUploadsAreWhole == ChatUploadSpec => []WholeFilesOnly
<1>1. ChatUploadInit => TransferInv
  BY TransferStarts DEF ChatUploadInit
<1>2. TransferInv /\ [ChatUploadNext]_chatUploadVars => TransferInv'
  BY ChatMovesTransfers, TransfersAreSafe
<1>3. TransferInv => WholeFilesOnly
  BY DEF TransferInv
<1> QED BY <1>1, <1>2, <1>3, PTL DEF ChatUploadSpec

\* So does the Video Management tab.
THEOREM ManagementUploadsAreWhole == VideoUploadsSpec => []WholeFilesOnly
<1>1. VideoUploadsInit => TransferInv
  BY TransferStarts DEF VideoUploadsInit
<1>2. TransferInv /\ [VideoUploadsNext]_videoUploadVars => TransferInv'
  BY ManagementMovesTransfers, TransfersAreSafe
<1>3. TransferInv => WholeFilesOnly
  BY DEF TransferInv
<1> QED BY <1>1, <1>2, <1>3, PTL DEF VideoUploadsSpec

-----------------------------------------------------------------------------
(* What a step of a transfer does to the types and to jobs.                *)

\* Moves of coroutines keep the types of the transfer; the set of cancel requests under
\* way is up to the component.
LEMMA TransfersStayTyped ==
    ASSUME TransferTypeOK, TransferMoves, cancelling' \subseteq Files
    PROVE  TransferTypeOK'
<1> USE TransferConstants DEF TransferTypeOK
<1>1. at' \in [Files -> Waits] /\ chunk' \in [Files -> 1 .. Chunks]
      /\ stored' \in [Files -> SUBSET (1 .. Chunks)] /\ job' \in [Files -> JobStates]
  <2>1. TransferShape
    BY DEF TransferShape
  <2>a. ASSUME NEW fs, Receives(fs)
        PROVE  stored' \in [Files -> SUBSET (1 .. Chunks)] /\ job' \in [Files -> JobStates]
    BY <2>a DEF Receives, Stores, Queues, JobStates
  <2>2. ASSUME NEW f \in Files, CoroutineMoves(f) PROVE TransferShape'
    <3> USE DEF Waits, TransferShape, GoesTo, serverVars
    <3>1. CASE ChunkStored(f)
      <4>1. CASE chunk[f] = Chunks
        BY <3>1, <4>1, <2>a DEF ChunkStored, NextChunk
      <4>2. CASE chunk[f] # Chunks
        <5>1. chunk' = [chunk EXCEPT ![f] = @ + 1] /\ UNCHANGED at
          BY <3>1, <4>2 DEF ChunkStored, NextChunk
        <5>2. chunk[f] + 1 \in 1 .. Chunks
          BY <4>2
        <5>3. chunk' \in [Files -> 1 .. Chunks]
          BY <5>1, <5>2
        <5> QED BY <3>1, <5>1, <5>3, <2>a DEF ChunkStored
      <4> QED BY <4>1, <4>2
    <3>2. CASE ChunkAttemptFails(f)
      BY <3>2, <2>a DEF ChunkAttemptFails, Retries
    <3>3. CASE UrlAnswered(f) \/ BackoffEnds(f) \/ PollSaysActive(f) \/ SleepEnds(f)
      BY <3>3 DEF UrlAnswered, BackoffEnds, WakesUp, PollSaysActive, SleepEnds
    <3>4. CASE RetryAccepted(f) \/ CompleteAnswered(f) \/ TransferFails(f)
      BY <3>4, <2>a DEF RetryAccepted, CompleteAnswered, TransferFails
    <3>5. CASE PollSaysEnded(f) \/ WakesUpAborted(f)
      BY <3>5 DEF PollSaysEnded, WakesUpAborted, WakesUp
    <3> QED BY <2>2, <3>1, <3>2, <3>3, <3>4, <3>5 DEF CoroutineMoves, Travels
  <2>3. ASSUME NEW fs, Start(fs, "url") \/ Start(fs, "retry") PROVE TransferShape'
    BY <2>3, <2>1 DEF Start, TransferShape, serverVars, Waits
  <2>4. ASSUME NEW fs, Abort(fs) PROVE TransferShape'
    BY <2>4, <2>1, <2>a DEF Abort, TransferShape, Waits
  <2>5. CASE ServerStep
    BY <2>5, <2>1 DEF ServerStep, JobEnds, CancelArrives, CancelIsLost, TransferShape,
                      progressVars, serverVars, JobStates
  <2>6. CASE UNCHANGED <<progressVars, serverVars>>
    BY <2>6, <2>1 DEF TransferShape, progressVars, serverVars
  <2> QED BY <2>2, <2>3, <2>4, <2>5, <2>6 DEF TransferMoves, TransferShape
<1>2. tries' \in [Files -> 0 .. MaxRetries] /\ aborted' \in [Files -> BOOLEAN]
  <2>1. ASSUME NEW f \in Files, CoroutineMoves(f)
        PROVE  tries' \in [Files -> 0 .. MaxRetries] /\ aborted' = aborted
    <3> USE DEF GoesTo, serverVars
    <3>1. CASE ChunkStored(f)
      BY <3>1 DEF ChunkStored, NextChunk
    <3>2. CASE ChunkAttemptFails(f)
      BY <3>2 DEF ChunkAttemptFails, Retries
    <3> QED BY <2>1, <3>1, <3>2 DEF CoroutineMoves, Travels, UrlAnswered, BackoffEnds, PollSaysActive,
            SleepEnds, RetryAccepted, CompleteAnswered, TransferFails, PollSaysEnded, WakesUpAborted
  <2>2. ASSUME NEW fs, Start(fs, "url") \/ Start(fs, "retry") \/ Abort(fs)
        PROVE  tries' = tries /\ aborted' \in [Files -> BOOLEAN]
    BY <2>2 DEF Start, Abort
  <2>3. CASE ServerStep \/ UNCHANGED <<progressVars, serverVars>>
    BY <2>3 DEF ServerStep, JobEnds, CancelArrives, CancelIsLost, progressVars
  <2> QED BY <2>1, <2>2, <2>3 DEF TransferMoves
<1> QED BY <1>1, <1>2

\* A job that has completed stays so: only a failed one is retried, only an active
\* one is cancelled.
LEMMA CompletedJobsStay ==
    ASSUME TransferTypeOK, TransferMoves, NEW f \in Files, job[f] = "completed"
    PROVE  job'[f] = "completed"
<1> USE DEF TransferTypeOK, serverVars, progressVars
<1>1. ASSUME NEW fs, Receives(fs) PROVE job'[f] = "completed"
  BY <1>1 DEF Receives, Queues
<1>2. ASSUME NEW g \in Files, CoroutineMoves(g) PROVE job'[f] = "completed"
  BY <1>1, <1>2 DEF CoroutineMoves, Travels, UrlAnswered, ChunkStored, ChunkAttemptFails, BackoffEnds,
         WakesUp, PollSaysActive, SleepEnds, RetryAccepted, CompleteAnswered, TransferFails, PollSaysEnded,
         WakesUpAborted
<1>3. ASSUME NEW fs, Start(fs, "url") \/ Start(fs, "retry") \/ Abort(fs) PROVE job'[f] = "completed"
  BY <1>1, <1>3 DEF Start, Abort
<1>4. CASE ServerStep
  BY <1>4 DEF ServerStep, JobEnds, CancelArrives, CancelIsLost
<1> QED BY <1>2, <1>3, <1>4 DEF TransferMoves

-----------------------------------------------------------------------------
(* The chat: types.                                                        *)

\* A dialog that is not open has no files.
ChatTyped == ChatUploadTypeOK /\ (~dialogOpen => dialog = {})

\* What a coroutine returns.
ReturnedFiles(out) ==
    /\ DOMAIN out \subseteq Files
    /\ \A f \in DOMAIN out : out[f] \in Outcomes \ {"none"}

\* One file returns, with an outcome.
LEMMA OneReturned ==
    ASSUME NEW f \in Files, NEW o \in Outcomes \ {"none"}
    PROVE  ReturnedFiles([g \in {f} |-> o])
BY DEF ReturnedFiles

\* Cancel All and the closing of the popup make the aborted files of a batch return as cancelled.
LEMMA ManyReturned ==
    ASSUME NEW fs
    PROVE  /\ ReturnedFiles(CancelledMains(fs)) <=> {g \in EndedBy(fs) : Main(g)} \subseteq Files
           /\ DOMAIN CancelledMains(fs) = {g \in EndedBy(fs) : Main(g)}
           /\ \A f \in DOMAIN CancelledMains(fs) : CancelledMains(fs)[f] = "cancelled"
BY DEF ReturnedFiles, CancelledMains, Outcomes

\* The variables that processFilesParallel changes when some of its coroutines return.
LEMMA ReturnsAreTyped ==
    ASSUME ChatTyped, NEW out, ReturnedFiles(out), NEW ctrl \in SUBSET Files,
           NEW ids \in SUBSET Files, NEW up \in BOOLEAN, Returns(out, ctrl, ids, up)
    PROVE  /\ result' \in [Files -> Outcomes]
           /\ batch' \subseteq uploaded
           /\ controllers' \subseteq Files /\ cancelledIds' \subseteq Files /\ results' \subseteq Files
           /\ isUploading' \in BOOLEAN /\ timers' \in Nat /\ published' \in [Files -> Nat]
<1> USE DEF ChatTyped, ChatUploadTypeOK
<1>1. result' \in [Files -> Outcomes]
  BY DEF Returns, NewResult, ReturnedFiles
<1>2. CASE BatchOver(out)
  <2>1. BatchEnds(out)
    BY <1>2 DEF Returns
  <2>2. timers' \in Nat
    BY <2>1 DEF BatchEnds
  <2>3. published' \in [Files -> Nat]
    BY <2>1 DEF BatchEnds, PublishSuccessfulUploads
  <2> QED BY <1>1, <2>1, <2>2, <2>3 DEF BatchEnds
<1>3. CASE ~BatchOver(out)
  BY <1>1, <1>3 DEF Returns
<1> QED BY <1>2, <1>3

\* A new status of a file is one of those that there are.
LEMMA StatusStaysTyped ==
    ASSUME ChatTyped, NEW f \in Files, NEW s \in Active \cup Outcomes, s # "none",
           UpdateUploadingFileStatus(f, s)
    PROVE  /\ status' \in [Files -> Active \cup Outcomes]
           /\ \A g \in Files : status'[g] # "none" <=> status[g] # "none"
BY DEF ChatTyped, ChatUploadTypeOK, UpdateUploadingFileStatus

\* A coroutine ends in one of three ways.
LEMMA OutcomesAreOutcomes == \A f : Outcome(f) \in {"cancelled", "error", "success"}
BY DEF Outcome

\* The chat starts with no file.
LEMMA ChatStartsTyped == ChatUploadInit => ChatTyped
<1> SUFFICES ASSUME ChatUploadInit PROVE ChatTyped
  OBVIOUS
<1>1. TransferTypeOK
  BY TransferConstants DEF ChatUploadInit, TransferInit, TransferTypeOK, Waits, JobStates
<1>2. dialog \cap uploaded = {} /\ {isUploading, showProgress, showSuccess} \subseteq BOOLEAN
  BY DEF ChatUploadInit
<1> QED BY <1>1, <1>2 DEF ChatUploadInit, ChatTyped, ChatUploadTypeOK, Outcomes, Active

\* The dialog, and the timer of a batch that is over.
LEMMA ChatDialogIsTyped ==
    ASSUME ChatTyped, TransferTypeOK',
           \/ TriggerUpload \/ OpenDialogWithFiles \/ ProcessNewFiles \/ HandleRemoveFile
           \/ HandleUploadFilenameChange \/ HandleDialogClose
    PROVE  ChatTyped'
<1> USE DEF ChatTyped, ChatUploadTypeOK, afterDialogVars, popupVars, batchVars, chatListVars
<1>1. CASE TriggerUpload
  BY <1>1 DEF TriggerUpload
<1>2. CASE OpenDialogWithFiles
  BY <1>2 DEF OpenDialogWithFiles, Fresh
<1>3. CASE ProcessNewFiles
  BY <1>3 DEF ProcessNewFiles, Fresh
<1>4. CASE HandleRemoveFile
  BY <1>4 DEF HandleRemoveFile
<1>5. CASE HandleUploadFilenameChange
  BY <1>5 DEF HandleUploadFilenameChange
<1>6. CASE HandleDialogClose
  BY <1>6 DEF HandleDialogClose, ResetDialog
<1> QED BY <1>1, <1>2, <1>3, <1>4, <1>5, <1>6

\* A batch starts with the files of the dialog.
LEMMA ChatBatchIsTyped ==
    ASSUME ChatTyped, TransferTypeOK', ProcessFilesParallel
    PROVE  ChatTyped'
BY DEF ChatTyped, ChatUploadTypeOK, ProcessFilesParallel, ResetDialog, Outcomes, Active

\* The popup is closed.
LEMMA ChatPopupIsTyped ==
    ASSUME ChatTyped, TransferTypeOK', HandleClosePopup \/ BatchTimer
    PROVE  ChatTyped'
<1> USE DEF ChatTyped, ChatUploadTypeOK, dialogVars, batchVars, chatListVars
<1>1. CASE HandleClosePopup
  BY <1>1 DEF HandleClosePopup, Outcomes
<1>2. CASE BatchTimer
  <2>1. timers' \in Nat
    <3>1. timers \in Nat /\ timers > 0 /\ timers' = timers - 1
      BY <1>2 DEF BatchTimer
    <3> QED BY <3>1
  <2>2. showProgress' = FALSE /\ showSuccess' = TRUE /\ isUploading' = isUploading
    BY <1>2 DEF BatchTimer
  <2>3. {isUploading', showProgress', showSuccess'} \subseteq BOOLEAN
    BY <2>2, Zenon
  <2> QED BY <1>2, <2>1, <2>3 DEF BatchTimer
<1> QED BY <1>1, <1>2

\* A failed file is retried.
LEMMA ChatRetryIsTyped ==
    ASSUME ChatTyped, TransferTypeOK', NEW f \in Files, HandleRetryUpload(f)
    PROVE  ChatTyped'
<1>1. UpdateUploadingFileStatus(f, "processing")
  BY DEF HandleRetryUpload
<1>2. /\ status' \in [Files -> Active \cup Outcomes]
      /\ \A g \in Files : status'[g] # "none" <=> status[g] # "none"
  BY <1>1, StatusStaysTyped DEF Active, Outcomes
<1> QED BY <1>2 DEF HandleRetryUpload, ChatTyped, ChatUploadTypeOK, dialogVars, popupVars

\* Files are cancelled.
LEMMA ChatCancelIsTyped ==
    ASSUME ChatTyped, TransferTypeOK', NEW fs \in SUBSET Files, NEW ctrl \in SUBSET Files,
           Cancels(fs, ctrl)
    PROVE  ChatTyped'
<1> USE DEF ChatTyped, ChatUploadTypeOK
<1>1. Returns(CancelledMains(ctrl), controllers \ ctrl, cancelledIds \cup fs,
              isUploading /\ \A f \in EndedBy(ctrl) : Main(f))
  BY DEF Cancels
<1>2. ReturnedFiles(CancelledMains(ctrl))
  BY ManyReturned DEF EndedBy
<1>3. (isUploading /\ \A f \in EndedBy(ctrl) : Main(f)) \in BOOLEAN
  OBVIOUS
<1>4. /\ result' \in [Files -> Outcomes]
      /\ batch' \subseteq uploaded
      /\ controllers' \subseteq Files /\ cancelledIds' \subseteq Files /\ results' \subseteq Files
      /\ isUploading' \in BOOLEAN /\ timers' \in Nat /\ published' \in [Files -> Nat]
  <2> DEFINE c == controllers \ ctrl
             i == cancelledIds \cup fs
             u == isUploading /\ \A f \in EndedBy(ctrl) : Main(f)
  <2>1. c \in SUBSET Files /\ i \in SUBSET Files /\ u \in BOOLEAN /\ ChatTyped
    OBVIOUS
  <2>2. Returns(CancelledMains(ctrl), c, i, u)
    BY <1>1
  <2> HIDE DEF c, i, u, ChatTyped
  <2> QED BY <1>2, <2>1, <2>2, ReturnsAreTyped
<1>5. /\ status' \in [Files -> Active \cup Outcomes]
      /\ \A f \in Files : status[f] # "none" => status'[f] # "none"
  BY DEF Cancels, Outcomes
<1> QED BY <1>4, <1>5 DEF Cancels, dialogVars

\* A coroutine moves or returns.
LEMMA ChatCoroutineIsTyped ==
    ASSUME ChatTyped, TransferTypeOK', NEW f \in Files, CoroutineStep(f)
    PROVE  ChatTyped'
<1>1. CASE UploadTravels(f)
  BY <1>1 DEF UploadTravels, ChatTyped, ChatUploadTypeOK, dialogVars, popupVars, batchVars, chatListVars
<1>2. CASE UploadCompletes(f)
  <2>1. /\ status' \in [Files -> Active \cup Outcomes]
        /\ \A g \in Files : status'[g] # "none" <=> status[g] # "none"
    BY <1>2, StatusStaysTyped DEF UploadCompletes, Active, Outcomes
  <2> QED BY <1>2, <2>1 DEF UploadCompletes, ChatTyped, ChatUploadTypeOK, dialogVars, popupVars, batchVars
<1>3. CASE UploadReturns(f)
  <2>1. PICK o \in Outcomes \ {"none"} :
            /\ Return(f, o)
            /\ UpdateUploadingFileStatus(f, o) \/ UNCHANGED status
    BY <1>3, OutcomesAreOutcomes DEF UploadReturns, AfterAbort, Outcomes
  <2>2. ReturnedFiles([g \in {f} |-> o])
    BY OneReturned
  <2>3. /\ result' \in [Files -> Outcomes]
        /\ batch' \subseteq uploaded
        /\ controllers' \subseteq Files /\ cancelledIds' \subseteq Files /\ results' \subseteq Files
        /\ isUploading' \in BOOLEAN /\ timers' \in Nat /\ published' \in [Files -> Nat]
    <3> DEFINE c == controllers \ {f}
    <3>1. c \in SUBSET Files /\ cancelledIds \in SUBSET Files /\ isUploading \in BOOLEAN
      BY DEF ChatTyped, ChatUploadTypeOK
    <3>2. Returns([g \in {f} |-> o], c, cancelledIds, isUploading)
      BY <2>1 DEF Return
    <3> HIDE DEF c
    <3> QED BY <2>2, <3>1, <3>2, ReturnsAreTyped
  <2>4. /\ status' \in [Files -> Active \cup Outcomes]
        /\ \A g \in Files : status'[g] # "none" <=> status[g] # "none"
    BY <2>1, StatusStaysTyped DEF ChatTyped, ChatUploadTypeOK
  <2> QED BY <1>3, <2>3, <2>4 DEF UploadReturns, ChatTyped, ChatUploadTypeOK, dialogVars
<1>4. CASE RetryReturns(f)
  <2>1. PICK o \in {"success", "cancelled", "error"} : UpdateUploadingFileStatus(f, o)
    BY <1>4 DEF RetryReturns
  <2>2. /\ status' \in [Files -> Active \cup Outcomes]
        /\ \A g \in Files : status'[g] # "none" <=> status[g] # "none"
    BY <2>1, StatusStaysTyped DEF Outcomes
  <2>3. published' \in [Files -> Nat]
    BY <1>4 DEF RetryReturns, PublishSuccessfulUploads, ChatTyped, ChatUploadTypeOK
  <2> QED BY <1>4, <2>2, <2>3 DEF RetryReturns, RetryEnds, ChatTyped, ChatUploadTypeOK, dialogVars, popupVars
<1> QED BY <1>1, <1>2, <1>3, <1>4 DEF CoroutineStep

\* Cancel requests are made for files that are listed.
LEMMA ChatCancelsFiles ==
    ASSUME ChatTyped, [ChatUploadNext]_chatUploadVars
    PROVE  cancelling' \subseteq Files
<1> USE DEF ChatTyped, ChatUploadTypeOK, TransferTypeOK
<1>1. CASE ChatUserStep
  <2> USE DEF transferVars, afterDialogVars
  <2>1. CASE TriggerUpload \/ OpenDialogWithFiles \/ ProcessNewFiles \/ HandleRemoveFile
    BY <2>1 DEF TriggerUpload, OpenDialogWithFiles, ProcessNewFiles, HandleRemoveFile
  <2>2. CASE HandleUploadFilenameChange \/ HandleDialogClose \/ HandleClosePopup \/ ProcessFilesParallel
    BY <2>2 DEF HandleUploadFilenameChange, HandleDialogClose, HandleClosePopup, ProcessFilesParallel
  <2>3. ASSUME NEW f \in Files, HandleRetryUpload(f) PROVE cancelling' \subseteq Files
    BY <2>3 DEF HandleRetryUpload
  <2>4. ASSUME NEW fs \in SUBSET Files, NEW ctrl, Cancels(fs, ctrl) PROVE cancelling' \subseteq Files
    BY <2>4 DEF Cancels, CancelJobs
  <2> QED BY <1>1, <2>1, <2>2, <2>3, <2>4
          DEF ChatUserStep, HandleCancelSingleUpload, HandleCancelAllUploads
<1>2. CASE ChatServerStep
  BY <1>2 DEF ChatServerStep, ServerStep, JobEnds, CancelArrives, CancelIsLost
<1>3. CASE BatchTimer
  BY <1>3 DEF BatchTimer, transferVars
<1>4. ASSUME NEW f \in Files, CoroutineStep(f) PROVE cancelling' \subseteq Files
  BY <1>4 DEF CoroutineStep, UploadTravels, UploadCompletes, UploadReturns, RetryReturns, Travels,
         UrlAnswered, ChunkStored, ChunkAttemptFails, BackoffEnds, WakesUp, PollSaysActive, SleepEnds,
         RetryAccepted, CompleteAnswered, TransferFails, PollSaysEnded, WakesUpAborted
<1>5. CASE UNCHANGED chatUploadVars
  BY <1>5 DEF chatUploadVars, transferVars
<1> QED BY <1>1, <1>2, <1>3, <1>4, <1>5 DEF ChatUploadNext

\* Every step keeps the types.
LEMMA ChatStaysTyped == ChatTyped /\ [ChatUploadNext]_chatUploadVars => ChatTyped'
<1> SUFFICES ASSUME ChatTyped, [ChatUploadNext]_chatUploadVars PROVE ChatTyped'
  OBVIOUS
<1>1. TransferTypeOK'
  BY ChatMovesTransfers, ChatCancelsFiles, TransfersStayTyped DEF ChatTyped, ChatUploadTypeOK
<1>2. CASE ChatUserStep
  <2>1. ASSUME NEW f \in Files, HandleCancelSingleUpload(f) PROVE ChatTyped'
    BY <1>1, <2>1, ChatCancelIsTyped DEF HandleCancelSingleUpload
  <2>2. ASSUME HandleCancelAllUploads PROVE ChatTyped'
    BY <1>1, <2>2, ChatCancelIsTyped DEF HandleCancelAllUploads, ChatTyped, ChatUploadTypeOK
  <2> QED BY <1>1, <1>2, <2>1, <2>2, ChatDialogIsTyped, ChatBatchIsTyped, ChatPopupIsTyped,
             ChatRetryIsTyped DEF ChatUserStep
<1>3. CASE ChatServerStep
  BY <1>1, <1>3 DEF ChatServerStep, ChatTyped, ChatUploadTypeOK, dialogVars, popupVars, batchVars,
                    chatListVars
<1>4. CASE BatchTimer
  BY <1>1, <1>4, ChatPopupIsTyped
<1>5. ASSUME NEW f \in Files, CoroutineStep(f) PROVE ChatTyped'
  BY <1>1, <1>5, ChatCoroutineIsTyped
<1>6. CASE UNCHANGED chatUploadVars
  BY <1>1, <1>6 DEF chatUploadVars, ChatTyped, ChatUploadTypeOK, dialogVars, popupVars, batchVars,
                    chatListVars
<1> QED BY <1>2, <1>3, <1>4, <1>5, <1>6 DEF ChatUploadNext

-----------------------------------------------------------------------------
(* The chat: what is known of each file, and who keeps it.                 *)

\* An aborted coroutine that has slept through the abort.
Dozing(f) == at[f] = "backoff" /\ aborted[f]

\* A published file has a completed job and nothing that could publish it again.
PublicationInv(f) ==
    /\ published[f] <= 1
    /\ published[f] = 1 => /\ job[f] = "completed" /\ at[f] = "idle" /\ status[f] # "error"
                           /\ f \in uploaded
                           /\ f \in batch => result[f] \notin {"none", "success"}

\* Nor has one that its batch will publish.
SuccessInv(f) ==
    f \in batch /\ result[f] = "success" => job[f] = "completed" /\ at[f] = "idle" /\ status[f] # "error"

\* Only a file whose coroutine has ended is shown as failed: only such a file is retried.
ErrorInv(f) == status[f] = "error" => at[f] = "idle" /\ ~Main(f)

ListedInv(f) == status[f] # "none" \/ at[f] # "idle" => f \in uploaded

\* A coroutine of the batch can be aborted, or was and has to wake up.
MainInv(f) ==
    Main(f) => /\ at[f] # "idle"
               /\ f \in controllers \/ Dozing(f)
               /\ status[f] = "cancelled" => Dozing(f)

FileInv(f) == PublicationInv(f) /\ SuccessInv(f) /\ ErrorInv(f) /\ ListedInv(f) /\ MainInv(f)

ChatInv == ChatTyped /\ \A f \in Files : FileInv(f)

\* Nothing is known of a file at first.
LEMMA ChatStartsSound == ChatUploadInit => ChatInv
<1> SUFFICES ASSUME ChatUploadInit PROVE ChatInv
  OBVIOUS
<1>1. ASSUME NEW f \in Files PROVE FileInv(f)
  BY DEF ChatUploadInit, TransferInit, FileInv, PublicationInv, SuccessInv, ErrorInv, ListedInv, MainInv, Main
<1> QED BY <1>1, ChatStartsTyped DEF ChatInv

\* A file that a step does not touch; its job may change on the server.
Untouched(f) ==
    /\ at'[f] = at[f] /\ aborted'[f] = aborted[f]
    /\ job[f] = "completed" => job'[f] = "completed"
    /\ status'[f] = status[f] /\ result'[f] = result[f] /\ published'[f] = published[f]
    /\ f \in batch' <=> f \in batch
    /\ f \in controllers => f \in controllers'
    /\ f \in uploaded => f \in uploaded'

\* What is known of a file is still true when nothing of it changes.
LEMMA UntouchedFilesAreSound ==
    ASSUME NEW f \in Files, FileInv(f), Untouched(f)
    PROVE  FileInv(f)'
BY DEF FileInv, PublicationInv, SuccessInv, ErrorInv, ListedInv, MainInv, Main, Dozing, Untouched

\* Files of a batch return: each of them, and the files that the end of the batch
\* publishes with them.
LEMMA ReturnsAreSound ==
    ASSUME ChatInv, NEW out, ReturnedFiles(out), \A g \in DOMAIN out : Main(g),
           NEW ctrl, NEW ids, NEW up, Returns(out, ctrl, ids, up), uploaded' = uploaded,
           NEW f \in Files,
           job[f] = "completed" => job'[f] = "completed",
           at[f] = "idle" => at'[f] = "idle",
           status'[f] # "none" => status[f] # "none",
           f \in DOMAIN out =>
               /\ at'[f] = "idle"
               /\ out[f] = "success" => job'[f] = "completed" /\ status'[f] # "error",
           f \notin DOMAIN out =>
               /\ status'[f] = "error" => status[f] = "error"
               /\ Main(f) => /\ at'[f] # "idle" /\ (f \in ctrl \/ Dozing(f)')
                             /\ status'[f] = "cancelled" => Dozing(f)'
    PROVE  FileInv(f)'
<1> USE DEF ChatInv, ChatTyped, ChatUploadTypeOK
<1> FileInv(f)
  OBVIOUS
<1>1. result' = NewResult(out) /\ result'[f] = IF f \in DOMAIN out THEN out[f] ELSE result[f]
  BY DEF Returns, NewResult
<1>2. f \in DOMAIN out => f \in batch /\ result[f] = "none" /\ result'[f] # "none" /\ f \in uploaded
  BY <1>1 DEF ReturnedFiles, Main
<1>3. status'[f] = "error" => at'[f] = "idle" /\ (f \in batch => result'[f] # "none")
  BY <1>1, <1>2 DEF FileInv, ErrorInv, Main
<1>4. result'[f] = "success" /\ f \in batch =>
          job'[f] = "completed" /\ at'[f] = "idle" /\ status'[f] # "error" /\ published[f] = 0
  BY <1>1, <1>2 DEF FileInv, SuccessInv, PublicationInv
<1>5. published[f] = 1 =>
          /\ job'[f] = "completed" /\ at'[f] = "idle" /\ status'[f] # "error" /\ f \in uploaded
          /\ f \in batch => result'[f] \notin {"none", "success"}
  BY <1>1, <1>2 DEF FileInv, PublicationInv
<1>6. published[f] \in {0, 1}
  BY DEF FileInv, PublicationInv
<1>7. ListedInv(f)'
  BY DEF FileInv, ListedInv
<1>8. CASE BatchOver(out)
  <2>1. BatchEnds(out)
    BY <1>8 DEF Returns
  <2>2. batch' = {} /\ published'[f] = IF f \in batch /\ result'[f] = "success" THEN published[f] + 1 ELSE published[f]
    BY <2>1, <1>1 DEF BatchEnds, PublishSuccessfulUploads, Successes
  <2>3. PublicationInv(f)'
    BY <2>2, <1>4, <1>5, <1>6 DEF PublicationInv
  <2> QED BY <2>2, <2>3, <1>3, <1>7 DEF FileInv, SuccessInv, ErrorInv, MainInv, Main
<1>9. CASE ~BatchOver(out)
  <2>1. batch' = batch /\ published' = published /\ controllers' = ctrl
    BY <1>9 DEF Returns
  <2>2. PublicationInv(f)'
    BY <2>1, <1>5, <1>6 DEF PublicationInv
  <2>3. SuccessInv(f)' /\ ErrorInv(f)'
    BY <2>1, <1>3, <1>4 DEF SuccessInv, ErrorInv, Main
  <2>4. MainInv(f)'
    BY <2>1, <1>1, <1>2 DEF FileInv, MainInv, Main
  <2> QED BY <2>2, <2>3, <2>4, <1>7 DEF FileInv
<1> QED BY <1>8, <1>9

\* The dialog and the timers leave the files of a batch alone; new files are in no batch.
LEMMA ChatDialogIsSound ==
    ASSUME ChatInv, NEW f \in Files,
           \/ TriggerUpload \/ OpenDialogWithFiles \/ ProcessNewFiles \/ HandleRemoveFile
           \/ HandleUploadFilenameChange \/ HandleDialogClose \/ BatchTimer
           \/ UNCHANGED chatUploadVars
    PROVE  FileInv(f)'
<1>1. Untouched(f)
  BY DEF Untouched, TriggerUpload, OpenDialogWithFiles, ProcessNewFiles, HandleRemoveFile,
         HandleUploadFilenameChange, HandleDialogClose, BatchTimer, chatUploadVars, afterDialogVars,
         transferVars, progressVars, serverVars, batchVars, chatListVars
<1> QED BY <1>1, UntouchedFilesAreSound DEF ChatInv

\* The files of a new batch were never uploaded before.
LEMMA ChatBatchIsSound ==
    ASSUME ChatInv, ProcessFilesParallel, NEW f \in Files
    PROVE  FileInv(f)'
<1> USE DEF ChatInv, ChatTyped, ChatUploadTypeOK, TransferTypeOK
<1>1. /\ batch = {} /\ batch' = dialog /\ result'[f] = "none" /\ published' = published /\ job' = job
      /\ uploaded' = uploaded \cup dialog /\ controllers' = controllers \cup dialog
      /\ status'[f] = IF f \in dialog THEN "uploading" ELSE "none"
      /\ at'[f] = IF f \in dialog THEN "url" ELSE at[f]
  BY DEF ProcessFilesParallel, Start, serverVars
<1>2. f \in dialog => f \notin uploaded /\ published[f] # 1
  BY DEF FileInv, PublicationInv
<1> QED BY <1>1, <1>2 DEF FileInv, PublicationInv, SuccessInv, ErrorInv, ListedInv, MainInv, Main

\* A retry starts the coroutine of a file that has none.
LEMMA ChatRetryIsSound ==
    ASSUME ChatInv, NEW g \in Files, HandleRetryUpload(g), NEW f \in Files
    PROVE  FileInv(f)'
<1> USE DEF ChatInv, ChatTyped, ChatUploadTypeOK, TransferTypeOK
<1>1. /\ status[g] = "error" /\ UNCHANGED <<batch, result, published, job, uploaded>>
      /\ controllers' = controllers \cup {g}
      /\ status' = [status EXCEPT ![g] = IF @ = "none" THEN @ ELSE "processing"]
      /\ \A h \in Files : /\ at'[h] = IF h = g THEN "retry" ELSE at[h]
                          /\ aborted'[h] = (aborted[h] /\ h # g)
  BY DEF HandleRetryUpload, RetryOffered, UpdateUploadingFileStatus, Start, serverVars
<1>2. CASE f = g
  BY <1>1, <1>2 DEF FileInv, PublicationInv, SuccessInv, ErrorInv, ListedInv, MainInv, Main
<1>3. CASE f # g
  <2>1. Untouched(f)
    BY <1>1, <1>3 DEF Untouched
  <2> QED BY <2>1, UntouchedFilesAreSound
<1> QED BY <1>2, <1>3

\* The popup forgets its files, whatever runs for them.
LEMMA ChatCloseIsSound ==
    ASSUME ChatInv, HandleClosePopup, NEW f \in Files
    PROVE  FileInv(f)'
BY DEF ChatInv, HandleClosePopup, transferVars, progressVars, serverVars, batchVars,
       FileInv, PublicationInv, SuccessInv, ErrorInv, ListedInv, MainInv, Main, Dozing

\* What an abort leaves of a coroutine.
LEMMA ChatCancelIsSound ==
    ASSUME ChatInv, TransferMoves, NEW fs \in SUBSET Files, NEW ctrl,
           \A g \in fs : status[g] \in Active /\ (g \in controllers => g \in ctrl),
           ctrl \subseteq controllers, Cancels(fs, ctrl), NEW f \in Files
    PROVE  FileInv(f)'
<1> USE DEF ChatInv, ChatTyped, ChatUploadTypeOK, TransferTypeOK
<1> FileInv(f)
  OBVIOUS
<1> DEFINE out == CancelledMains(ctrl)
           c == controllers \ ctrl
           i == cancelledIds \cup fs
           u == isUploading /\ \A g \in EndedBy(ctrl) : Main(g)
<1>1. Returns(out, c, i, u) /\ uploaded' = uploaded
  BY DEF Cancels
<1>2. ReturnedFiles(out) /\ DOMAIN out = {g \in EndedBy(ctrl) : Main(g)}
      /\ \A g \in DOMAIN out : out[g] = "cancelled"
  BY ManyReturned DEF EndedBy
<1>3. /\ at'[f] = IF f \in EndedBy(ctrl) THEN "idle" ELSE at[f]
      /\ aborted'[f] = (aborted[f] \/ f \in ctrl)
      /\ status'[f] = IF f \in fs THEN "cancelled" ELSE status[f]
  BY DEF Cancels, Abort
<1>4. f \in EndedBy(ctrl) <=> f \in ctrl /\ at[f] \notin {"idle", "backoff"}
  BY DEF EndedBy
<1>5. job[f] = "completed" => job'[f] = "completed"
  BY CompletedJobsStay
<1>6. f \in DOMAIN out => at'[f] = "idle" /\ out[f] # "success"
  BY <1>2, <1>3
<1>7. ASSUME f \notin DOMAIN out, Main(f)
      PROVE  /\ at'[f] # "idle" /\ (f \in c \/ Dozing(f)')
             /\ status'[f] = "cancelled" => Dozing(f)'
  <2>1. f \in ctrl => at[f] = "backoff"
    BY <1>2, <1>4, <1>7 DEF FileInv, MainInv
  <2>2. at'[f] = at[f] /\ at[f] # "idle"
    BY <1>2, <1>3, <1>7 DEF FileInv, MainInv
  <2>3. f \in ctrl => Dozing(f)'
    BY <2>1, <2>2, <1>3 DEF Dozing
  <2>4. Dozing(f) => Dozing(f)'
    BY <2>2, <1>3 DEF Dozing
  <2>5. f \in controllers \/ Dozing(f)
    BY <1>7 DEF FileInv, MainInv
  <2>6. status[f] = "cancelled" => Dozing(f)
    BY <1>7 DEF FileInv, MainInv
  <2>7. f \in fs => f \in ctrl \/ Dozing(f)
    BY <2>5
  <2> QED BY <2>2, <2>3, <2>4, <2>5, <2>6, <2>7, <1>3
<1>8. status'[f] # "none" => status[f] # "none"
  BY <1>3 DEF Active
<1>9. f \notin DOMAIN out => (status'[f] = "error" => status[f] = "error")
  BY <1>3
<1>10. \A g \in DOMAIN out : Main(g)
  BY <1>2
<1>11. at[f] = "idle" => at'[f] = "idle"
  BY <1>3
<1> HIDE DEF out, c, i, u, ChatInv
<1> QED BY <1>1, <1>2, <1>5, <1>6, <1>7, <1>8, <1>9, <1>10, <1>11, ReturnsAreSound

\* A step on the way of a coroutine.
LEMMA ChatTravelIsSound ==
    ASSUME ChatInv, TransferMoves, NEW g \in Files, UploadTravels(g) \/ UploadCompletes(g), NEW f \in Files
    PROVE  FileInv(f)'
<1> USE DEF ChatInv, ChatTyped, ChatUploadTypeOK, TransferTypeOK
<1> FileInv(f)
  OBVIOUS
<1>1. /\ \A h \in Files : h # g => at'[h] = at[h]
      /\ aborted' = aborted /\ at[g] # "idle" /\ at'[g] # "idle" /\ ~Dozing(g)
      /\ UNCHANGED <<result, published, batch, controllers, uploaded>>
  <2>1. Travels(g) \/ CompleteAnswered(g)
    BY DEF UploadTravels, UploadCompletes
  <2>2. UNCHANGED <<result, published, batch, controllers, uploaded>>
    BY DEF UploadTravels, UploadCompletes, batchVars
  <2>3. CASE ChunkStored(g)
    BY <2>2, <2>3 DEF ChunkStored, NextChunk, GoesTo, Dozing
  <2> QED BY <2>1, <2>2, <2>3 DEF Travels, UrlAnswered, ChunkAttemptFails, Retries, BackoffEnds, WakesUp,
              PollSaysActive, SleepEnds, RetryAccepted, CompleteAnswered, GoesTo, Dozing
<1>2. /\ f # g => status'[f] = status[f]
      /\ status'[f] \in {status[f], "processing"}
      /\ status[f] = "none" => status'[f] = "none"
  BY DEF UploadTravels, UploadCompletes, UpdateUploadingFileStatus, chatListVars
<1>3. job[f] = "completed" => job'[f] = "completed"
  BY CompletedJobsStay
<1>4. CASE f # g
  <2>1. Untouched(f)
    BY <1>1, <1>2, <1>3, <1>4 DEF Untouched
  <2> QED BY <2>1, UntouchedFilesAreSound
<1>5. CASE f = g
  BY <1>1, <1>2, <1>3, <1>5 DEF FileInv, PublicationInv, SuccessInv, ErrorInv, ListedInv, MainInv, Main, Dozing
<1> QED BY <1>4, <1>5

\* A coroutine of the batch returns: with success only from a completed job.
LEMMA ChatReturnIsSound ==
    ASSUME ChatInv, TransferMoves, NEW g \in Files, UploadReturns(g), NEW f \in Files
    PROVE  FileInv(f)'
<1> USE DEF ChatInv, ChatTyped, ChatUploadTypeOK, TransferTypeOK
<1> FileInv(f) /\ FileInv(g)
  OBVIOUS
<1>1. PICK o \in Outcomes \ {"none"} :
          /\ Return(g, o)
          /\ UpdateUploadingFileStatus(g, o) \/ (UNCHANGED status /\ o = "cancelled")
          /\ o = "success" => job[g] = "completed"
  <2>1. CASE PollSaysEnded(g) /\ Return(g, Outcome(g)) /\ UpdateUploadingFileStatus(g, Outcome(g))
    <3>1. Outcome(g) \in Outcomes \ {"none"}
      BY OutcomesAreOutcomes DEF Outcomes
    <3>2. Outcome(g) = "success" => job[g] = "completed"
      BY <2>1 DEF Outcome, PollSaysEnded, JobStates
    <3> QED BY <2>1, <3>1, <3>2
  <2>2. CASE Return(g, "error") /\ UpdateUploadingFileStatus(g, "error")
    BY <2>2 DEF Outcomes
  <2>3. CASE Return(g, "cancelled") /\ AfterAbort(g)
    BY <2>3 DEF Outcomes, AfterAbort
  <2> QED BY <2>1, <2>2, <2>3 DEF UploadReturns
<1>2. /\ \A h \in Files : at'[h] = IF h = g THEN "idle" ELSE at[h]
      /\ aborted' = aborted /\ uploaded' = uploaded
  BY DEF UploadReturns, PollSaysEnded, TransferFails, WakesUpAborted, WakesUp, GoesTo
<1>3. /\ \A h \in Files : h # g => status'[h] = status[h]
      /\ status'[g] \in {status[g], o}
      /\ \A h \in Files : status[h] = "none" => status'[h] = "none"
      /\ o = "success" => status'[g] # "error"
  BY <1>1 DEF UpdateUploadingFileStatus, FileInv, ErrorInv, UploadReturns
<1> DEFINE out == [h \in {g} |-> o]
           c == controllers \ {g}
<1>4. Returns(out, c, cancelledIds, isUploading) /\ ReturnedFiles(out) /\ DOMAIN out = {g} /\ out[g] = o
  BY <1>1, OneReturned DEF Return
<1>5. job[f] = "completed" => job'[f] = "completed"
  BY CompletedJobsStay
<1>6. f = g => at'[f] = "idle" /\ (o = "success" => job'[f] = "completed" /\ status'[f] # "error")
  BY <1>1, <1>2, <1>3, <1>5
<1>7. ASSUME f # g, Main(f)
      PROVE  at'[f] # "idle" /\ (f \in c \/ Dozing(f)') /\ (status'[f] = "cancelled" => Dozing(f)')
  BY <1>2, <1>3, <1>7 DEF FileInv, MainInv, Dozing
<1>8. Main(g)
  BY DEF UploadReturns
<1> HIDE DEF out, c, ChatInv
<1> QED BY <1>2, <1>3, <1>4, <1>5, <1>6, <1>7, <1>8, ReturnsAreSound

\* The coroutine of a retry returns: its file has not been published, nor will its batch
\* publish it.
LEMMA ChatRetryEndIsSound ==
    ASSUME ChatInv, TransferMoves, NEW g \in Files, RetryReturns(g), NEW f \in Files
    PROVE  FileInv(f)'
<1> USE DEF ChatInv, ChatTyped, ChatUploadTypeOK, TransferTypeOK
<1> FileInv(f) /\ FileInv(g)
  OBVIOUS
<1>1. /\ \A h \in Files : at'[h] = IF h = g THEN "idle" ELSE at[h]
      /\ aborted' = aborted /\ at[g] # "idle" /\ ~Main(g)
      /\ UNCHANGED <<batch, result, uploaded>> /\ controllers' = controllers \ {g}
  BY DEF RetryReturns, Retrying, PollSaysEnded, TransferFails, GoesTo
<1>2. /\ \A h \in Files : h # g => status'[h] = status[h] /\ published'[h] = published[h]
      /\ status[g] = "none" => status'[g] = "none"
      /\ \/ published' = published
         \/ published'[g] = published[g] + 1 /\ job[g] = "completed" /\ status'[g] # "error"
  <2>1. \/ /\ UpdateUploadingFileStatus(g, "success")
           /\ PublishSuccessfulUploads({g}) /\ job[g] = "completed"
        \/ /\ \E o \in {"cancelled", "error"} : UpdateUploadingFileStatus(g, o)
           /\ published' = published
    <3>1. CASE job[g] = "completed" /\ UpdateUploadingFileStatus(g, "success")
               /\ PublishSuccessfulUploads({g})
      BY <3>1
    <3>2. CASE /\ \E o \in {"cancelled", "error"} : UpdateUploadingFileStatus(g, o)
               /\ PublishSuccessfulUploads({}) \/ published' = published
      BY <3>2 DEF PublishSuccessfulUploads
    <3>3. job[g] = "completed" => {h \in {g} : job[h] = "completed"} = {g}
      OBVIOUS
    <3>4. job[g] # "completed" => {h \in {g} : job[h] = "completed"} = {}
      OBVIOUS
    <3> QED BY <3>1, <3>2, <3>3, <3>4 DEF RetryReturns
  <2>2. (published'[g] = published[g] + 1 /\ status'[g] # "error") \/ published' = published
    BY <2>1 DEF UpdateUploadingFileStatus, PublishSuccessfulUploads, RetryReturns
  <2> QED BY <2>1, <2>2 DEF UpdateUploadingFileStatus, PublishSuccessfulUploads
<1>3. job[f] = "completed" => job'[f] = "completed"
  BY CompletedJobsStay
<1>4. CASE f # g
  <2>1. Untouched(f)
    BY <1>1, <1>2, <1>3, <1>4 DEF Untouched
  <2> QED BY <2>1, UntouchedFilesAreSound
<1>5. CASE f = g
  <2>1. published[g] = 0 /\ (g \in batch => result[g] \notin {"none", "success"})
    BY <1>1, <1>5 DEF FileInv, PublicationInv, SuccessInv, Main
  <2>2. published'[g] \in {0, 1} /\ (published'[g] = 1 => job'[g] = "completed" /\ status'[g] # "error")
    BY <2>1, <1>2, <1>3, <1>5
  <2>3. g \in uploaded
    BY <1>1 DEF FileInv, ListedInv
  <2> QED BY <1>1, <1>2, <1>5, <2>1, <2>2, <2>3
          DEF FileInv, PublicationInv, SuccessInv, ErrorInv, ListedInv, MainInv, Main
<1> QED BY <1>4, <1>5

-----------------------------------------------------------------------------
(* The chat: what it promises.                                             *)

\* Every step keeps what is known of every file.
LEMMA ChatStaysSound == ChatInv /\ [ChatUploadNext]_chatUploadVars => ChatInv'
<1> SUFFICES ASSUME ChatInv, [ChatUploadNext]_chatUploadVars PROVE ChatInv'
  OBVIOUS
<1> USE DEF ChatInv
<1>1. ChatTyped' /\ TransferMoves
  BY ChatStaysTyped, ChatMovesTransfers
<1>2. ASSUME NEW f \in Files PROVE FileInv(f)'
  <2>1. CASE ChatUserStep
    <3>1. ASSUME NEW g \in Files, HandleCancelSingleUpload(g) PROVE FileInv(f)'
      <4>1. Cancels({g}, controllers \cap {g}) /\ status[g] \in Active
        BY <3>1 DEF HandleCancelSingleUpload, CancelOffered
      <4> QED BY <1>1, <4>1, ChatCancelIsSound
    <3>2. ASSUME HandleCancelAllUploads PROVE FileInv(f)'
      <4>1. Cancels({g \in Files : status[g] \in Active}, controllers)
        BY <3>2 DEF HandleCancelAllUploads
      <4> QED BY <1>1, <4>1, ChatCancelIsSound
    <3> QED BY <2>1, <3>1, <3>2, ChatDialogIsSound, ChatBatchIsSound, ChatRetryIsSound, ChatCloseIsSound
            DEF ChatUserStep
  <2>2. CASE ChatServerStep
    <3>1. UNCHANGED <<at, aborted, status, result, published, batch, controllers, uploaded>>
      BY <2>2 DEF ChatServerStep, ServerStep, JobEnds, CancelArrives, CancelIsLost, progressVars,
                  batchVars, chatListVars
    <3>2. Untouched(f)
      BY <1>1, <3>1, CompletedJobsStay DEF Untouched, ChatTyped, ChatUploadTypeOK
    <3> QED BY <3>2, UntouchedFilesAreSound
  <2>3. CASE BatchTimer \/ UNCHANGED chatUploadVars
    BY <2>3, ChatDialogIsSound
  <2>4. ASSUME NEW g \in Files, CoroutineStep(g) PROVE FileInv(f)'
    BY <1>1, <2>4, ChatTravelIsSound, ChatReturnIsSound, ChatRetryEndIsSound DEF CoroutineStep
  <2> QED BY <2>1, <2>2, <2>3, <2>4 DEF ChatUploadNext
<1> QED BY <1>1, <1>2

\* A cancelled file stays so: its coroutine was aborted, the one of a batch that slept
\* through the abort finds it out when it wakes up, and neither a status nor a retry of
\* another file reaches it.
LEMMA CancelledFilesStaySo ==
    ASSUME ChatInv, [ChatUploadNext]_chatUploadVars, NEW f \in Files,
           status[f] = "cancelled", ~Retrying(f)
    PROVE  status'[f] \in {"cancelled", "none"}
<1> USE DEF ChatInv, ChatTyped, ChatUploadTypeOK, TransferTypeOK
<1>1. FileInv(f) /\ f \in uploaded /\ (at[f] # "idle" => Main(f) /\ Dozing(f))
  BY DEF FileInv, ListedInv, MainInv, Retrying
<1>2. CASE ChatUserStep
  <2>1. CASE TriggerUpload \/ OpenDialogWithFiles \/ ProcessNewFiles \/ HandleRemoveFile
             \/ HandleUploadFilenameChange \/ HandleDialogClose
    BY <2>1 DEF TriggerUpload, OpenDialogWithFiles, ProcessNewFiles, HandleRemoveFile,
                HandleUploadFilenameChange, HandleDialogClose, afterDialogVars, chatListVars
  <2>2. CASE ProcessFilesParallel
    BY <1>1, <2>2 DEF ProcessFilesParallel
  <2>3. ASSUME NEW g \in Files, HandleRetryUpload(g) PROVE status'[f] = "cancelled"
    BY <2>3 DEF HandleRetryUpload, RetryOffered, UpdateUploadingFileStatus
  <2>4. ASSUME NEW fs, NEW ctrl, Cancels(fs, ctrl) PROVE status'[f] = "cancelled"
    BY <2>4 DEF Cancels
  <2>5. CASE HandleClosePopup
    BY <2>5 DEF HandleClosePopup
  <2> QED BY <1>2, <2>1, <2>2, <2>3, <2>4, <2>5
          DEF ChatUserStep, HandleCancelSingleUpload, HandleCancelAllUploads
<1>3. CASE ChatServerStep \/ BatchTimer \/ UNCHANGED chatUploadVars
  BY <1>3 DEF ChatServerStep, BatchTimer, chatUploadVars, chatListVars
<1>4. ASSUME NEW g \in Files, CoroutineStep(g) PROVE status'[f] = "cancelled"
  <2>1. CASE g # f
    <3>1. UNCHANGED status \/ \E s : UpdateUploadingFileStatus(g, s)
      BY <1>4 DEF CoroutineStep, UploadTravels, UploadCompletes, UploadReturns, RetryReturns, AfterAbort,
                  chatListVars
    <3> QED BY <2>1, <3>1 DEF UpdateUploadingFileStatus
  <2>2. CASE g = f
    <3>1. CASE UploadTravels(f)
      BY <3>1 DEF UploadTravels, chatListVars
    <3>2. ~UploadCompletes(f) /\ ~RetryReturns(f)
      BY <1>1 DEF UploadCompletes, CompleteAnswered, RetryReturns, Dozing
    <3>3. CASE UploadReturns(f)
      BY <1>1, <3>3 DEF UploadReturns, PollSaysEnded, TransferFails, Requests, AfterAbort, Dozing
    <3> QED BY <1>4, <2>2, <3>1, <3>2, <3>3 DEF CoroutineStep
  <2> QED BY <2>1, <2>2
<1> QED BY <1>2, <1>3, <1>4 DEF ChatUploadNext

\* The chat publishes a file once at most, and only when its job has completed, however its
\* batch, its retries, cancels and the closing of the popup follow each other.
THEOREM ChatPublishesOnce == ChatUploadSpec => []PublishedOnceCompleted
<1>1. ChatInv => PublishedOnceCompleted
  BY DEF ChatInv, FileInv, PublicationInv, PublishedOnceCompleted
<1> QED BY <1>1, ChatStartsSound, ChatStaysSound, PTL DEF ChatUploadSpec

\* No late answer takes a cancelled file of the chat for anything else.
THEOREM ChatCancelsForGood == ChatUploadSpec => CancelledStaysCancelled
<1>1. ChatInv /\ [ChatUploadNext]_chatUploadVars =>
          [\A f \in Files : status[f] = "cancelled" /\ ~Retrying(f)
                                => status'[f] \in {"cancelled", "none"}]_chatUploadVars
  BY CancelledFilesStaySo
<1> QED BY <1>1, ChatStartsSound, ChatStaysSound, PTL DEF ChatUploadSpec, CancelledStaysCancelled

-----------------------------------------------------------------------------
(* The Video Management tab: sequences of files, each once.                *)

\* The order of a batch of files: each once.
LEMMA FilesInAnOrder ==
    ASSUME ParallelConstant, NEW fs \in SUBSET Files
    PROVE  /\ SetToSeq(fs) \in Seq(fs)
           /\ IsInjective(SetToSeq(fs))
           /\ ToSet(SetToSeq(fs)) \subseteq fs
<1>1. IsFiniteSet(fs)
  BY FS_Subset DEF ParallelConstant
<1>2. Cardinality(fs) \in Nat /\ ExistsBijection(1 .. Cardinality(fs), fs)
  BY <1>1, FS_CardinalityType
<1>3. \E f \in [1 .. Cardinality(fs) -> fs] : IsInjective(f)
  BY <1>2 DEF ExistsBijection, Bijection, Injection
<1>4. SetToSeq(fs) \in [1 .. Cardinality(fs) -> fs] /\ IsInjective(SetToSeq(fs))
  BY <1>3 DEF SetToSeq
<1> QED BY <1>2, <1>4 DEF ToSet

\* A batch is the head of what waits; the rest goes on waiting.
LEMMA BatchesSplit ==
    ASSUME NEW s \in Seq(Files), IsInjective(s)
    PROVE  LET b == {s[i] : i \in 1 .. BatchSize(s)}
               r == SubSeq(s, BatchSize(s) + 1, Len(s))
           IN  /\ b \subseteq ToSet(s) /\ b \subseteq Files
               /\ IsFiniteSet(b) /\ Cardinality(b) <= Parallel
               /\ r \in Seq(Files) /\ IsInjective(r)
               /\ ToSet(r) \subseteq ToSet(s) /\ ToSet(r) \cap b = {}
<1> DEFINE k == BatchSize(s)
           b == {s[i] : i \in 1 .. k}
           r == SubSeq(s, k + 1, Len(s))
<1>1. k \in Nat /\ k <= Len(s) /\ k <= Parallel
  BY ParallelConstant DEF BatchSize
<1>2. b \subseteq ToSet(s) /\ b \subseteq Files
  BY <1>1 DEF ToSet
<1>3. IsFiniteSet(b) /\ Cardinality(b) <= Parallel
  <2> DEFINE g == [i \in 1 .. k |-> s[i]]
  <2>1. g \in Surjection(1 .. k, b)
    BY DEF Surjection
  <2>2. IsFiniteSet(1 .. k) /\ Cardinality(1 .. k) = k
    BY <1>1, FS_Interval
  <2>3. IsFiniteSet(b) /\ Cardinality(b) <= k
    BY <2>1, <2>2, FS_Surjection
  <2>4. Cardinality(b) \in Nat
    BY <2>3, FS_CardinalityType
  <2> QED BY <2>3, <2>4, <1>1, ParallelConstant
<1>4. /\ r \in Seq(Files) /\ Len(r) = Len(s) - k
      /\ \A i \in 1 .. Len(r) : r[i] = s[k + i]
  BY <1>1, SubSeqProperties
<1>a. \A i, j \in 1 .. Len(s) : s[i] = s[j] => i = j
  BY DEF IsInjective
<1>b. \A i \in 1 .. Len(r) : k + i \in 1 .. Len(s)
  BY <1>1, <1>4
<1>c. \A f \in ToSet(r) : \E i \in 1 .. Len(r) : f = s[k + i]
  BY <1>4 DEF ToSet
<1> HIDE DEF r, k
<1>5. IsInjective(r)
  <2> SUFFICES ASSUME NEW i \in 1 .. Len(r), NEW j \in 1 .. Len(r), r[i] = r[j] PROVE i = j
    BY <1>4 DEF IsInjective
  <2>1. k + i = k + j
    BY <1>4, <1>a, <1>b
  <2> QED BY <2>1, <1>1
<1>6. ToSet(r) \subseteq ToSet(s)
  BY <1>b, <1>c DEF ToSet
<1>7. ASSUME NEW f \in ToSet(r), f \in b PROVE FALSE
  <2>1. PICK i \in 1 .. Len(r) : f = s[k + i]
    BY <1>c
  <2>2. PICK j \in 1 .. k : f = s[j]
    BY <1>7
  <2>3. k + i = j
    <3>1. k + i \in 1 .. Len(s) /\ j \in 1 .. Len(s)
      BY <1>1, <1>b
    <3>2. s[k + i] = s[j]
      BY <2>1, <2>2
    <3> QED BY <3>1, <3>2, <1>a
  <2>4. i >= 1 /\ j <= k
    BY <2>1, <2>2
  <2> QED BY <2>3, <2>4, <1>1
<1> QED BY <1>2, <1>3, <1>4, <1>5, <1>6, <1>7 DEF r, k

\* A queue that grows by new files holds each of its files once.
LEMMA QueuesGrow ==
    ASSUME NEW s \in Seq(Files), NEW t \in Seq(Files), IsInjective(s), IsInjective(t),
           ToSet(s) \cap ToSet(t) = {}
    PROVE  /\ s \o t \in Seq(Files) /\ IsInjective(s \o t)
           /\ ToSet(s \o t) = ToSet(s) \cup ToSet(t)
<1>1. /\ s \o t \in Seq(Files) /\ Len(s \o t) = Len(s) + Len(t)
      /\ \A i \in 1 .. Len(s) + Len(t) : (s \o t)[i] = IF i <= Len(s) THEN s[i] ELSE t[i - Len(s)]
  BY ConcatProperties
<1>2. ToSet(s) \cup ToSet(t) \subseteq ToSet(s \o t)
  <2>1. ASSUME NEW i \in 1 .. Len(s) PROVE s[i] \in ToSet(s \o t)
    BY <1>1 DEF ToSet
  <2>2. ASSUME NEW i \in 1 .. Len(t) PROVE t[i] \in ToSet(s \o t)
    <3>1. Len(s) + i \in 1 .. Len(s) + Len(t) /\ ~(Len(s) + i <= Len(s)) /\ Len(s) + i - Len(s) = i
      OBVIOUS
    <3>2. (s \o t)[Len(s) + i] = t[i]
      BY <1>1, <3>1
    <3> QED BY <1>1, <3>1, <3>2 DEF ToSet
  <2>3. \A f \in ToSet(s) \cup ToSet(t) :
            (\E i \in 1 .. Len(s) : f = s[i]) \/ (\E i \in 1 .. Len(t) : f = t[i])
    BY DEF ToSet
  <2> QED BY <2>1, <2>2, <2>3
<1>3. ToSet(s \o t) \subseteq ToSet(s) \cup ToSet(t)
  <2>1. ASSUME NEW i \in 1 .. Len(s) + Len(t) PROVE (s \o t)[i] \in ToSet(s) \cup ToSet(t)
    <3>1. CASE i <= Len(s)
      BY <1>1, <3>1 DEF ToSet
    <3>2. CASE ~(i <= Len(s))
      <4>1. i - Len(s) \in 1 .. Len(t)
        BY <3>2
      <4> QED BY <1>1, <3>2, <4>1 DEF ToSet
    <3> QED BY <3>1, <3>2
  <2> QED BY <1>1, <2>1 DEF ToSet
<1>4. ASSUME NEW i \in 1 .. Len(s) + Len(t), NEW j \in 1 .. Len(s) + Len(t), (s \o t)[i] = (s \o t)[j]
      PROVE  i = j
  <2>1. CASE i <= Len(s) /\ j <= Len(s)
    BY <1>1, <1>4, <2>1 DEF IsInjective
  <2>2. CASE ~(i <= Len(s)) /\ ~(j <= Len(s))
    <3>1. i - Len(s) \in 1 .. Len(t) /\ j - Len(s) \in 1 .. Len(t)
      BY <2>2
    <3>2. t[i - Len(s)] = t[j - Len(s)]
      BY <1>1, <1>4, <2>2
    <3>3. i - Len(s) = j - Len(s)
      BY <3>1, <3>2 DEF IsInjective
    <3> QED BY <3>3
  <2>3. ASSUME NEW p \in 1 .. Len(s), NEW q \in 1 .. Len(s) + Len(t), ~(q <= Len(s)),
               (s \o t)[p] = (s \o t)[q]
        PROVE  FALSE
    <3>1. q - Len(s) \in 1 .. Len(t)
      BY <2>3
    <3>2. s[p] = t[q - Len(s)]
      BY <1>1, <2>3
    <3> QED BY <3>1, <3>2 DEF ToSet
  <2>4. i \in 1 .. Len(s) \/ ~(i <= Len(s))
    OBVIOUS
  <2>5. j \in 1 .. Len(s) \/ ~(j <= Len(s))
    OBVIOUS
  <2> QED BY <1>4, <2>1, <2>2, <2>3, <2>4, <2>5
<1> QED BY <1>1, <1>2, <1>3, <1>4 DEF IsInjective

-----------------------------------------------------------------------------
(* The Video Management tab: the invariant and the types.                  *)

WaitingFiles == ToSet(entriesToProcess) \cup ToSet(pendingFilesQueue)

\* What waits is there once; a batch keeps to its limit; only the loop has a batch.
LoopInv ==
    /\ IsInjective(entriesToProcess) /\ IsInjective(pendingFilesQueue)
    /\ ToSet(entriesToProcess) \cap ToSet(pendingFilesQueue) = {}
    /\ IsFiniteSet(inBatch) /\ Cardinality(inBatch) <= Parallel
    /\ isUploadingNow \/ (inBatch = {} /\ entriesToProcess = <<>>)
    /\ isUploadingNow => isUploadingRef
    /\ selectedFiles \cap started = {}

\* A file that waits was never started, whatever the panel shows of it.
WaitingInv(f) ==
    f \in WaitingFiles => /\ at[f] = "idle" /\ f \in started /\ uploadProgress[f] \in {"pending", "none"}
                          /\ f \notin inBatch /\ f \notin retryControllers

\* A coroutine belongs to the batch of the session, to a retry or was aborted in its sleep.
OwnerInv(f) ==
    /\ f \in inBatch => /\ f \in session /\ f \notin retryControllers /\ at[f] \notin {"idle", "retry"}
                        /\ \/ uploadProgress[f] \in {"processing", "none"}
                           \/ uploadProgress[f] = "uploading" /\ at[f] \in {"url", "chunk", "backoff"}
    /\ f \in retryControllers => /\ at[f] \in {"retry", "poll", "sleep"}
                                 /\ uploadProgress[f] \in {"processing", "none"}
    /\ at[f] # "idle" => \/ f \in inBatch \/ f \in retryControllers
                         \/ f \notin session /\ Dozing(f) /\ uploadProgress[f] \in {"cancelled", "none"}

\* What the panel shows of files whose coroutines were ended, or have.
ShownInv(f) ==
    /\ uploadProgress[f] = "cancelled" => (at[f] = "idle" \/ Dozing(f)) /\ f \notin retryControllers
    /\ uploadProgress[f] = "error" => at[f] = "idle" /\ f \notin retryControllers
    /\ at[f] # "idle" \/ uploadProgress[f] # "none" \/ f \in session \/ f \in unseen => f \in started

\* A completed upload that the panel shows is fetched by the loop that knows of it.
UnseenInv(f) ==
    f \in unseen => \/ uploadProgress[f] = "none"
                    \/ uploadProgress[f] = "success" /\ isUploadingNow /\ completedAny

VideoFileInv(f) == WaitingInv(f) /\ OwnerInv(f) /\ ShownInv(f) /\ UnseenInv(f)

VideoInv == VideoUploadsTypeOK /\ LoopInv /\ \A f \in Files : VideoFileInv(f)

\* Nothing waits, runs or is shown at first.
LEMMA VideosStartSound == VideoUploadsInit => VideoInv
<1> SUFFICES ASSUME VideoUploadsInit PROVE VideoInv
  OBVIOUS
<1>1. TransferTypeOK
  BY TransferConstants DEF VideoUploadsInit, TransferInit, TransferTypeOK, Waits, JobStates
<1>2. /\ {session, inBatch, retryControllers, uploadJobs, unseen} \subseteq SUBSET Files
      /\ {isUploadingNow, isUploadingRef, completedAny} \subseteq BOOLEAN
  BY DEF VideoUploadsInit
<1>3. VideoUploadsTypeOK
  BY <1>1, <1>2 DEF VideoUploadsInit, VideoUploadsTypeOK
<1>4. IsFiniteSet({}) /\ Cardinality({}) = 0 /\ IsInjective(<<>>)
  BY FS_EmptySet DEF IsInjective
<1>5. LoopInv
  BY <1>4, ParallelConstant DEF VideoUploadsInit, LoopInv, ToSet
<1>6. WaitingFiles = {}
  BY DEF VideoUploadsInit, WaitingFiles, ToSet
<1>7. ASSUME NEW f \in Files PROVE VideoFileInv(f)
  BY <1>6 DEF VideoUploadsInit, TransferInit, VideoFileInv, WaitingInv, OwnerInv, ShownInv, UnseenInv
<1> QED BY <1>3, <1>5, <1>7 DEF VideoInv

-----------------------------------------------------------------------------
(* Types.                                                                    *)

\* Cancel requests are sent for files.
LEMMA VideoCancelsFiles ==
    ASSUME VideoUploadsTypeOK, [VideoUploadsNext]_videoUploadVars
    PROVE  cancelling' \subseteq Files
<1> USE DEF VideoUploadsTypeOK, TransferTypeOK
<1>1. CASE VideoUserStep
  <2> USE DEF transferVars
  <2>1. CASE FilesSelected \/ RemoveFile \/ CloseUploadDialog \/ HandleClearUploadProgress
    BY <2>1 DEF FilesSelected, RemoveFile, CloseUploadDialog, HandleClearUploadProgress
  <2>2. CASE ConfirmQueued \/ ConfirmSession
    BY <2>2 DEF ConfirmQueued, ConfirmSession
  <2>3. CASE HandleCancelUploads
    BY <2>3 DEF HandleCancelUploads
  <2>4. ASSUME NEW f \in Files, RetryUpload(f) PROVE cancelling' \subseteq Files
    BY <2>4 DEF RetryUpload
  <2> QED BY <1>1, <2>1, <2>2, <2>3, <2>4 DEF VideoUserStep
<1>2. CASE VideoServerStep
  BY <1>2 DEF VideoServerStep, ServerStep, JobEnds, CancelArrives, CancelIsLost
<1>3. CASE RefFollows \/ LoopStep
  BY <1>3 DEF RefFollows, LoopStep, SessionEnds, NextBatch, TakeQueue, transferVars
<1>4. ASSUME NEW f \in Files, VideoStep(f) PROVE cancelling' \subseteq Files
  BY <1>4 DEF VideoStep, VideoTravels, VideoCompletes, VideoReturns, StaleReturns, VideoRetryReturns,
         Travels, UrlAnswered, ChunkStored, ChunkAttemptFails, BackoffEnds, WakesUp, PollSaysActive,
         SleepEnds, RetryAccepted, CompleteAnswered, TransferFails, PollSaysEnded, WakesUpAborted
<1>5. CASE UNCHANGED videoUploadVars
  BY <1>5 DEF videoUploadVars, transferVars
<1> QED BY <1>1, <1>2, <1>3, <1>4, <1>5 DEF VideoUploadsNext

\* The variables of this component, one by one.
VideoTyped ==
    /\ selectedFiles \subseteq Files /\ started \subseteq Files
    /\ uploadProgress \in [Files -> {"none", "pending", "uploading", "processing", "success", "error",
                                     "cancelled"}]
    /\ session \subseteq Files /\ inBatch \subseteq Files /\ retryControllers \subseteq Files
    /\ uploadJobs \subseteq Files /\ unseen \subseteq Files
    /\ isUploadingNow \in BOOLEAN /\ isUploadingRef \in BOOLEAN /\ completedAny \in BOOLEAN
    /\ entriesToProcess \in Seq(Files) /\ pendingFilesQueue \in Seq(Files)

\* The type invariant, with one conjunct for each variable.
LEMMA VideoTypes == VideoUploadsTypeOK <=> TransferTypeOK /\ VideoTyped
<1>1. {session, inBatch, retryControllers, uploadJobs, unseen} \subseteq SUBSET Files <=>
          /\ session \subseteq Files /\ inBatch \subseteq Files /\ retryControllers \subseteq Files
          /\ uploadJobs \subseteq Files /\ unseen \subseteq Files
  OBVIOUS
<1>2. {isUploadingNow, isUploadingRef, completedAny} \subseteq BOOLEAN <=>
          isUploadingNow \in BOOLEAN /\ isUploadingRef \in BOOLEAN /\ completedAny \in BOOLEAN
  OBVIOUS
<1> QED BY <1>1, <1>2 DEF VideoUploadsTypeOK, VideoTyped

\* A status that follows on another.
LEMMA FollowsIsTyped ==
    ASSUME VideoTyped, NEW f \in Files, NEW from, Follows(f, from, "processing")
           \/ Follows(f, from, "error") \/ ApplyTerminalJobStatus(f)
    PROVE  uploadProgress' \in [Files -> {"none", "pending", "uploading", "processing", "success",
                                          "error", "cancelled"}]
BY DEF VideoTyped, Follows, ApplyTerminalJobStatus

\* What the user does.
LEMMA VideoUserIsTyped ==
    ASSUME VideoTyped, LoopInv, VideoUserStep
    PROVE  VideoTyped'
<1> USE DEF VideoTyped, panelVars, loopVars
<1>1. CASE FilesSelected \/ RemoveFile \/ CloseUploadDialog
  BY <1>1 DEF FilesSelected, RemoveFile, CloseUploadDialog
<1>2. CASE ConfirmQueued
  <2>1. SetToSeq(selectedFiles) \in Seq(Files)
    BY FilesInAnOrder, ParallelConstant
  <2>2. pendingFilesQueue' \in Seq(Files)
    BY <1>2, <2>1, ConcatProperties DEF ConfirmQueued
  <2> QED BY <1>2, <2>2 DEF ConfirmQueued, Confirmed
<1>3. CASE ConfirmSession
  <2>1. SetToSeq(selectedFiles) \in Seq(Files)
    BY FilesInAnOrder, ParallelConstant
  <2> QED BY <1>3, <2>1 DEF ConfirmSession, Confirmed
<1>4. CASE HandleCancelUploads
  <2>1. /\ uploadProgress' \in [Files -> {"none", "pending", "uploading", "processing", "success", "error",
                                          "cancelled"}]
        /\ unseen' \subseteq Files
    BY <1>4 DEF HandleCancelUploads, SeenByCancel
  <2>2. entriesToProcess' = <<>> /\ pendingFilesQueue' = <<>> /\ <<>> \in Seq(Files)
    BY <1>4 DEF HandleCancelUploads
  <2> QED BY <1>4, <2>1, <2>2 DEF HandleCancelUploads
<1>5. CASE HandleClearUploadProgress
  BY <1>5 DEF HandleClearUploadProgress
<1>6. ASSUME NEW f \in Files, RetryUpload(f) PROVE VideoTyped'
  BY <1>6 DEF RetryUpload
<1> QED BY <1>1, <1>2, <1>3, <1>4, <1>5, <1>6 DEF VideoUserStep

\* What a batch makes of the files that waited.
LEMMA BatchIsTaken ==
    ASSUME VideoTyped, NEW s \in Seq(Files), IsInjective(s), StartBatch(s)
    PROVE  /\ inBatch' \subseteq ToSet(s) /\ inBatch' \subseteq Files
           /\ IsFiniteSet(inBatch') /\ Cardinality(inBatch') <= Parallel
           /\ session' = session \cup inBatch'
           /\ entriesToProcess' \in Seq(Files) /\ IsInjective(entriesToProcess')
           /\ ToSet(entriesToProcess') \subseteq ToSet(s) /\ ToSet(entriesToProcess') \cap inBatch' = {}
           /\ Start(inBatch', "url")
           /\ uploadProgress' = [f \in Files |-> IF f \in inBatch' /\ uploadProgress[f] = "pending"
                                                 THEN "uploading" ELSE uploadProgress[f]]
<1>1. /\ inBatch' = {s[i] : i \in 1 .. BatchSize(s)}
      /\ entriesToProcess' = SubSeq(s, BatchSize(s) + 1, Len(s))
      /\ session' = session \cup inBatch' /\ Start(inBatch', "url")
      /\ uploadProgress' = [f \in Files |-> IF f \in inBatch' /\ uploadProgress[f] = "pending"
                                            THEN "uploading" ELSE uploadProgress[f]]
  BY DEF StartBatch
<1>2. LET b == {s[i] : i \in 1 .. BatchSize(s)}
          r == SubSeq(s, BatchSize(s) + 1, Len(s))
      IN  /\ b \subseteq ToSet(s) /\ b \subseteq Files
          /\ IsFiniteSet(b) /\ Cardinality(b) <= Parallel
          /\ r \in Seq(Files) /\ IsInjective(r)
          /\ ToSet(r) \subseteq ToSet(s) /\ ToSet(r) \cap b = {}
  BY BatchesSplit
<1> QED BY <1>1, <1>2

\* The loop takes a batch, or ends.
LEMMA VideoLoopIsTyped ==
    ASSUME VideoTyped, LoopInv, LoopStep \/ RefFollows
    PROVE  VideoTyped'
<1> USE DEF VideoTyped, LoopInv, panelVars, loopVars
<1>1. ASSUME NEW s \in Seq(Files), IsInjective(s), StartBatch(s)
      PROVE  /\ inBatch' \subseteq Files /\ session' \subseteq Files /\ entriesToProcess' \in Seq(Files)
             /\ uploadProgress' \in [Files -> {"none", "pending", "uploading", "processing", "success",
                                               "error", "cancelled"}]
  BY <1>1, BatchIsTaken
<1>2. CASE NextBatch
  BY <1>1, <1>2 DEF NextBatch
<1>3. CASE TakeQueue
  BY <1>1, <1>3 DEF TakeQueue
<1>4. CASE SessionEnds \/ RefFollows
  BY <1>4 DEF SessionEnds, RefFollows
<1> QED BY <1>2, <1>3, <1>4 DEF LoopStep

\* A coroutine moves or returns.
LEMMA VideoStepIsTyped ==
    ASSUME VideoTyped, NEW f \in Files, VideoStep(f)
    PROVE  VideoTyped'
<1> USE DEF betweenVars, panelVars, loopVars
<1>1. CASE VideoTravels(f)
  BY <1>1, FollowsIsTyped DEF VideoTravels, VideoTyped
<1>2. CASE VideoCompletes(f)
  BY <1>2 DEF VideoCompletes, VideoTyped
<1>3. CASE VideoReturns(f)
  <2>1. completedAny' \in BOOLEAN /\ unseen' \subseteq Files
    BY <1>3 DEF VideoReturns, VideoTyped
  <2>2. \/ ApplyTerminalJobStatus(f)
        \/ Follows(f, {"pending", "uploading", "processing"}, "error")
    BY <1>3 DEF VideoReturns
  <2> QED BY <1>3, <2>1, <2>2, FollowsIsTyped DEF VideoReturns, Settles, VideoTyped
<1>4. CASE StaleReturns(f)
  BY <1>4 DEF StaleReturns, VideoTyped
<1>5. CASE VideoRetryReturns(f)
  <2>1. unseen' \subseteq Files
    BY <1>5 DEF VideoRetryReturns, VideoTyped
  <2>2. ApplyTerminalJobStatus(f) \/ Follows(f, {"processing"}, "error")
    BY <1>5 DEF VideoRetryReturns
  <2> QED BY <1>5, <2>1, <2>2, FollowsIsTyped DEF VideoRetryReturns, RetryControllerGone, VideoTyped
<1> QED BY <1>1, <1>2, <1>3, <1>4, <1>5 DEF VideoStep

\* Every step keeps the types.
LEMMA VideosStayTyped ==
    VideoUploadsTypeOK /\ LoopInv /\ [VideoUploadsNext]_videoUploadVars => VideoUploadsTypeOK'
<1> SUFFICES ASSUME VideoUploadsTypeOK, LoopInv, [VideoUploadsNext]_videoUploadVars
             PROVE  VideoUploadsTypeOK'
  OBVIOUS
<1>1. TransferTypeOK /\ VideoTyped
  BY VideoTypes
<1>2. TransferTypeOK'
  BY <1>1, VideoCancelsFiles, ManagementMovesTransfers, TransfersStayTyped
<1>3. VideoTyped'
  <2>1. CASE VideoServerStep
    BY <1>1, <2>1 DEF VideoServerStep, VideoTyped, panelVars, loopVars
  <2>2. CASE UNCHANGED videoUploadVars
    BY <1>1, <2>2 DEF videoUploadVars, VideoTyped, panelVars, loopVars
  <2> QED BY <1>1, <2>1, <2>2, VideoUserIsTyped, VideoLoopIsTyped, VideoStepIsTyped DEF VideoUploadsNext
<1> QED BY <1>2, <1>3, VideoTypes, PTL

-----------------------------------------------------------------------------
(* The Video Management tab: dialog, loop and panel.                       *)

\* A step that leaves a file alone; what is fetched is seen.
VideoUntouched(f) ==
    /\ at'[f] = at[f] /\ aborted'[f] = aborted[f] /\ uploadProgress'[f] = uploadProgress[f]
    /\ f \in inBatch' <=> f \in inBatch
    /\ f \in session' <=> f \in session
    /\ f \in retryControllers' <=> f \in retryControllers
    /\ f \in WaitingFiles' => f \in WaitingFiles
    /\ f \in started => f \in started'
    /\ f \in unseen' => f \in unseen
    /\ f \in unseen' /\ isUploadingNow /\ completedAny => isUploadingNow' /\ completedAny'

\* What is known of a file is still true when nothing of it changes.
LEMMA UntouchedVideosAreSound ==
    ASSUME NEW f \in Files, VideoFileInv(f), VideoUntouched(f)
    PROVE  VideoFileInv(f)'
BY DEF VideoFileInv, WaitingInv, OwnerInv, ShownInv, UnseenInv, Dozing, VideoUntouched

\* What waits is unchanged.
LEMMA WaitingStays ==
    ASSUME UNCHANGED <<entriesToProcess, pendingFilesQueue>>
    PROVE  WaitingFiles' = WaitingFiles
BY DEF WaitingFiles

\* The loop's invariant is about what waits, the batch and the flags.
LEMMA LoopStays ==
    ASSUME LoopInv, UNCHANGED <<entriesToProcess, pendingFilesQueue, inBatch, isUploadingNow, isUploadingRef>>,
           selectedFiles' \cap started' = {}
    PROVE  LoopInv'
BY DEF LoopInv

-----------------------------------------------------------------------------

\* Files in the dialog are not confirmed yet.
LEMMA DialogKeepsVideos ==
    ASSUME VideoInv, FilesSelected \/ RemoveFile \/ CloseUploadDialog \/ UNCHANGED videoUploadVars
    PROVE  LoopInv' /\ \A f \in Files : VideoFileInv(f)'
<1> USE DEF VideoInv, VideoUploadsTypeOK, FilesSelected, RemoveFile, CloseUploadDialog,
            videoUploadVars, transferVars, progressVars, panelVars, loopVars
<1>1. UNCHANGED <<entriesToProcess, pendingFilesQueue, inBatch, isUploadingNow, isUploadingRef>>
  OBVIOUS
<1>2. selectedFiles' \cap started' = {}
  BY DEF LoopInv
<1>3. LoopInv'
  BY <1>1, <1>2, LoopStays
<1>4. WaitingFiles' = WaitingFiles
  BY <1>1, WaitingStays
<1>5. ASSUME NEW f \in Files PROVE VideoFileInv(f)'
  <2>1. VideoUntouched(f)
    BY <1>4 DEF VideoUntouched
  <2> QED BY <2>1, UntouchedVideosAreSound
<1> QED BY <1>3, <1>5

\* Files that join the queue were never seen before.
LEMMA QueuedVideosAreSound ==
    ASSUME VideoInv, ConfirmQueued
    PROVE  LoopInv' /\ \A f \in Files : VideoFileInv(f)'
<1> VideoTyped
  BY VideoTypes DEF VideoInv
<1> DEFINE t == SetToSeq(selectedFiles)
<1>1. t \in Seq(Files) /\ IsInjective(t) /\ ToSet(t) \subseteq selectedFiles
  BY FilesInAnOrder, ParallelConstant DEF VideoTyped
<1>2. ASSUME NEW f \in Files, f \in selectedFiles
      PROVE  /\ f \notin started /\ at[f] = "idle" /\ f \notin inBatch /\ f \notin retryControllers
             /\ f \notin session /\ f \notin unseen /\ f \notin WaitingFiles
  BY <1>2 DEF VideoInv, LoopInv, VideoFileInv, WaitingInv, OwnerInv, ShownInv
<1>3. /\ pendingFilesQueue' = pendingFilesQueue \o t
      /\ UNCHANGED <<entriesToProcess, inBatch, isUploadingNow, isUploadingRef>>
  BY DEF ConfirmQueued
<1> HIDE DEF t
<1>4. ToSet(pendingFilesQueue) \cap ToSet(t) = {} /\ ToSet(entriesToProcess) \cap ToSet(t) = {}
  BY <1>1, <1>2 DEF WaitingFiles, VideoTyped
<1>5. /\ IsInjective(pendingFilesQueue')
      /\ ToSet(pendingFilesQueue') = ToSet(pendingFilesQueue) \cup ToSet(t)
  BY <1>1, <1>3, <1>4, QueuesGrow DEF VideoInv, LoopInv, VideoTyped
<1>6. LoopInv'
  BY <1>3, <1>4, <1>5 DEF VideoInv, LoopInv, ConfirmQueued, Confirmed
<1>7. WaitingFiles' \subseteq WaitingFiles \cup selectedFiles
  BY <1>1, <1>3, <1>5 DEF WaitingFiles
<1>8. ASSUME NEW f \in Files PROVE VideoFileInv(f)'
  <2>1. /\ UNCHANGED <<at, aborted, inBatch, session, retryControllers, unseen, isUploadingNow, completedAny>>
        /\ started' = started \cup selectedFiles
        /\ uploadProgress'[f] = IF f \in selectedFiles THEN "pending" ELSE uploadProgress[f]
    BY DEF ConfirmQueued, Confirmed, transferVars, progressVars
  <2>2. CASE f \in selectedFiles
    BY <1>2, <2>1, <2>2 DEF VideoFileInv, WaitingInv, OwnerInv, ShownInv, UnseenInv
  <2>3. CASE f \notin selectedFiles
    <3>1. VideoUntouched(f)
      BY <1>7, <2>1, <2>3 DEF VideoUntouched
    <3> QED BY <3>1, UntouchedVideosAreSound DEF VideoInv
  <2> QED BY <2>2, <2>3
<1> QED BY <1>6, <1>8

\* A session that starts finds no batch; the rows of earlier files go.
LEMMA SessionsStartSound ==
    ASSUME VideoInv, ConfirmSession
    PROVE  LoopInv' /\ \A f \in Files : VideoFileInv(f)'
<1> VideoTyped
  BY VideoTypes DEF VideoInv
<1> DEFINE t == SetToSeq(selectedFiles)
<1>1. t \in Seq(Files) /\ IsInjective(t) /\ ToSet(t) \subseteq selectedFiles
  BY FilesInAnOrder, ParallelConstant DEF VideoTyped
<1>2. ASSUME NEW f \in Files, f \in selectedFiles
      PROVE  /\ f \notin started /\ at[f] = "idle" /\ f \notin inBatch /\ f \notin retryControllers
             /\ f \notin session /\ f \notin unseen /\ f \notin WaitingFiles
  BY <1>2 DEF VideoInv, LoopInv, VideoFileInv, WaitingInv, OwnerInv, ShownInv
<1>3. /\ entriesToProcess' = t /\ inBatch' = {} /\ isUploadingNow' = TRUE /\ isUploadingRef' = TRUE
      /\ pendingFilesQueue' = pendingFilesQueue /\ inBatch = {}
  BY DEF ConfirmSession, VideoInv, LoopInv
<1> HIDE DEF t
<1>4. ToSet(t) \cap ToSet(pendingFilesQueue) = {}
  BY <1>1, <1>2 DEF WaitingFiles, VideoTyped
<1>5. Cardinality({}) = 0 /\ IsFiniteSet({})
  BY FS_EmptySet
<1>6. LoopInv'
  BY <1>1, <1>3, <1>4, <1>5, ParallelConstant DEF VideoInv, LoopInv, ConfirmSession, Confirmed
<1>7. WaitingFiles' \subseteq WaitingFiles \cup selectedFiles
  BY <1>1, <1>3 DEF WaitingFiles
<1>8. ASSUME NEW f \in Files PROVE VideoFileInv(f)'
  <2>1. /\ UNCHANGED <<at, aborted, retryControllers, unseen>>
        /\ started' = started \cup selectedFiles /\ session' = selectedFiles
        /\ uploadProgress'[f] = IF f \in selectedFiles THEN "pending" ELSE "none"
    BY DEF ConfirmSession, Confirmed, transferVars, progressVars
  <2>2. CASE f \in selectedFiles
    BY <1>2, <1>3, <2>1, <2>2 DEF VideoFileInv, WaitingInv, OwnerInv, ShownInv, UnseenInv
  <2>3. CASE f \notin selectedFiles
    BY <1>3, <1>7, <2>1, <2>3
       DEF VideoInv, VideoFileInv, WaitingInv, OwnerInv, ShownInv, UnseenInv, Dozing
  <2> QED BY <2>2, <2>3
<1> QED BY <1>6, <1>8

\* A batch that starts takes files that waited.
LEMMA BatchesAreSound ==
    ASSUME VideoInv, NextBatch \/ TakeQueue
    PROVE  LoopInv' /\ \A f \in Files : VideoFileInv(f)'
<1> VideoTyped
  BY VideoTypes DEF VideoInv
<1>1. PICK s \in Seq(Files) :
          /\ IsInjective(s) /\ StartBatch(s) /\ ToSet(s) \subseteq WaitingFiles
          /\ ToSet(s) \cap ToSet(pendingFilesQueue') = {}
          /\ ToSet(pendingFilesQueue') \subseteq ToSet(pendingFilesQueue)
          /\ IsInjective(pendingFilesQueue')
  <2>1. CASE NextBatch
    BY <2>1 DEF NextBatch, VideoInv, LoopInv, VideoTyped, WaitingFiles
  <2>2. CASE TakeQueue
    <3>1. ToSet(<<>>) = {} /\ IsInjective(<<>>)
      BY DEF ToSet, IsInjective
    <3> QED BY <2>2, <3>1 DEF TakeQueue, VideoInv, LoopInv, VideoTyped, WaitingFiles
  <2> QED BY <2>1, <2>2
<1>2. /\ inBatch' \subseteq ToSet(s) /\ inBatch' \subseteq Files
      /\ IsFiniteSet(inBatch') /\ Cardinality(inBatch') <= Parallel
      /\ session' = session \cup inBatch'
      /\ entriesToProcess' \in Seq(Files) /\ IsInjective(entriesToProcess')
      /\ ToSet(entriesToProcess') \subseteq ToSet(s) /\ ToSet(entriesToProcess') \cap inBatch' = {}
      /\ Start(inBatch', "url")
      /\ uploadProgress' = [f \in Files |-> IF f \in inBatch' /\ uploadProgress[f] = "pending"
                                            THEN "uploading" ELSE uploadProgress[f]]
  BY <1>1, BatchIsTaken
<1>3. /\ inBatch = {} /\ isUploadingNow
      /\ UNCHANGED <<selectedFiles, started, isUploadingNow, isUploadingRef, completedAny,
                     retryControllers, unseen>>
  BY DEF NextBatch, TakeQueue, BetweenBatches
<1>4. LoopInv'
  BY <1>1, <1>2, <1>3 DEF VideoInv, LoopInv
<1>5. WaitingFiles' \subseteq WaitingFiles /\ WaitingFiles' \cap inBatch' = {}
  BY <1>1, <1>2 DEF WaitingFiles
<1>6. ASSUME NEW f \in Files PROVE VideoFileInv(f)'
  <2>1. /\ at'[f] = IF f \in inBatch' THEN "url" ELSE at[f]
        /\ aborted'[f] = (aborted[f] /\ f \notin inBatch')
        /\ uploadProgress'[f] = IF f \in inBatch' /\ uploadProgress[f] = "pending"
                                THEN "uploading" ELSE uploadProgress[f]
    BY <1>2 DEF Start
  <2>2. CASE f \in inBatch'
    <3>1. /\ at[f] = "idle" /\ f \in started /\ uploadProgress[f] \in {"pending", "none"}
          /\ f \notin retryControllers
      BY <1>1, <1>2, <2>2 DEF VideoInv, VideoFileInv, WaitingInv
    <3> QED BY <1>2, <1>3, <1>5, <2>1, <2>2, <3>1
            DEF VideoInv, VideoFileInv, WaitingInv, OwnerInv, ShownInv, UnseenInv
  <2>3. CASE f \notin inBatch'
    <3>1. VideoUntouched(f)
      BY <1>2, <1>3, <1>5, <2>1, <2>3 DEF VideoUntouched, VideoInv, VideoUploadsTypeOK, TransferTypeOK
    <3> QED BY <3>1, UntouchedVideosAreSound DEF VideoInv
  <2> QED BY <2>2, <2>3
<1> QED BY <1>4, <1>6

\* The loop ends: what completed is fetched.
LEMMA SessionsEndSound ==
    ASSUME VideoInv, SessionEnds \/ RefFollows
    PROVE  LoopInv' /\ \A f \in Files : VideoFileInv(f)'
<1>1. UNCHANGED <<at, aborted, selectedFiles, started, uploadProgress, session, entriesToProcess, inBatch,
                  pendingFilesQueue, completedAny, retryControllers>>
  BY DEF SessionEnds, RefFollows, transferVars, progressVars, panelVars
<1>2. WaitingFiles' = WaitingFiles
  BY <1>1, WaitingStays
<1>3. LoopInv'
  BY <1>1 DEF VideoInv, LoopInv, SessionEnds, RefFollows, BetweenBatches, LoopDone
<1>4. ASSUME NEW f \in Files PROVE VideoFileInv(f)'
  <2>1. WaitingInv(f)' /\ OwnerInv(f)'
    BY <1>1, <1>2 DEF VideoInv, VideoFileInv, WaitingInv, OwnerInv, Dozing
  <2>2. unseen' \subseteq unseen
    BY DEF SessionEnds, RefFollows
  <2>3. ShownInv(f)'
    BY <1>1, <2>2 DEF VideoInv, VideoFileInv, ShownInv, Dozing
  <2>4. UnseenInv(f)'
    <3>1. CASE SessionEnds
      BY <1>1, <3>1 DEF SessionEnds, VideoInv, VideoFileInv, UnseenInv
    <3>2. CASE RefFollows
      BY <1>1, <3>2 DEF RefFollows, VideoInv, VideoFileInv, UnseenInv
    <3> QED BY <3>1, <3>2
  <2> QED BY <2>1, <2>3, <2>4 DEF VideoFileInv
<1> QED BY <1>3, <1>4

\* A retry takes a failed file, which has no coroutine and does not wait.
LEMMA VideoRetriesAreSound ==
    ASSUME VideoInv, NEW g \in Files, RetryUpload(g)
    PROVE  LoopInv' /\ \A f \in Files : VideoFileInv(f)'
<1>1. /\ uploadProgress[g] = "error" /\ retryControllers' = retryControllers \cup {g}
      /\ UNCHANGED <<selectedFiles, started, isUploadingNow, isUploadingRef, session, entriesToProcess,
                     inBatch, pendingFilesQueue, completedAny, unseen>>
  BY DEF RetryUpload, loopVars
<1>2. WaitingFiles' = WaitingFiles
  BY <1>1, WaitingStays
<1>3. LoopInv'
  BY <1>1, LoopStays DEF VideoInv, LoopInv
<1>4. ASSUME NEW f \in Files PROVE VideoFileInv(f)'
  <2>1. /\ at'[f] = IF f = g THEN "retry" ELSE at[f]
        /\ aborted'[f] = (aborted[f] /\ f # g)
        /\ uploadProgress'[f] = IF f = g THEN "processing" ELSE uploadProgress[f]
    BY DEF RetryUpload, Start, VideoInv, VideoUploadsTypeOK
  <2>2. CASE f = g
    BY <1>1, <1>2, <2>1, <2>2 DEF VideoInv, VideoFileInv, WaitingInv, OwnerInv, ShownInv, UnseenInv
  <2>3. CASE f # g
    <3>1. VideoUntouched(f)
      BY <1>1, <1>2, <2>1, <2>3 DEF VideoUntouched, VideoInv, VideoUploadsTypeOK, TransferTypeOK
    <3> QED BY <3>1, UntouchedVideosAreSound DEF VideoInv
  <2> QED BY <2>2, <2>3
<1> QED BY <1>3, <1>4

\* Cancel All ends the session, the queue and the retries.
LEMMA CancelAllIsSound ==
    ASSUME VideoInv, HandleCancelUploads
    PROVE  LoopInv' /\ \A f \in Files : VideoFileInv(f)'
<1>1. /\ pendingFilesQueue' = <<>> /\ entriesToProcess' = <<>> /\ inBatch' = {} /\ session' = {}
      /\ retryControllers' = {} /\ isUploadingNow' = FALSE /\ isUploadingRef' = FALSE
      /\ UNCHANGED <<selectedFiles, started, completedAny>> /\ unseen' = SeenByCancel
  BY DEF HandleCancelUploads
<1>2. WaitingFiles' = {} /\ IsInjective(<<>>) /\ ToSet(<<>>) = {}
  BY <1>1 DEF WaitingFiles, ToSet, IsInjective
<1>3. IsFiniteSet({}) /\ Cardinality({}) = 0
  BY FS_EmptySet
<1>4. LoopInv'
  BY <1>1, <1>2, <1>3, ParallelConstant DEF VideoInv, LoopInv
<1>5. ASSUME NEW f \in Files PROVE VideoFileInv(f)'
  <2>1. /\ at'[f] = IF f \in EndedBy(AbortedByCancel) THEN "idle" ELSE at[f]
        /\ aborted'[f] = (aborted[f] \/ f \in AbortedByCancel)
        /\ uploadProgress'[f] = IF f \in ActiveUploads THEN "cancelled" ELSE uploadProgress[f]
    BY DEF HandleCancelUploads, Abort
  <2>2. at'[f] = "idle" \/ Dozing(f)'
    BY <2>1 DEF VideoInv, VideoFileInv, OwnerInv, Dozing, EndedBy, AbortedByCancel
  <2>3. at[f] # "idle" => uploadProgress'[f] \in {"cancelled", "none"}
    BY <2>1 DEF VideoInv, VideoFileInv, OwnerInv, ActiveUploads
  <2>4. at'[f] # "idle" => at[f] # "idle"
    BY <2>1
  <2>5. uploadProgress'[f] # "none" => uploadProgress[f] # "none"
    BY <2>1 DEF ActiveUploads
  <2>6. uploadProgress'[f] = "error" => at[f] = "idle"
    BY <2>3
  <2>7. UnseenInv(f)'
    BY <1>1, <2>1 DEF VideoInv, VideoFileInv, UnseenInv, SeenByCancel, ActiveUploads
  <2>8. unseen' \subseteq unseen
    BY <1>1 DEF SeenByCancel
  <2> QED BY <1>1, <1>2, <2>2, <2>3, <2>4, <2>5, <2>6, <2>7, <2>8
          DEF VideoInv, VideoFileInv, WaitingInv, OwnerInv, ShownInv
<1> QED BY <1>4, <1>5

\* The panel is cleared: every row goes, nothing else does.
LEMMA ClearingIsSound ==
    ASSUME VideoInv, HandleClearUploadProgress
    PROVE  LoopInv' /\ \A f \in Files : VideoFileInv(f)'
<1>1. /\ UNCHANGED <<at, aborted, selectedFiles, started, isUploadingNow, isUploadingRef, session,
                     entriesToProcess, inBatch, pendingFilesQueue, completedAny, retryControllers, unseen>>
      /\ uploadProgress' = [f \in Files |-> "none"]
  BY DEF HandleClearUploadProgress, transferVars, progressVars, loopVars
<1>2. WaitingFiles' = WaitingFiles
  BY <1>1, WaitingStays
<1>3. LoopInv'
  BY <1>1, LoopStays DEF VideoInv, LoopInv
<1>4. ASSUME NEW f \in Files PROVE VideoFileInv(f)'
  BY <1>1, <1>2 DEF VideoInv, VideoFileInv, WaitingInv, OwnerInv, ShownInv, UnseenInv, Dozing
<1> QED BY <1>3, <1>4

\* Jobs end and cancels arrive on the server only.
LEMMA ServerKeepsVideos ==
    ASSUME VideoInv, VideoServerStep
    PROVE  LoopInv' /\ \A f \in Files : VideoFileInv(f)'
<1>1. UNCHANGED <<at, aborted, selectedFiles, started, uploadProgress, isUploadingNow, isUploadingRef,
                  session, entriesToProcess, inBatch, pendingFilesQueue, completedAny, retryControllers, unseen>>
  BY DEF VideoServerStep, ServerStep, JobEnds, CancelArrives, CancelIsLost, progressVars, panelVars, loopVars
<1>2. WaitingFiles' = WaitingFiles
  BY <1>1, WaitingStays
<1>3. LoopInv'
  BY <1>1, LoopStays DEF VideoInv, LoopInv
<1>4. ASSUME NEW f \in Files PROVE VideoFileInv(f)'
  <2>1. VideoUntouched(f)
    BY <1>1, <1>2 DEF VideoUntouched
  <2> QED BY <2>1, UntouchedVideosAreSound DEF VideoInv
<1> QED BY <1>3, <1>4

-----------------------------------------------------------------------------
(* The Video Management tab: the coroutines, and what follows.             *)

\* The variables that steps of coroutines leave alone.
LEMMA StepsAreBetweenBatches ==
    ASSUME NEW g \in Files, VideoStep(g)
    PROVE  UNCHANGED betweenVars
BY DEF VideoStep, VideoTravels, VideoCompletes, VideoReturns, Settles, StaleReturns, VideoRetryReturns,
       RetryControllerGone, betweenVars, loopVars

\* A step of a coroutine is one of its own file.
LEMMA StepsAreOfOneFile ==
    ASSUME VideoTyped, TransferTypeOK, NEW g \in Files, VideoStep(g)
    PROVE  /\ at' = [at EXCEPT ![g] = at'[g]] /\ aborted' = aborted
           /\ \A f \in Files : f # g =>
                 /\ uploadProgress'[f] = uploadProgress[f]
                 /\ f \in inBatch' <=> f \in inBatch
                 /\ f \in retryControllers' <=> f \in retryControllers
                 /\ f \in unseen' => f \in unseen
           /\ completedAny => completedAny'
<1> USE DEF TransferTypeOK, VideoTyped
<1>1. at' = [at EXCEPT ![g] = at'[g]] /\ aborted' = aborted
  <2>1. Travels(g) \/ CompleteAnswered(g) \/ PollSaysEnded(g) \/ TransferFails(g) \/ WakesUpAborted(g)
    BY DEF VideoStep, VideoTravels, VideoCompletes, VideoReturns, StaleReturns, VideoRetryReturns
  <2>2. CASE ChunkStored(g)
    BY <2>2 DEF ChunkStored, NextChunk, GoesTo
  <2> QED BY <2>1, <2>2 DEF Travels, UrlAnswered, ChunkAttemptFails, Retries, BackoffEnds,
             PollSaysActive, SleepEnds, RetryAccepted, CompleteAnswered, PollSaysEnded, TransferFails,
             WakesUpAborted, GoesTo
<1>2. ASSUME NEW f \in Files, f # g PROVE uploadProgress'[f] = uploadProgress[f]
  <2>1. (\E from, to : Follows(g, from, to)) \/ UNCHANGED uploadProgress
    BY DEF VideoStep, VideoTravels, VideoCompletes, VideoReturns, StaleReturns, VideoRetryReturns,
           ApplyTerminalJobStatus, panelVars
  <2> QED BY <1>2, <2>1 DEF Follows
<1>3. ASSUME NEW f \in Files, f # g
      PROVE  /\ f \in inBatch' <=> f \in inBatch
             /\ f \in retryControllers' <=> f \in retryControllers
             /\ f \in unseen' => f \in unseen
  BY <1>3 DEF VideoStep, VideoTravels, VideoCompletes, VideoReturns, Settles, StaleReturns,
              VideoRetryReturns, RetryControllerGone, loopVars
<1>4. completedAny => completedAny'
  BY DEF VideoStep, VideoTravels, VideoCompletes, VideoReturns, StaleReturns, VideoRetryReturns,
         RetryControllerGone, loopVars
<1> QED BY <1>1, <1>2, <1>3, <1>4

\* The final status of a job or an error, shown for a file whose coroutine ends.
LEMMA EndsAreShown ==
    ASSUME VideoTyped, NEW f \in Files,
           \/ ApplyTerminalJobStatus(f) \/ Follows(f, {"pending", "uploading", "processing"}, "error")
           \/ Follows(f, {"processing"}, "error")
    PROVE  uploadProgress'[f] \in {uploadProgress[f], "success", "cancelled", "error"}
           /\ (uploadProgress[f] \in {"none", "success"} => uploadProgress'[f] = uploadProgress[f])
BY DEF VideoTyped, ApplyTerminalJobStatus, Follows

\* What is known of a file after a step of its coroutine: a batch's coroutine leaves the batch
\* when it ends, a retry's the set of retries, an aborted one leaves no trace.
LEMMA CoroutinesKeepTheirFile ==
    ASSUME VideoInv, TransferTypeOK', NEW g \in Files, VideoStep(g)
    PROVE  VideoFileInv(g)'
<1> VideoTyped /\ TransferTypeOK
  BY VideoTypes DEF VideoInv
<1> VideoFileInv(g)
  BY DEF VideoInv
<1>1. /\ UNCHANGED <<started, isUploadingNow, session, entriesToProcess, pendingFilesQueue>>
      /\ aborted' = aborted
  BY StepsAreBetweenBatches, StepsAreOfOneFile DEF betweenVars
<1>2. WaitingFiles' = WaitingFiles
  BY <1>1, WaitingStays
<1>3. CASE VideoTravels(g)
  <2>1. Travels(g) /\ UNCHANGED <<uploadJobs, inBatch, completedAny, retryControllers, unseen>>
    BY <1>3 DEF VideoTravels
  <2>2. at[g] # "idle" /\ at'[g] # "idle" /\ ~Dozing(g)
        /\ (at[g] \in {"retry", "poll", "sleep"} => at'[g] \in {"poll", "sleep"})
        /\ at'[g] # "retry"
        /\ (at[g] \in {"url", "chunk", "backoff"} =>
               \/ at'[g] \in {"url", "chunk", "backoff"}
               \/ at[g] = "chunk" /\ at'[g] = "complete")
    <3> USE DEF TransferTypeOK
    <3>1. CASE ChunkStored(g)
      BY <3>1 DEF ChunkStored, NextChunk, GoesTo, Dozing
    <3> QED BY <2>1, <3>1 DEF Travels, UrlAnswered, ChunkAttemptFails, Retries, BackoffEnds, WakesUp,
               PollSaysActive, SleepEnds, RetryAccepted, GoesTo, Dozing
  <2>3. IF at[g] = "chunk" /\ at'[g] = "complete" /\ uploadProgress[g] = "uploading"
        THEN uploadProgress'[g] = "processing" ELSE uploadProgress'[g] = uploadProgress[g]
    BY <1>3 DEF VideoTravels, Follows, VideoTyped
  <2>4. g \in inBatch \/ g \in retryControllers
    BY <2>2 DEF VideoFileInv, OwnerInv
  <2> QED BY <1>1, <1>2, <2>1, <2>2, <2>3, <2>4
          DEF VideoFileInv, WaitingInv, OwnerInv, ShownInv, UnseenInv, Dozing
<1>4. CASE VideoCompletes(g)
  <2>1. /\ at[g] = "complete" /\ at'[g] = "poll"
        /\ UNCHANGED <<uploadProgress, inBatch, completedAny, retryControllers, unseen>>
    BY <1>4 DEF VideoCompletes, CompleteAnswered, GoesTo, TransferTypeOK
  <2> QED BY <1>1, <1>2, <2>1 DEF VideoFileInv, WaitingInv, OwnerInv, ShownInv, UnseenInv, Dozing
<1>5. CASE VideoReturns(g)
  <2>1. /\ g \in session /\ g \notin retryControllers /\ at[g] # "idle" /\ at'[g] = "idle"
        /\ inBatch' = inBatch \ {g} /\ retryControllers' = retryControllers
    BY <1>5 DEF VideoReturns, Current, Settles, PollSaysEnded, TransferFails, Requests, GoesTo, TransferTypeOK
  <2>2. g \in inBatch /\ isUploadingNow /\ g \in started
    BY <2>1 DEF VideoInv, LoopInv, VideoFileInv, OwnerInv, ShownInv
  <2>3. /\ uploadProgress'[g] \in {uploadProgress[g], "success", "cancelled", "error"}
        /\ uploadProgress[g] \in {"none", "success"} => uploadProgress'[g] = uploadProgress[g]
    BY <1>5, EndsAreShown DEF VideoReturns
  <2>4. UnseenInv(g)'
    <3>1. CASE PollSaysEnded(g) /\ job[g] = "completed" /\ completedAny' /\ ApplyTerminalJobStatus(g)
      <4>1. uploadProgress[g] \in {"processing", "none"}
        BY <2>2, <3>1 DEF PollSaysEnded, VideoFileInv, OwnerInv
      <4>2. uploadProgress'[g] \in {"success", "none"}
        BY <3>1, <4>1 DEF ApplyTerminalJobStatus, Follows, VideoTyped
      <4> QED BY <1>1, <2>2, <3>1, <4>2 DEF UnseenInv
    <3>2. CASE unseen' \subseteq unseen
      <4>1. completedAny => completedAny'
        BY <1>5, StepsAreOfOneFile DEF VideoStep
      <4> QED BY <1>1, <2>3, <3>2, <4>1 DEF VideoFileInv, UnseenInv
    <3>3. \/ PollSaysEnded(g) /\ job[g] = "completed" /\ completedAny' /\ ApplyTerminalJobStatus(g)
          \/ unseen' \subseteq unseen
      BY <1>5 DEF VideoReturns
    <3> QED BY <3>1, <3>2, <3>3
  <2>5. WaitingInv(g)'
    BY <1>2, <2>2 DEF VideoFileInv, WaitingInv
  <2> QED BY <1>1, <2>1, <2>2, <2>3, <2>4, <2>5 DEF VideoFileInv, OwnerInv, ShownInv
<1>6. CASE StaleReturns(g)
  <2>1. /\ at[g] = "backoff" /\ at'[g] = "idle"
        /\ UNCHANGED <<uploadProgress, inBatch, completedAny, retryControllers, unseen>>
    BY <1>6 DEF StaleReturns, WakesUpAborted, WakesUp, GoesTo, panelVars, loopVars, TransferTypeOK
  <2>2. g \notin inBatch /\ g \notin retryControllers
    BY <1>6, <2>1 DEF StaleReturns, Current, VideoFileInv, OwnerInv
  <2> QED BY <1>1, <1>2, <2>1, <2>2 DEF VideoFileInv, WaitingInv, OwnerInv, ShownInv, UnseenInv, Dozing
<1>7. CASE VideoRetryReturns(g)
  <2>1. /\ g \in retryControllers /\ at[g] # "idle" /\ at'[g] = "idle"
        /\ inBatch' = inBatch /\ retryControllers' = retryControllers \ {g} /\ completedAny' = completedAny
        /\ unseen' \subseteq unseen
    BY <1>7 DEF VideoRetryReturns, RetryControllerGone, PollSaysEnded, TransferFails, Requests, GoesTo,
                TransferTypeOK
  <2>2. /\ uploadProgress'[g] \in {uploadProgress[g], "success", "cancelled", "error"}
        /\ uploadProgress[g] \in {"none", "success"} => uploadProgress'[g] = uploadProgress[g]
    BY <1>7, EndsAreShown DEF VideoRetryReturns
  <2>3. g \notin inBatch /\ g \in started /\ g \notin WaitingFiles
    BY <2>1 DEF VideoFileInv, WaitingInv, OwnerInv, ShownInv
  <2> QED BY <1>1, <1>2, <2>1, <2>2, <2>3
          DEF VideoFileInv, WaitingInv, OwnerInv, ShownInv, UnseenInv
<1> QED BY <1>3, <1>4, <1>5, <1>6, <1>7 DEF VideoStep

\* The other files are untouched, and a batch only shrinks.
LEMMA VideoStepsAreSound ==
    ASSUME VideoInv, TransferTypeOK', NEW g \in Files, VideoStep(g)
    PROVE  LoopInv' /\ \A f \in Files : VideoFileInv(f)'
<1> VideoTyped /\ TransferTypeOK
  BY VideoTypes DEF VideoInv
<1>1. UNCHANGED <<selectedFiles, started, isUploadingNow, isUploadingRef, session, entriesToProcess,
                  pendingFilesQueue>>
  BY StepsAreBetweenBatches DEF betweenVars
<1>2. WaitingFiles' = WaitingFiles
  BY <1>1, WaitingStays
<1>3. inBatch' \subseteq inBatch
  BY DEF VideoStep, VideoTravels, VideoCompletes, VideoReturns, Settles, StaleReturns, VideoRetryReturns,
         RetryControllerGone, loopVars
<1>4. IsFiniteSet(inBatch') /\ Cardinality(inBatch') <= Parallel
  <2>1. IsFiniteSet(inBatch) /\ Cardinality(inBatch) <= Parallel
    BY DEF VideoInv, LoopInv
  <2>2. IsFiniteSet(inBatch') /\ Cardinality(inBatch') <= Cardinality(inBatch)
    BY <1>3, <2>1, FS_Subset
  <2>3. Cardinality(inBatch) \in Nat /\ Cardinality(inBatch') \in Nat
    BY <2>1, <2>2, FS_CardinalityType
  <2> QED BY <2>1, <2>2, <2>3, ParallelConstant
<1>5. LoopInv'
  BY <1>1, <1>3, <1>4 DEF VideoInv, LoopInv
<1>6. ASSUME NEW f \in Files, f # g PROVE VideoFileInv(f)'
  <2>1. VideoUntouched(f)
    BY <1>1, <1>2, <1>6, StepsAreOfOneFile DEF VideoUntouched, TransferTypeOK
  <2> QED BY <2>1, UntouchedVideosAreSound DEF VideoInv
<1> QED BY <1>5, <1>6, CoroutinesKeepTheirFile

\* Every step keeps the invariant.
LEMMA VideosStaySound == VideoInv /\ [VideoUploadsNext]_videoUploadVars => VideoInv'
<1> SUFFICES ASSUME VideoInv, [VideoUploadsNext]_videoUploadVars PROVE VideoInv'
  OBVIOUS
<1>1. VideoUploadsTypeOK'
  BY VideosStayTyped DEF VideoInv
<1>2. TransferTypeOK'
  BY <1>1 DEF VideoUploadsTypeOK
<1>3. LoopInv' /\ \A f \in Files : VideoFileInv(f)'
  <2>1. CASE VideoUserStep
    BY <2>1, DialogKeepsVideos, QueuedVideosAreSound, SessionsStartSound, CancelAllIsSound, ClearingIsSound,
       VideoRetriesAreSound DEF VideoUserStep
  <2>2. CASE LoopStep \/ RefFollows
    BY <2>2, BatchesAreSound, SessionsEndSound DEF LoopStep
  <2>3. ASSUME NEW g \in Files, VideoStep(g) PROVE LoopInv' /\ \A f \in Files : VideoFileInv(f)'
    BY <1>2, <2>3, VideoStepsAreSound
  <2>4. CASE UNCHANGED videoUploadVars
    BY <2>4, DialogKeepsVideos
  <2> QED BY <2>1, <2>2, <2>3, <2>4, ServerKeepsVideos DEF VideoUploadsNext
<1> QED BY <1>1, <1>3 DEF VideoInv

\* The three promises of the Video Management tab's uploads follow.
LEMMA VideoInvIsEnough ==
    ASSUME VideoInv
    PROVE  CancelledFilesAreQuiet /\ ParallelLimit /\ CompletedUploadsAreSeen
<1>1. CancelledFilesAreQuiet
  BY DEF VideoInv, VideoFileInv, ShownInv, Dozing, CancelledFilesAreQuiet
<1>2. ParallelLimit
  <2> DEFINE moving == {f \in Files : Current(f) /\ at[f] # "idle"}
  <2>1. moving \subseteq inBatch
    BY DEF VideoInv, VideoFileInv, OwnerInv, Current
  <2>2. IsFiniteSet(inBatch) /\ Cardinality(inBatch) <= Parallel
    BY DEF VideoInv, LoopInv
  <2> HIDE DEF moving
  <2>3. IsFiniteSet(moving) /\ Cardinality(moving) <= Cardinality(inBatch)
    BY <2>1, <2>2, FS_Subset
  <2>4. Cardinality(inBatch) \in Nat /\ Cardinality(moving) \in Nat
    BY <2>2, <2>3, FS_CardinalityType
  <2> QED BY <2>2, <2>3, <2>4, ParallelConstant DEF ParallelLimit, moving
<1>3. CompletedUploadsAreSeen
  BY VideoTypes DEF VideoInv, VideoTyped, VideoFileInv, UnseenInv, CompletedUploadsAreSeen
<1> QED BY <1>1, <1>2, <1>3

-----------------------------------------------------------------------------
(* The list of streams and its deletions.                                  *)

\* The variables of this component, one by one.
LibraryTyped ==
    /\ library \subseteq Streams /\ unused \subseteq Streams /\ streams \subseteq Streams
    /\ selectedStreams \subseteq Streams /\ snapshot \subseteq Streams
    /\ fetches \in [Fetch -> [stage : {"free", "sent", "answered", "failed"}, list : SUBSET Streams]]
    /\ isLoading \in BOOLEAN /\ listError \in BOOLEAN /\ showVideos \in BOOLEAN /\ showRtsps \in BOOLEAN
    /\ searchQuery \in BOOLEAN /\ appliedSearchQuery \in BOOLEAN
    /\ showDeleteConfirm \in BOOLEAN /\ isDeleting \in BOOLEAN /\ isSubmitting \in BOOLEAN
    /\ deletes \in [Streams -> {"none", "sent", "wait", "settled"}]
    /\ attempts \in [Streams -> 0 .. MaxAttempts]
    /\ awaited \in 0 .. MaxFetches
    /\ rtspDialog \in {"closed", "open", "filled"} /\ adds \in 0 .. 1

\* A deletion under way keeps its dialog, and nothing of it is left when it is over; it
\* waits for a list only when all of its requests have settled.
DeletionInv ==
    /\ isDeleting => showDeleteConfirm
    /\ \A s \in Streams : deletes[s] # "none" => isDeleting
    /\ \A s, t \in Streams : deletes[s] # "none" /\ deletes[t] # "none" /\ SensorOf[s] = SensorOf[t] => s = t
    /\ awaited # 0 => isDeleting /\ \A s \in Streams : deletes[s] \in {"none", "settled"}

LibraryInv == LibraryTyped /\ DeletionInv

\* The type invariant, with one conjunct for each variable.
LEMMA LibraryTypes == LibraryTypeOK <=> LibraryTyped
<1>1. {library, unused, streams, selectedStreams, snapshot} \subseteq SUBSET Streams <=>
          /\ library \subseteq Streams /\ unused \subseteq Streams /\ streams \subseteq Streams
          /\ selectedStreams \subseteq Streams /\ snapshot \subseteq Streams
  OBVIOUS
<1>2. {isLoading, listError, showVideos, showRtsps, searchQuery, appliedSearchQuery,
       showDeleteConfirm, isDeleting, isSubmitting} \subseteq BOOLEAN <=>
          /\ isLoading \in BOOLEAN /\ listError \in BOOLEAN /\ showVideos \in BOOLEAN
          /\ showRtsps \in BOOLEAN /\ searchQuery \in BOOLEAN /\ appliedSearchQuery \in BOOLEAN
          /\ showDeleteConfirm \in BOOLEAN /\ isDeleting \in BOOLEAN /\ isSubmitting \in BOOLEAN
  BY Zenon
<1> QED BY <1>1, <1>2 DEF LibraryTypeOK, LibraryTyped

\* No deletion is under way at first.
LEMMA LibraryStartsSound == LibraryInit => LibraryInv
<1> SUFFICES ASSUME LibraryInit PROVE LibraryInv
  OBVIOUS
<1> USE DEF LibraryInit
<1>1. fetches \in [Fetch -> [stage : {"free", "sent", "answered", "failed"}, list : SUBSET Streams]]
  BY DEF NoFetch
<1>2. /\ 0 \in 0 .. MaxAttempts /\ 0 \in 0 .. MaxFetches /\ 0 \in 0 .. 1
  BY LibraryConstants
<1>3. /\ isLoading \in BOOLEAN /\ listError \in BOOLEAN /\ showVideos \in BOOLEAN /\ showRtsps \in BOOLEAN
      /\ searchQuery \in BOOLEAN /\ appliedSearchQuery \in BOOLEAN
      /\ showDeleteConfirm \in BOOLEAN /\ isDeleting \in BOOLEAN /\ isSubmitting \in BOOLEAN
  OBVIOUS
<1>4. LibraryTyped
  BY <1>1, <1>2, <1>3 DEF LibraryTyped
<1>5. DeletionInv
  BY DEF DeletionInv
<1> QED BY <1>4, <1>5 DEF LibraryInv

\* The list, whichever request is sent or returns.
LEMMA ListIsTyped ==
    ASSUME LibraryTyped, NEW i \in Fetch, FetchStreams(i) \/ FetchReturns(i)
    PROVE  /\ fetches' \in [Fetch -> [stage : {"free", "sent", "answered", "failed"},
                                      list : SUBSET Streams]]
           /\ streams' \subseteq Streams /\ isLoading' \in BOOLEAN /\ listError' \in BOOLEAN
<1>1. [stage |-> "sent", list |-> {}] \in
          [stage : {"free", "sent", "answered", "failed"}, list : SUBSET Streams]
      /\ NoFetch \in [stage : {"free", "sent", "answered", "failed"}, list : SUBSET Streams]
  BY DEF NoFetch
<1>2. CASE FetchStreams(i)
  BY <1>1, <1>2 DEF FetchStreams, LibraryTyped
<1>3. CASE FetchReturns(i)
  BY <1>1, <1>3 DEF FetchReturns, LibraryTyped
<1> QED BY <1>2, <1>3

\* Requests for the list leave a deletion alone, whenever they return.
LEMMA ListKeepsLibrary ==
    ASSUME LibraryInv,
           \/ StreamAppears \/ Refetch \/ \E i \in Fetch : FetchAnswered(i) \/ ListReturns(i)
    PROVE  LibraryInv'
<1> USE DEF LibraryInv, LibraryTyped, serviceVars, listVars, filterVars, deleteVars, rtspVars
<1>1. CASE StreamAppears
  BY <1>1 DEF StreamAppears, DeletionInv
<1>2. CASE Refetch
  <2>1. PICK i \in Fetch : FetchStreams(i)
    BY <1>2 DEF Refetch
  <2>2. UNCHANGED <<serviceVars, filterVars, selectedStreams, deleteVars, rtspVars>>
    BY <1>2 DEF Refetch
  <2>3. DeletionInv'
    BY <2>2 DEF DeletionInv
  <2> HIDE DEF DeletionInv
  <2> QED BY <2>1, <2>2, <2>3, ListIsTyped
<1>3. ASSUME NEW i \in Fetch, FetchAnswered(i) PROVE LibraryInv'
  <2>1. fetches' \in [Fetch -> [stage : {"free", "sent", "answered", "failed"}, list : SUBSET Streams]]
    BY <1>3 DEF FetchAnswered
  <2>2. UNCHANGED <<serviceVars, streams, isLoading, listError, filterVars, selectedStreams,
                    deleteVars, rtspVars>>
    BY <1>3 DEF FetchAnswered
  <2> QED BY <2>1, <2>2 DEF DeletionInv
<1>4. ASSUME NEW i \in Fetch, ListReturns(i) PROVE LibraryInv'
  <2>1. FetchReturns(i) /\ UNCHANGED <<serviceVars, filterVars, selectedStreams, deleteVars, rtspVars>>
    BY <1>4 DEF ListReturns
  <2>2. DeletionInv'
    BY <2>1 DEF DeletionInv
  <2> QED BY <2>1, <2>2, ListIsTyped
<1> QED BY <1>1, <1>2, <1>3, <1>4

\* So do filters and selection; the dialog closes only between deletions.
LEMMA ToolbarKeepsLibrary ==
    ASSUME LibraryInv,
           \/ HandleSearchChange \/ HandleSearch \/ ToggleFilter
           \/ HandleSelectionChange \/ HandleSelectAll \/ HandleDeleteSelected \/ HandleCancelDelete
           \/ UNCHANGED libraryVars
    PROVE  LibraryInv'
<1> USE DEF LibraryInv, LibraryTyped, serviceVars, listVars, filterVars, deleteVars, rtspVars, libraryVars
<1>1. CASE HandleSearchChange \/ HandleSearch \/ ToggleFilter
  <2>1. /\ showVideos' \in BOOLEAN /\ showRtsps' \in BOOLEAN
        /\ searchQuery' \in BOOLEAN /\ appliedSearchQuery' \in BOOLEAN
    <3>1. CASE HandleSearchChange
      BY <3>1, Zenon DEF HandleSearchChange
    <3>2. CASE HandleSearch
      BY <3>2, Zenon DEF HandleSearch
    <3>3. CASE ToggleFilter
      BY <3>3, Zenon DEF ToggleFilter
    <3> QED BY <1>1, <3>1, <3>2, <3>3
  <2>2. UNCHANGED <<serviceVars, listVars, selectedStreams, deleteVars, rtspVars>>
    BY <1>1 DEF HandleSearchChange, HandleSearch, ToggleFilter
  <2> QED BY <2>1, <2>2 DEF DeletionInv
<1>2. CASE HandleSelectionChange \/ HandleSelectAll
  BY <1>2 DEF HandleSelectionChange, HandleSelectAll, FilteredStreams, DeletionInv
<1>3. CASE HandleDeleteSelected \/ HandleCancelDelete
  <2>1. /\ ~isDeleting /\ snapshot' \subseteq Streams /\ showDeleteConfirm' \in BOOLEAN
        /\ UNCHANGED <<serviceVars, listVars, filterVars, selectedStreams, isDeleting, deletes, attempts,
                       awaited, rtspVars>>
    BY <1>3 DEF HandleDeleteSelected, HandleCancelDelete, DialogCloses, SelectedStreamInfos
  <2>2. LibraryTyped'
    BY <2>1
  <2>3. DeletionInv'
    BY <2>1 DEF DeletionInv
  <2> QED BY <2>2, <2>3
<1>4. CASE UNCHANGED libraryVars
  BY <1>4 DEF DeletionInv
<1> QED BY <1>1, <1>2, <1>3, <1>4

\* A deletion starts with one request for each sensor: none is under way.
LEMMA DeletionStartsSound ==
    ASSUME LibraryInv, HandleConfirmDelete
    PROVE  LibraryInv'
<1> USE DEF LibraryInv
<1>1. PICK targets \in SensorTargets(SelectedStreamInfos) :
          deletes' = [s \in Streams |-> IF s \in targets THEN "sent" ELSE "none"]
  BY DEF HandleConfirmDelete
<1>2. \A t, u \in targets : SensorOf[t] = SensorOf[u] => t = u
  BY DEF SensorTargets
<1>3. attempts' \in [Streams -> 0 .. MaxAttempts]
  BY LibraryConstants DEF HandleConfirmDelete
<1>4. UNCHANGED <<serviceVars, listVars, filterVars, selectedStreams, showDeleteConfirm, snapshot,
                  awaited, rtspVars>> /\ isDeleting' = TRUE /\ showDeleteConfirm /\ ~isDeleting
  BY DEF HandleConfirmDelete
<1>5. LibraryTyped'
  BY <1>1, <1>3, <1>4 DEF LibraryTyped, serviceVars, listVars, filterVars, rtspVars
<1>6. DeletionInv'
  BY <1>1, <1>2, <1>4 DEF DeletionInv
<1> QED BY <1>5, <1>6

\* Its requests settle, wait or are sent again; all settled, it asks for a new list.
LEMMA DeletionGoesOnSound ==
    ASSUME LibraryInv, DeletionStep
    PROVE  LibraryInv'
<1> USE DEF LibraryInv
<1>1. ASSUME NEW s \in Streams, DeleteSettles(s) \/ DeletePending(s) \/ DeleteAgain(s) PROVE LibraryInv'
  <2>1. UNCHANGED deletionFrame /\ deletes[s] \in {"sent", "wait"} /\ library' \subseteq Streams
    BY <1>1 DEF DeleteSettles, DeletePending, DeleteAgain, LibraryTyped
  <2>2. PICK d \in {"sent", "wait", "settled"} : deletes' = [deletes EXCEPT ![s] = d]
    BY <1>1 DEF DeleteSettles, DeletePending, DeleteAgain, AfterPending
  <2>3. attempts' \in [Streams -> 0 .. MaxAttempts]
    <3>1. UNCHANGED attempts \/ attempts' = [attempts EXCEPT ![s] = IF @ = MaxAttempts THEN @ ELSE @ + 1]
      BY <1>1 DEF DeleteSettles, DeletePending, DeleteAgain
    <3>2. attempts[s] = MaxAttempts \/ attempts[s] + 1 \in 0 .. MaxAttempts
      BY LibraryConstants DEF LibraryTyped
    <3> QED BY <3>1, <3>2 DEF LibraryTyped
  <2>a. deletes' \in [Streams -> {"none", "sent", "wait", "settled"}]
    BY <2>2 DEF LibraryTyped
  <2>4. LibraryTyped'
    BY <2>1, <2>3, <2>a DEF LibraryTyped, deletionFrame, listVars, filterVars, rtspVars
  <2>5. DeletionInv'
    BY <2>1, <2>2 DEF DeletionInv, LibraryTyped, deletionFrame
  <2> QED BY <2>4, <2>5
<1>2. CASE DeletesSettle
  <2>1. MaxFetches \in Fetch /\ MaxFetches \in 0 .. MaxFetches /\ 0 \in 0 .. MaxAttempts
    BY LibraryConstants DEF Fetch
  <2>2. /\ isDeleting /\ \A s \in Streams : deletes[s] \in {"none", "settled"}
        /\ selectedStreams' = {} /\ awaited' = MaxFetches /\ FetchStreams(MaxFetches)
        /\ attempts' = [s \in Streams |-> 0]
        /\ UNCHANGED <<serviceVars, filterVars, showDeleteConfirm, snapshot, isDeleting, deletes, rtspVars>>
    BY <1>2 DEF DeletesSettle
  <2>a. /\ fetches' \in [Fetch -> [stage : {"free", "sent", "answered", "failed"}, list : SUBSET Streams]]
        /\ streams' \subseteq Streams /\ isLoading' \in BOOLEAN /\ listError' \in BOOLEAN
    BY <2>1, <2>2, ListIsTyped
  <2>b. attempts' \in [Streams -> 0 .. MaxAttempts]
    BY <2>1, <2>2
  <2>3. LibraryTyped'
    BY <2>1, <2>2, <2>a, <2>b DEF LibraryTyped, serviceVars, filterVars, rtspVars
  <2>4. DeletionInv'
    BY <2>2 DEF DeletionInv
  <2> QED BY <2>3, <2>4
<1>3. CASE DeletingReturns
  <2>1. awaited \in Fetch
    BY <1>3, LibraryConstants DEF DeletingReturns, LibraryTyped, Fetch
  <2>2. /\ FetchReturns(awaited) /\ awaited' = 0 /\ isDeleting' = FALSE /\ showDeleteConfirm' = FALSE
        /\ snapshot' = {} /\ deletes' = [s \in Streams |-> "none"]
        /\ UNCHANGED <<serviceVars, filterVars, selectedStreams, attempts, rtspVars>>
    BY <1>3 DEF DeletingReturns
  <2>a. /\ fetches' \in [Fetch -> [stage : {"free", "sent", "answered", "failed"}, list : SUBSET Streams]]
        /\ streams' \subseteq Streams /\ isLoading' \in BOOLEAN /\ listError' \in BOOLEAN
    BY <2>1, <2>2, ListIsTyped
  <2>b. deletes' \in [Streams -> {"none", "sent", "wait", "settled"}] /\ 0 \in 0 .. MaxFetches
    BY <2>2, LibraryConstants
  <2>3. LibraryTyped'
    BY <2>2, <2>a, <2>b DEF LibraryTyped, serviceVars, filterVars, rtspVars
  <2>4. DeletionInv'
    BY <2>2 DEF DeletionInv
  <2> QED BY <2>3, <2>4
<1> QED BY <1>1, <1>2, <1>3 DEF DeletionStep

\* So does the dialog that adds a stream.
LEMMA AddingKeepsLibrary ==
    ASSUME LibraryInv,
           \/ HandleAddRtspClick \/ FillForm \/ CloseAddRtsp \/ HandleSubmit \/ AddRtspSucceeds \/ AddRtspFails
    PROVE  LibraryInv'
<1> USE DEF LibraryInv
<1>1. UNCHANGED rtspFrame
  BY DEF HandleAddRtspClick, FillForm, CloseAddRtsp, HandleSubmit, AddRtspSucceeds, AddRtspFails
<1>2. DeletionInv'
  BY <1>1 DEF rtspFrame, deleteVars, DeletionInv
<1>3. rtspDialog' \in {"closed", "open", "filled"} /\ isSubmitting' \in BOOLEAN /\ adds' \in 0 .. 1
  <2>1. rtspDialog' \in {"closed", "open", "filled"} /\ isSubmitting' \in BOOLEAN
    BY Zenon DEF HandleAddRtspClick, FillForm, CloseAddRtsp, HandleSubmit, AddRtspSucceeds, AddRtspFails,
                 HandleClose, LibraryTyped
  <2>2. adds' \in {adds, adds + 1, adds - 1} /\ (adds' = adds + 1 => adds = 0) /\ (adds' = adds - 1 => adds > 0)
    BY DEF HandleAddRtspClick, FillForm, CloseAddRtsp, HandleSubmit, AddRtspSucceeds, AddRtspFails,
           LibraryTyped
  <2> QED BY <2>1, <2>2 DEF LibraryTyped
<1>4. CASE AddRtspSucceeds
  <2>1. \E i \in Fetch : FetchStreams(i)
    BY <1>4 DEF AddRtspSucceeds
  <2>2. library' \subseteq Streams /\ unused' \subseteq Streams
    BY <1>4 DEF AddRtspSucceeds, LibraryTyped
  <2>3. LibraryTyped'
    BY <1>1, <1>3, <2>1, <2>2, ListIsTyped DEF LibraryTyped, rtspFrame, filterVars, deleteVars
  <2> QED BY <1>2, <2>3
<1>5. CASE ~AddRtspSucceeds
  <2>1. UNCHANGED <<serviceVars, listVars>>
    BY <1>5 DEF HandleAddRtspClick, FillForm, CloseAddRtsp, HandleSubmit, AddRtspFails
  <2> QED BY <1>1, <1>2, <1>3, <2>1 DEF LibraryTyped, rtspFrame, filterVars, deleteVars, serviceVars, listVars
<1> QED BY <1>4, <1>5

\* Every step keeps the invariant.
LEMMA LibraryStaysSound == LibraryInv /\ [LibraryNext]_libraryVars => LibraryInv'
BY ListKeepsLibrary, ToolbarKeepsLibrary, DeletionStartsSound, DeletionGoesOnSound, AddingKeepsLibrary
   DEF LibraryNext

\* Deletions are guarded by it.
LEMMA LibraryInvIsEnough == LibraryInv => LibraryTypeOK /\ DeletesAreGuarded
BY LibraryTypes DEF LibraryInv, DeletionInv, DeletesAreGuarded

-----------------------------------------------------------------------------
(* The picture queue.                                                      *)

\* Tasks that wait in the queue q and the n of them, r, that run: no slot is free while
\* one waits, and none is there twice.
QueueSound(q, n, r) ==
    /\ q \in Seq(Cards) /\ IsInjective(q)
    /\ r \subseteq Cards /\ IsFiniteSet(r) /\ Cardinality(r) = n
    /\ n \in Nat /\ n <= MaxConcurrent
    /\ ToSet(q) \cap r = {}

PictureInv ==
    /\ timelines \subseteq Cards
    /\ card \in [Cards -> {"unmounted", "retry", "waits", "shown", "error"}]
    /\ looks \in [Cards -> 0 .. MaxLooks]
    /\ \A s \in Cards : card[s] = "retry" => looks[s] < MaxLooks
    /\ QueueSound(queue, activeCount, running)
    /\ queue # <<>> => activeCount = MaxConcurrent
    /\ inFlight = ToSet(queue) \cup running

\* No card waits at first.
LEMMA PicturesStartSound == PictureInit => PictureInv
<1> SUFFICES ASSUME PictureInit PROVE PictureInv
  OBVIOUS
<1>1. IsFiniteSet({}) /\ Cardinality({}) = 0
  BY FS_EmptySet
<1>2. <<>> \in Seq(Cards) /\ IsInjective(<<>>) /\ ToSet(<<>>) = {}
  BY DEF IsInjective, ToSet
<1>3. QueueSound(queue, activeCount, running)
  BY <1>1, <1>2, PictureConstants DEF PictureInit, QueueSound
<1> QED BY <1>2, <1>3, PictureConstants DEF PictureInit, PictureInv

\* Different cards in the order in which they wait: as many as the sequence is long.
LEMMA QueuesAreCounted ==
    ASSUME NEW q \in Seq(Cards), IsInjective(q)
    PROVE  IsFiniteSet(ToSet(q)) /\ Cardinality(ToSet(q)) = Len(q)
<1>1. q \in [1 .. Len(q) -> ToSet(q)] /\ Len(q) \in Nat
  BY DEF ToSet
<1>2. q \in Bijection(1 .. Len(q), ToSet(q))
  BY <1>1 DEF Bijection, Injection, Surjection, IsInjective, ToSet
<1>3. ExistsBijection(1 .. Len(q), ToSet(q))
  BY <1>2 DEF ExistsBijection
<1>4. IsFiniteSet(1 .. Len(q)) /\ Cardinality(1 .. Len(q)) = Len(q)
  <2>1. IsFiniteSet(1 .. Len(q)) /\ Cardinality(1 .. Len(q)) = IF 1 > Len(q) THEN 0 ELSE Len(q) - 1 + 1
    BY <1>1, FS_Interval
  <2> QED BY <1>1, <2>1
<1> QED BY <1>3, <1>4, FS_Bijection

\* The head of a sequence of different cards, and the rest.
LEMMA HeadsLeave ==
    ASSUME NEW q \in Seq(Cards), IsInjective(q), q # <<>>
    PROVE  /\ Head(q) \in Cards /\ Tail(q) \in Seq(Cards) /\ IsInjective(Tail(q))
           /\ Head(q) \notin ToSet(Tail(q)) /\ ToSet(q) = ToSet(Tail(q)) \cup {Head(q)}
<1>1. /\ Head(q) = q[1] /\ 1 \in 1 .. Len(q) /\ Tail(q) \in Seq(Cards) /\ Len(Tail(q)) = Len(q) - 1
      /\ \A i \in 1 .. Len(q) - 1 : Tail(q)[i] = q[i + 1]
  BY HeadTailProperties
<1>2. \A i, j \in 1 .. Len(q) : q[i] = q[j] => i = j
  BY DEF IsInjective
<1>3. IsInjective(Tail(q))
  <2> SUFFICES ASSUME NEW i \in 1 .. Len(q) - 1, NEW j \in 1 .. Len(q) - 1, Tail(q)[i] = Tail(q)[j]
               PROVE  i = j
    BY <1>1 DEF IsInjective
  <2>1. i + 1 \in 1 .. Len(q) /\ j + 1 \in 1 .. Len(q) /\ q[i + 1] = q[j + 1]
    BY <1>1
  <2> QED BY <1>2, <2>1
<1>5. ToSet(q) = {q[i] : i \in 1 .. Len(q)} /\ ToSet(Tail(q)) = {Tail(q)[i] : i \in 1 .. Len(q) - 1}
  <2>1. DOMAIN q = 1 .. Len(q) /\ DOMAIN Tail(q) = 1 .. Len(q) - 1
    BY <1>1
  <2> QED BY <2>1 DEF ToSet
<1>4. Head(q) \notin ToSet(Tail(q))
  <2> SUFFICES ASSUME NEW i \in 1 .. Len(q) - 1, Tail(q)[i] = q[1] PROVE FALSE
    BY <1>1, <1>5
  <2>1. i + 1 \in 1 .. Len(q) /\ q[i + 1] = q[1] /\ i + 1 # 1
    BY <1>1
  <2> QED BY <1>1, <1>2, <2>1
<1>6. ASSUME NEW i \in 1 .. Len(q) PROVE q[i] = q[1] \/ q[i] \in ToSet(Tail(q))
  <2>1. i = 1 \/ (i - 1 \in 1 .. Len(q) - 1 /\ i = (i - 1) + 1)
    OBVIOUS
  <2> QED BY <1>1, <1>5, <2>1
<1>7. ASSUME NEW i \in 1 .. Len(q) - 1 PROVE Tail(q)[i] \in ToSet(q)
  <2>1. i + 1 \in 1 .. Len(q)
    OBVIOUS
  <2> QED BY <1>1, <1>5, <2>1
<1> QED BY <1>1, <1>3, <1>4, <1>5, <1>6, <1>7

\* processNext fills one slot: with at most one task too many in the queue it leaves none
\* waiting behind a free slot.
LEMMA SlotsAreFilled ==
    ASSUME NEW q, NEW n, NEW r, QueueSound(q, n, r), ProcessNext(q, n, r),
           q # <<>> /\ Tail(q) # <<>> => n + 1 >= MaxConcurrent
    PROVE  /\ QueueSound(queue', activeCount', running')
           /\ queue' # <<>> => activeCount' = MaxConcurrent
           /\ ToSet(queue') \cup running' = ToSet(q) \cup r
<1> USE PictureConstants DEF QueueSound
<1>1. CASE n >= MaxConcurrent \/ q = <<>>
  BY <1>1 DEF ProcessNext
<1>2. CASE ~(n >= MaxConcurrent \/ q = <<>>)
  <2>1. queue' = Tail(q) /\ activeCount' = n + 1 /\ running' = r \cup {Head(q)}
    BY <1>2 DEF ProcessNext
  <2>2. /\ Head(q) \in Cards /\ Tail(q) \in Seq(Cards) /\ IsInjective(Tail(q))
        /\ Head(q) \notin ToSet(Tail(q)) /\ ToSet(q) = ToSet(Tail(q)) \cup {Head(q)}
    BY <1>2, HeadsLeave
  <2>3. IsFiniteSet(r \cup {Head(q)}) /\ Cardinality(r \cup {Head(q)}) = n + 1
    BY <2>2, FS_AddElement
  <2>4. QueueSound(queue', activeCount', running')
    BY <1>2, <2>1, <2>2, <2>3
  <2>5. queue' # <<>> => activeCount' = MaxConcurrent
    BY <1>2, <2>1
  <2> QED BY <2>1, <2>2, <2>4, <2>5
<1> QED BY <1>1, <1>2

\* A new task goes to the end of the queue.
LEMMA TasksJoin ==
    ASSUME NEW q, NEW n, NEW r, QueueSound(q, n, r), NEW s \in Cards, s \notin ToSet(q) \cup r
    PROVE  QueueSound(Append(q, s), n, r) /\ ToSet(Append(q, s)) = ToSet(q) \cup {s}
<1> USE DEF QueueSound
<1>1. /\ Append(q, s) \in Seq(Cards) /\ Len(Append(q, s)) = Len(q) + 1
      /\ \A i \in 1 .. Len(q) : Append(q, s)[i] = q[i]
      /\ Append(q, s)[Len(q) + 1] = s
  BY AppendProperties
<1>2. ToSet(Append(q, s)) = {Append(q, s)[i] : i \in 1 .. Len(q) + 1} /\ ToSet(q) = {q[i] : i \in 1 .. Len(q)}
  BY <1>1 DEF ToSet
<1>3. 1 .. Len(q) + 1 = (1 .. Len(q)) \cup {Len(q) + 1}
  OBVIOUS
<1>4. ToSet(Append(q, s)) = ToSet(q) \cup {s}
  BY <1>1, <1>2, <1>3
<1>5. IsInjective(Append(q, s))
  BY <1>1, <1>2, <1>3 DEF IsInjective
<1> QED BY <1>1, <1>4, <1>5

\* A card that asks finds its picture under way or puts it into the queue.
LEMMA AskingIsSound ==
    ASSUME PictureInv, NEW s \in Cards, Asks(s)
    PROVE  /\ QueueSound(queue', activeCount', running')
           /\ queue' # <<>> => activeCount' = MaxConcurrent
           /\ inFlight' = ToSet(queue') \cup running'
<1>1. CASE Shared(s)
  BY <1>1 DEF Asks, queueVars, PictureInv
<1>2. CASE ~Shared(s)
  <2>1. ProcessNext(Append(queue, s), activeCount, running) /\ inFlight' = inFlight \cup {s}
    BY <1>2 DEF Asks
  <2>2. s \notin ToSet(queue) \cup running
    BY <1>2 DEF Shared, PictureInv
  <2>3. QueueSound(Append(queue, s), activeCount, running) /\ ToSet(Append(queue, s)) = ToSet(queue) \cup {s}
    BY <2>2, TasksJoin DEF PictureInv
  <2>4. Tail(Append(queue, s)) # <<>> => activeCount = MaxConcurrent
    <3>1. queue = <<>> => Tail(Append(queue, s)) = <<>>
      OBVIOUS
    <3> QED BY <3>1 DEF PictureInv
  <2>5. /\ QueueSound(queue', activeCount', running')
        /\ queue' # <<>> => activeCount' = MaxConcurrent
        /\ ToSet(queue') \cup running' = ToSet(Append(queue, s)) \cup running
    <3>1. Tail(Append(queue, s)) # <<>> => activeCount + 1 >= MaxConcurrent
      BY <2>4, PictureConstants DEF PictureInv, QueueSound
    <3> QED BY <2>1, <2>3, <3>1, SlotsAreFilled
  <2> QED BY <2>1, <2>3, <2>5 DEF PictureInv
<1> QED BY <1>1, <1>2

\* An answered or failed request gives its slot to the next one.
LEMMA AnswersAreSound ==
    ASSUME PictureInv, NEW s \in Cards, PictureAnswered(s)
    PROVE  PictureInv'
<1>1. PICK ok \in BOOLEAN :
          /\ ProcessNext(queue, activeCount - 1, running \ {s})
          /\ card' = [card EXCEPT ![s] = IF @ # "waits" THEN @ ELSE IF ok THEN "shown" ELSE "error"]
  BY DEF PictureAnswered, Freed
<1>2. s \in running /\ inFlight' = inFlight \ {s} /\ UNCHANGED <<timelines, looks>>
  BY DEF PictureAnswered
<1>3. QueueSound(queue, activeCount - 1, running \ {s})
  <2>1. IsFiniteSet(running \ {s}) /\ Cardinality(running \ {s}) = activeCount - 1
    BY <1>2, FS_RemoveElement DEF PictureInv, QueueSound
  <2>2. activeCount - 1 \in Nat
    BY <2>1, FS_CardinalityType
  <2> QED BY <2>1, <2>2, PictureConstants DEF PictureInv, QueueSound
<1>4. queue # <<>> => (activeCount - 1) + 1 >= MaxConcurrent
  BY PictureConstants DEF PictureInv, QueueSound
<1>5. /\ QueueSound(queue', activeCount', running')
      /\ queue' # <<>> => activeCount' = MaxConcurrent
      /\ ToSet(queue') \cup running' = ToSet(queue) \cup (running \ {s})
  BY <1>1, <1>3, <1>4, SlotsAreFilled
<1>6. s \notin ToSet(queue)
  BY <1>2 DEF PictureInv, QueueSound
<1>7. /\ card' \in [Cards -> {"unmounted", "retry", "waits", "shown", "error"}]
      /\ \A c \in Cards : card'[c] = "retry" => card[c] = "retry"
  BY <1>1 DEF PictureInv
<1> QED BY <1>2, <1>5, <1>6, <1>7 DEF PictureInv

\* Every step keeps the queue sound.
LEMMA PicturesStaySound == PictureInv /\ [PictureNext]_pictureVars => PictureInv'
<1> SUFFICES ASSUME PictureInv, [PictureNext]_pictureVars PROVE PictureInv'
  OBVIOUS
<1> USE DEF cardVars, queueVars, pictureVars
<1>1. ASSUME NEW s \in Cards, NEW n \in 0 .. MaxLooks, Looks(s, n), UNCHANGED timelines PROVE PictureInv'
  <2>1. CASE s \in LiveCards \cup timelines
    <3>1. Asks(s) /\ card' = [card EXCEPT ![s] = "waits"] /\ looks' = [looks EXCEPT ![s] = 0]
      BY <1>1, <2>1 DEF Looks
    <3>2. /\ card' \in [Cards -> {"unmounted", "retry", "waits", "shown", "error"}]
          /\ looks' \in [Cards -> 0 .. MaxLooks]
          /\ \A c \in Cards : card'[c] = "retry" => looks'[c] < MaxLooks
      BY <3>1, PictureConstants DEF PictureInv
    <3> QED BY <1>1, <3>1, <3>2, AskingIsSound DEF PictureInv
  <2>2. CASE s \notin LiveCards \cup timelines
    <3>1. /\ card' = [card EXCEPT ![s] = IF n < MaxLooks THEN "retry" ELSE "error"]
          /\ looks' = [looks EXCEPT ![s] = n] /\ UNCHANGED queueVars
      BY <1>1, <2>2 DEF Looks
    <3>2. /\ card' \in [Cards -> {"unmounted", "retry", "waits", "shown", "error"}]
          /\ looks' \in [Cards -> 0 .. MaxLooks]
          /\ \A c \in Cards : card'[c] = "retry" => looks'[c] < MaxLooks
      BY <3>1, PictureConstants DEF PictureInv
    <3> QED BY <1>1, <3>1, <3>2 DEF PictureInv, QueueSound
  <2> QED BY <2>1, <2>2
<1>2. ASSUME NEW s \in Cards, CardMounts(s) PROVE PictureInv'
  BY <1>1, <1>2, PictureConstants DEF CardMounts
<1>3. ASSUME NEW s \in Cards, RetryTimer(s) PROVE PictureInv'
  <2>1. looks[s] + 1 \in 0 .. MaxLooks
    BY <1>3, PictureConstants DEF RetryTimer, PictureInv
  <2> QED BY <1>1, <1>3, <2>1 DEF RetryTimer
<1>4. ASSUME NEW s \in Cards, CardUnmounts(s) PROVE PictureInv'
  <2>1. /\ card' = [card EXCEPT ![s] = "unmounted"] /\ looks' = [looks EXCEPT ![s] = 0]
        /\ UNCHANGED <<timelines, queueVars>>
    BY <1>4 DEF CardUnmounts
  <2> QED BY <2>1, PictureConstants DEF PictureInv, QueueSound
<1>5. CASE TimelinesAnswered \/ UNCHANGED pictureVars
  BY <1>5 DEF TimelinesAnswered, PictureInv, QueueSound
<1> QED BY <1>2, <1>3, <1>4, <1>5, AnswersAreSound DEF PictureNext

\* What the queue promises follows.
LEMMA PictureInvIsEnough == PictureInv => PictureTypeOK /\ SlotsAreUsed
<1> SUFFICES ASSUME PictureInv PROVE PictureTypeOK /\ SlotsAreUsed
  OBVIOUS
<1> USE DEF PictureInv, QueueSound
<1>1. IsFiniteSet(Cards) /\ Cardinality(running) <= Cardinality(Cards) /\ Cardinality(Cards) \in Nat
  BY PictureConstants, FS_Subset, FS_CardinalityType
<1>2. PictureTypeOK
  BY <1>1 DEF PictureTypeOK, ToSet
<1>3. IsFiniteSet(ToSet(queue)) /\ Cardinality(ToSet(queue)) = Len(queue)
  BY QueuesAreCounted
<1>4. Cardinality(ToSet(queue) \cup running) =
          Cardinality(ToSet(queue)) + Cardinality(running) - Cardinality(ToSet(queue) \cap running)
  BY <1>3, FS_Union
<1>5. Cardinality(ToSet(queue) \cap running) = 0
  BY FS_EmptySet
<1> QED BY <1>2, <1>3, <1>4, <1>5 DEF SlotsAreUsed

-----------------------------------------------------------------------------
(* The four parts side by side.                                            *)

\* A part that does not run stands in its first state, but for the transfers that the
\* chat shares with the Video Management tab.
ManagementRests ==
    /\ VideoTyped
    /\ session = {} /\ unseen = {} /\ \A f \in Files : uploadProgress[f] = "none"

UploadsInv ==
    /\ ChatTyped
    /\ part = "management" => VideoInv
    /\ part # "management" => ManagementRests
    /\ LibraryInv /\ PictureInv

\* Every part starts sound.
LEMMA UploadsStartSound == Init => UploadsInv
<1> SUFFICES ASSUME Init PROVE UploadsInv
  OBVIOUS
<1>1. ChatTyped /\ VideoInv /\ LibraryInv /\ PictureInv
  BY ChatStartsTyped, VideosStartSound, LibraryStartsSound, PicturesStartSound DEF Init
<1>2. ManagementRests
  BY <1>1, VideoTypes DEF Init, VideoUploadsInit, VideoInv, ManagementRests
<1> QED BY <1>1, <1>2 DEF UploadsInv

\* The step of another part leaves a part as it is.
LEMMA RestingIsSound ==
    ASSUME ManagementRests, UNCHANGED managementPartVars
    PROVE  ManagementRests'
BY DEF ManagementRests, VideoTyped, managementPartVars, panelVars, loopVars

\* The part that runs keeps its invariant, the others rest.
LEMMA UploadsStaySound == UploadsInv /\ [Next]_uploadsVars => UploadsInv'
<1> SUFFICES ASSUME UploadsInv, [Next]_uploadsVars PROVE UploadsInv'
  OBVIOUS
<1>1. CASE /\ part = "chat" /\ ChatUploadNext
           /\ UNCHANGED <<chosenVars, managementPartVars, libraryVars, pictureVars>>
  <2>1. ChatTyped'
    BY <1>1, ChatStaysTyped DEF UploadsInv
  <2>2. ManagementRests' /\ part' # "management"
    BY <1>1, RestingIsSound DEF UploadsInv, chosenVars
  <2>3. LibraryInv' /\ PictureInv'
    BY <1>1, LibraryStaysSound, PicturesStaySound DEF UploadsInv
  <2> QED BY <2>1, <2>2, <2>3 DEF UploadsInv
<1>2. CASE /\ part = "management" /\ VideoUploadsNext
           /\ UNCHANGED <<chosenVars, chatPartVars, libraryVars, pictureVars>>
  <2>1. VideoInv' /\ part' = "management"
    BY <1>2, VideosStaySound DEF UploadsInv, chosenVars
  <2>2. ChatTyped'
    <3>1. TransferTypeOK'
      BY <2>1 DEF VideoInv, VideoUploadsTypeOK
    <3>2. ChatTyped /\ UNCHANGED chatPartVars
      BY <1>2 DEF UploadsInv
    <3> QED BY <3>1, <3>2 DEF ChatTyped, ChatUploadTypeOK, chatPartVars, dialogVars, popupVars, batchVars,
            chatListVars
  <2>3. LibraryInv' /\ PictureInv'
    BY <1>2, LibraryStaysSound, PicturesStaySound DEF UploadsInv
  <2> QED BY <2>1, <2>2, <2>3 DEF UploadsInv
<1>3. ASSUME part # "management", UNCHANGED <<chosenVars, transferVars, chatPartVars, managementPartVars>>,
             [LibraryNext]_libraryVars, [PictureNext]_pictureVars
      PROVE  UploadsInv'
  <2>1. UNCHANGED chatUploadVars
    BY <1>3 DEF chatUploadVars, chatPartVars
  <2>2. ChatTyped'
    BY <2>1, ChatStaysTyped DEF UploadsInv
  <2>3. ManagementRests' /\ part' # "management"
    BY <1>3, RestingIsSound DEF UploadsInv, chosenVars
  <2>4. LibraryInv' /\ PictureInv'
    BY <1>3, LibraryStaysSound, PicturesStaySound DEF UploadsInv
  <2> QED BY <2>2, <2>3, <2>4 DEF UploadsInv
<1>4. CASE UNCHANGED uploadsVars
  <2>1. UNCHANGED <<chosenVars, transferVars, chatPartVars, managementPartVars, libraryVars, pictureVars>>
    BY <1>4 DEF uploadsVars
  <2>2. CASE part = "management"
    <3>1. UNCHANGED videoUploadVars /\ part' = "management" /\ UNCHANGED chatUploadVars
      BY <2>1, <2>2 DEF videoUploadVars, chatUploadVars, managementPartVars, chatPartVars, chosenVars
    <3> QED BY <2>1, <2>2, <3>1, VideosStaySound, ChatStaysTyped, LibraryStaysSound, PicturesStaySound
            DEF UploadsInv
  <2> QED BY <1>3, <2>1, <2>2
<1> QED BY <1>1, <1>2, <1>3, <1>4 DEF Next

\* What the run checks of them follows.
LEMMA UploadsInvIsEnough ==
    ASSUME UploadsInv
    PROVE  UploadsTypeOK /\ VideoManagementIsSound
<1>1. /\ LibraryTypeOK /\ DeletesAreGuarded /\ PictureTypeOK /\ SlotsAreUsed
  BY LibraryInvIsEnough, PictureInvIsEnough DEF UploadsInv
<1>2. ChatUploadTypeOK /\ TransferTypeOK
  BY DEF UploadsInv, ChatTyped, ChatUploadTypeOK
<1>3. VideoUploadsTypeOK
  BY <1>2, VideoTypes DEF UploadsInv, ManagementRests, VideoInv
<1>4. CancelledFilesAreQuiet /\ ParallelLimit /\ CompletedUploadsAreSeen
  <2>1. CASE part = "management"
    BY <2>1, VideoInvIsEnough DEF UploadsInv
  <2>2. CASE part # "management"
    <3>1. {f \in Files : Current(f) /\ at[f] # "idle"} = {}
      BY <2>2 DEF UploadsInv, ManagementRests, Current
    <3>2. ParallelLimit
      BY <3>1, FS_EmptySet, ParallelConstant DEF ParallelLimit
    <3> QED BY <2>2, <3>2
            DEF UploadsInv, ManagementRests, CancelledFilesAreQuiet, CompletedUploadsAreSeen
  <2> QED BY <2>1, <2>2
<1> QED BY <1>1, <1>2, <1>3, <1>4 DEF UploadsTypeOK, VideoManagementIsSound

\* The uploads, the list of streams and the picture queue keep their types.
THEOREM UploadsAlwaysTyped == Spec => []UploadsTypeOK
BY UploadsInvIsEnough, UploadsStartSound, UploadsStaySound, PTL DEF Spec

\* The tab of the videos keeps its promises beside the chat: Cancel All leaves no request
\* behind, no more than NUM_PARALLEL_FILE_UPLOADS files are uploaded at once, the list is
\* fetched after every upload the panel calls complete, no sensor is deleted twice at once,
\* no picture waits behind a free slot.
THEOREM VideoManagementAlwaysSound == Spec => []VideoManagementIsSound
BY UploadsInvIsEnough, UploadsStartSound, UploadsStaySound, PTL DEF Spec
=============================================================================
