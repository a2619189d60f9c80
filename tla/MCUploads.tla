------------------------------ MODULE MCUploads ------------------------------
(* The parts of the frontend that move and delete videos, checked side by side *)
(* in one run.  They share no state: a behaviour is one of one part, the       *)
(* others stand still in their first state.                                    *)
EXTENDS ChatUpload, VideoUploads, VideoLibrary, PictureQueue

CONSTANTS video1, camera1

VARIABLES
    part,
    watched   \* the file or the card that the liveness properties are about

LStreams == {video1, camera1}
LCameras == {camera1}
LSensorOf == [s \in LStreams |-> camera1]
LMatching == {video1}

chosenVars == <<part, watched>>

\* The two uploads share the variables of UploadTransfer.
chatPartVars == <<dialogVars, uploaded, popupVars, batchVars, chatListVars>>
managementPartVars == <<selectedFiles, started, panelVars, loopVars, retryControllers, unseen>>
uploadsVars == <<chosenVars, transferVars, chatPartVars, managementPartVars, libraryVars, pictureVars>>

Init ==
    /\ part \in {"chat", "management", "library", "pictures"}
    /\ watched \in CASE part = "management" -> Files
                    [] part = "pictures" -> Cards
                    [] OTHER -> {part}
    /\ ChatUploadInit /\ VideoUploadsInit /\ LibraryInit /\ PictureInit
    /\ library = {video1}   \* a bound: the camera is added by the user or by somebody else

Next ==
    \/ /\ part = "chat" /\ ChatUploadNext
       /\ UNCHANGED <<chosenVars, managementPartVars, libraryVars, pictureVars>>
    \/ /\ part = "management" /\ VideoUploadsNext
       /\ UNCHANGED <<chosenVars, chatPartVars, libraryVars, pictureVars>>
    \/ /\ part = "library" /\ LibraryNext
       /\ UNCHANGED <<chosenVars, transferVars, chatPartVars, managementPartVars, pictureVars>>
    \/ /\ part = "pictures" /\ PictureNext
       /\ UNCHANGED <<chosenVars, transferVars, chatPartVars, managementPartVars, libraryVars>>

\* The fairness of the four parts.
Fairness ==
    /\ \A f \in Files :
           /\ WF_chatUploadVars(part = "chat" /\ CoroutineStep(f))
           /\ WF_chatUploadVars(part = "chat" /\ JobEnds(f) /\ ChatServerStep)
           /\ WF_videoUploadVars(part = "management" /\ VideoStep(f))
           /\ WF_videoUploadVars(part = "management" /\ JobEnds(f) /\ VideoServerStep)
    /\ WF_videoUploadVars(part = "management" /\ LoopStep)
    /\ WF_videoUploadVars(part = "management" /\ RefFollows)
    /\ WF_libraryVars(part = "library" /\ DeletionStep)
    /\ \A i \in Fetch : /\ WF_libraryVars(part = "library" /\ FetchAnswered(i))
                         /\ WF_libraryVars(part = "library" /\ ListReturns(i))
    /\ \A c \in Cards : /\ WF_pictureVars(part = "pictures" /\ PictureAnswered(c))
                         /\ WF_pictureVars(part = "pictures" /\ RetryTimer(c))

Spec == Init /\ [][Next]_uploadsVars /\ Fairness

-----------------------------------------------------------------------------

\* The type invariants of the four parts.
UploadsTypeOK == ChatUploadTypeOK /\ VideoUploadsTypeOK /\ LibraryTypeOK /\ PictureTypeOK

\* Cancel All leaves no request behind, sessions stay within NUM_PARALLEL_FILE_UPLOADS
\* and the list is fetched again after every upload that completed; one DELETE per
\* sensor at a time, under its dialog; no picture waits behind a free slot, whatever
\* the list becomes meanwhile.
VideoManagementIsSound ==
    /\ CancelledFilesAreQuiet /\ ParallelLimit /\ CompletedUploadsAreSeen
    /\ DeletesAreGuarded /\ SlotsAreUsed

\* UploadingEnds, QueuedFilesAreServed and PicturesSettle for the file or card that is
\* watched, and DeletingEnds: a chat's uploads come to their end, those queued behind a
\* session too, deletions are not left half way, and cards get a picture or give up.
WorkEnds ==
    (\/ part = "chat" /\ isUploading
     \/ part = "management" /\ isUploadingNow /\ watched \in ToSet(pendingFilesQueue)
     \/ part = "library" /\ isDeleting
     \/ part = "pictures" /\ card[watched] \in {"waits", "retry"})
        ~> (\/ part = "chat" /\ ~isUploading
            \/ part = "management" /\ uploadProgress[watched] # "pending"
            \/ part = "library" /\ ~isDeleting
            \/ part = "pictures" /\ card[watched] \notin {"waits", "retry"})
=============================================================================
