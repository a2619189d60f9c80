---------------------------- MODULE UploadTransfer ----------------------------
(* One file on its way to the agent: the upload URL, the chunks with their     *)
(* retries, /complete, the polling of the recorded-video job and its retry     *)
(* (lib-src/utils of the common package).  The chat dialog and the Video       *)
(* Management tab each run one such coroutine per file; their modules extend   *)
(* this one and say what they make of its outcome.                             *)
(*                                                                             *)
(* at[f] is the await the coroutine of file f stands at.  A response may be    *)
(* lost after the server has done its work, and an aborted request may have    *)
(* reached the server or not.                                                  *)
EXTENDS Naturals, FiniteSets

CONSTANTS
    Files,       \* the files a user may pick, each with its own id
    Chunks,      \* the chunks of a file
    MaxRetries   \* chunkedUpload's maxRetries

ASSUME TransferConstants == Chunks \in Nat \ {0} /\ MaxRetries \in Nat

VARIABLES
    at,          \* where the coroutine of each file waits
    chunk,       \* the chunk it sends
    tries,       \* failed attempts at that chunk
    aborted,     \* its AbortSignal
    stored,      \* the chunks the storage service holds
    job,         \* the recorded-video job of the file, on the server
    cancelling   \* files whose cancel request is under way

progressVars == <<at, chunk, tries, aborted>>
serverVars == <<stored, job>>
transferVars == <<progressVars, serverVars, cancelling>>

Waits == {"idle", "url", "chunk", "backoff", "complete", "poll", "sleep", "retry"}
Requests == {"url", "chunk", "complete", "poll", "retry"}
JobStates == {"none", "active", "completed", "failed", "cancelled"}

TransferTypeOK ==
    /\ at \in [Files -> Waits]
    /\ chunk \in [Files -> 1 .. Chunks]
    /\ tries \in [Files -> 0 .. MaxRetries]
    /\ aborted \in [Files -> BOOLEAN]
    /\ stored \in [Files -> SUBSET (1 .. Chunks)]
    /\ job \in [Files -> JobStates]
    /\ cancelling \subseteq Files

TransferInit ==
    /\ at = [f \in Files |-> "idle"]
    /\ chunk = [f \in Files |-> 1]
    /\ tries = [f \in Files |-> 0]
    /\ aborted = [f \in Files |-> FALSE]
    /\ stored = [f \in Files |-> {}]
    /\ job = [f \in Files |-> "none"]
    /\ cancelling = {}

-----------------------------------------------------------------------------
(* What the server makes of the requests it receives.                        *)

Stores(fs) ==
    stored' = [f \in Files |-> IF f \in fs /\ at[f] = "chunk"
                               THEN stored[f] \cup {chunk[f]} ELSE stored[f]]

\* /complete makes the job; a retry is accepted for a failed job only.
Queues(fs) ==
    job' = [f \in Files |->
        IF f \in fs /\ <<at[f], job[f]>> \in {<<"complete", "none">>, <<"retry", "failed">>}
        THEN "active" ELSE job[f]]

Receives(fs) == Stores(fs) /\ Queues(fs)

JobEnds(f) ==
    /\ job[f] = "active"
    /\ \E s \in {"completed", "failed"} : job' = [job EXCEPT ![f] = s]
    /\ UNCHANGED <<progressVars, stored, cancelling>>

\* A cancel request reaches the server or is lost; nobody waits for its answer.
CancelArrives(f) ==
    /\ f \in cancelling
    /\ cancelling' = cancelling \ {f}
    /\ job' = [job EXCEPT ![f] = IF @ = "active" THEN "cancelled" ELSE @]
    /\ UNCHANGED <<progressVars, stored>>

CancelIsLost(f) ==
    /\ f \in cancelling
    /\ cancelling' = cancelling \ {f}
    /\ UNCHANGED <<progressVars, serverVars>>

ServerStep == \E f \in Files : JobEnds(f) \/ CancelArrives(f) \/ CancelIsLost(f)

-----------------------------------------------------------------------------
(* The coroutine: each step runs from one await to the next.                 *)

GoesTo(f, wait) == at' = [at EXCEPT ![f] = wait] /\ UNCHANGED <<chunk, tries, aborted>>

\* The files fs start with a fresh AbortController.
Start(fs, wait) ==
    /\ at' = [f \in Files |-> IF f \in fs THEN wait ELSE at[f]]
    /\ aborted' = [f \in Files |-> aborted[f] /\ f \notin fs]
    /\ UNCHANGED <<chunk, tries, serverVars>>

UrlAnswered(f) ==
    /\ at[f] = "url"
    /\ GoesTo(f, "chunk")
    /\ UNCHANGED <<serverVars, cancelling>>

\* Mutant: the number of the last chunk is compared too late.
OneChunkMore(f) ==
    IF chunk[f] > Chunks
    THEN GoesTo(f, "complete")
    ELSE /\ chunk' = [chunk EXCEPT ![f] = @ + 1]
         /\ tries' = [tries EXCEPT ![f] = 0]
         /\ UNCHANGED <<at, aborted>>

NextChunk(f) ==
    IF chunk[f] = Chunks
    THEN GoesTo(f, "complete")
    ELSE /\ chunk' = [chunk EXCEPT ![f] = @ + 1]
         /\ tries' = [tries EXCEPT ![f] = 0]
         /\ UNCHANGED <<at, aborted>>

ChunkStored(f) ==
    /\ at[f] = "chunk"
    /\ Receives({f})
    /\ NextChunk(f)
    /\ UNCHANGED cancelling

\* Mutant: a failed attempt counts as sent.
SkipsChunk(f) ==
    /\ at' = [at EXCEPT ![f] = IF chunk[f] = Chunks THEN "complete" ELSE "chunk"]
    /\ chunk' = [chunk EXCEPT ![f] = IF @ = Chunks THEN @ ELSE @ + 1]
    /\ UNCHANGED <<tries, aborted>>

\* A failed attempt waits and tries the same chunk again.
Retries(f) ==
    /\ at' = [at EXCEPT ![f] = "backoff"]
    /\ tries' = [tries EXCEPT ![f] = @ + 1]
    /\ UNCHANGED <<chunk, aborted>>

ChunkAttemptFails(f) ==
    /\ at[f] = "chunk"
    /\ tries[f] < MaxRetries
    /\ \E got \in SUBSET {f} : Receives(got)
    /\ Retries(f)
    /\ UNCHANGED cancelling

\* The backoff is the one wait that an abort does not end; the attempt that
\* follows it looks at the signal.
WakesUp(f) == at[f] = "backoff" /\ UNCHANGED <<serverVars, cancelling>>
BackoffEnds(f) == WakesUp(f) /\ ~aborted[f] /\ GoesTo(f, "chunk")

CompleteAnswered(f) ==
    /\ at[f] = "complete"
    /\ Receives({f})
    /\ GoesTo(f, "poll")
    /\ UNCHANGED cancelling

PollSaysActive(f) ==
    /\ at[f] = "poll"
    /\ job[f] = "active"
    /\ GoesTo(f, "sleep")
    /\ UNCHANGED <<serverVars, cancelling>>

SleepEnds(f) ==
    /\ at[f] = "sleep"
    /\ GoesTo(f, "poll")
    /\ UNCHANGED <<serverVars, cancelling>>

RetryAccepted(f) ==
    /\ at[f] = "retry"
    /\ job[f] = "failed"
    /\ Receives({f})
    /\ GoesTo(f, "poll")
    /\ UNCHANGED cancelling

\* The steps that need nothing of the component.
Travels(f) ==
    \/ UrlAnswered(f) \/ ChunkStored(f) \/ ChunkAttemptFails(f) \/ BackoffEnds(f)
    \/ PollSaysActive(f) \/ SleepEnds(f) \/ RetryAccepted(f)

\* The coroutine ends: with the job's final status, or with an error (the last
\* attempt at a chunk, any other failed request, a retry that the server refuses).
PollSaysEnded(f) ==
    /\ at[f] = "poll"
    /\ job[f] \notin {"none", "active"}
    /\ GoesTo(f, "idle")
    /\ UNCHANGED <<serverVars, cancelling>>

TransferFails(f) ==
    /\ at[f] \in Requests
    /\ at[f] = "chunk" => tries[f] = MaxRetries
    /\ \E got \in SUBSET {f} : Receives(got)
    /\ GoesTo(f, "idle")
    /\ UNCHANGED cancelling

\* The files fs are aborted: those that wait for a response or between two polls end
\* at once, whether the server got the request or not.
EndedBy(fs) == {f \in fs : at[f] \notin {"idle", "backoff"}}
Abort(fs) ==
    /\ at' = [f \in Files |-> IF f \in EndedBy(fs) THEN "idle" ELSE at[f]]
    /\ aborted' = [f \in Files |-> aborted[f] \/ f \in fs]
    /\ \E got \in SUBSET EndedBy(fs) : Receives(got)
    /\ UNCHANGED <<chunk, tries>>

\* An aborted file that slept through the abort ends when it wakes up.
WakesUpAborted(f) == WakesUp(f) /\ aborted[f] /\ GoesTo(f, "idle")

-----------------------------------------------------------------------------
(* The promise of a chunked upload: /complete is only sent for a file whose   *)
(* chunks the storage service holds, all of them, however many attempts       *)
(* failed and whichever responses were lost.                                  *)
WholeFilesOnly == \A f \in Files : (job[f] # "none" \/ at[f] = "complete") => stored[f] = 1 .. Chunks
=============================================================================
