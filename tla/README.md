# Verification of vsa-agent: the recorded-video service and its console

Two parts of vsa-agent keep state while several things happen at once.

- The backend, `src/src/vsa_agent/recorded_video` with its HTTP API: videos are
  uploaded, an ingest job is queued in SQLite, worker processes claim it under a
  lease, run a seven-stage pipeline, index one document per segment in
  Elasticsearch and publish.
- The frontend, `src/frontend/original-ui`: a React console with a chat, uploads,
  video management, alerts and search, whose handlers, promises, timers and
  renders interleave while the user goes on clicking.

This directory models both in TLA+, checks them with TLC and proves with TLAPS the
guarantees of the job tables, the worker's use of them and its attempt numbers, the
soundness of publication, deletions and upload sessions, and that the browser completes
whole files only.

Paths of the backend are relative to `src/src/vsa_agent/`, those of the frontend
to `src/frontend/original-ui/` (or name the file only), unless they start with
`docs/` or `tests/`.

## 1. Inventory

| Component | State | Operations | Hard part |
|---|---|---|---|
| Job repository, `recorded_video/repository.py` | SQLite tables jobs, job_steps, assets, asset_deletion_requests, asset_deletion_steps, step_claims, upload_sessions, upload_chunks, segments | one `BEGIN IMMEDIATE` transaction per method: claim, renew, release, recover, checkpoint, complete, retry, fail, cancel, delete, upload | callers with old handles and old clock readings, expiry, attempt numbers that are reused |
| Worker, `recorded_video/worker.py` | coroutines `run_once`, a pipeline task and a renewal task in each, the stop flag | claim, run, renew, clean up, record failures | task cancellation at any await, crash, lost lease, siblings cancelled together |
| Pipeline, `recorded_video/pipeline.py` | per attempt: manifest, stage, `projection_started` | seven stages with checkpoints, resume, publication, rollback, cancellation cleanup | resuming the checkpoints of other attempts; the commit and the index are not atomic |
| Elasticsearch projection, `recorded_video/es_index.py` | documents by segment id, each with job and attempt | scripted upsert fenced by attempt, delete by query | updates applied after the client gave up |
| Deletion service, `api/recorded_video.py` | request rows, steps done, step claims | prepare, four external steps, finalize | retries and crashes between steps, concurrent DELETEs, late jobs |
| Upload sessions, `api/recorded_video*.py`, `recorded_video/assets.py` | sessions, chunk rows, chunk files | reserve, write, confirm, assemble, complete, expire | one step of three failing, chunks out of order, two uploaders |
| Search readiness, `tools/embed_search.py` | none | filters hits by `is_asset_search_ready` | reads tables and index at different times |
| Segmenter, `recorded_video/segmenter.py` | none | segment boundaries | arithmetic at the end of the video |
| Providers, media, composition, configuration | none kept | HTTP calls, ffmpeg, wiring | only their outcome matters here: a result, a retryable or a permanent error |
| Agents, tools, evaluators, live video, acceptance runners, scripts | request-scoped | prompting, formatting, reports, process start | no shared durable state; not modelled |
| Chat sessions, `Chat.tsx`, `home.tsx`, `Chatbar.tsx`, `conversationDb.ts` | conversations in React state, in refs and in IndexedDB; requests, socket, flags | send, stop, edit, regenerate, switch, new, rename, delete, folders, import, clear, reload | closures over old lists, renders between a handler and its effects, answers for a conversation that is not on the screen |
| Answer stream, `pages/api/chat.ts`, `Chat.tsx`, `helper.ts` | buffers of the proxy and of the reader, the tree of steps | split lines, unwrap pieces, close, throttle, place steps | bytes cut anywhere, end marks, a stream that ends twice |
| Tab sessions, `conversationDb.ts` | IndexedDB keys per tab id | discover live tabs, sweep, wipe at pagehide | answers of other tabs come while the sweep waits |
| Chat uploads, `ChatFileUpload.tsx`, `UploadFilesDialog.tsx`, `common/lib-src/utils` | files with their coroutine, controller and status; the batch | pick, validate, upload in chunks, poll, retry, cancel, publish | lost responses, aborts at any await, a retry beside a batch |
| Video Management, `VideoManagementComponent.tsx`, `useStreams.ts`, `videoDelete.ts`, `utils.ts` | the upload session and its queue, the list of streams, deletions, the picture queue | batches, queue, Cancel All, delete by sensor, RTSP, fetch pictures | a queue filled after the loop's last look; partial failure; unordered answers |
| Alerts, `alerts/lib-src` | query, rows, timer chain, stored choices, drafts and rules, thumbnails | fetch, refresh, page, load more, save and delete rules | answers for an old query, a chain that must not break, a lost answer to POST |
| Search tab, `search/lib-src`, `useChatSidebarMainTabBridge.ts` | request, results, filters and tags, frames; the sidebar's turns | search, cancel, filter, search by image, hand over to the agent | results of several sources, aborted requests |
| Application shell, `Home.tsx` | active tab, loaded code, handed-over controls, storage | switch, load, hand over, reload | order of effects |
| Other parts of the frontend | none or iframes | markdown, charts, map, dashboard, themes | formatting; not modelled |

How they interact: the API process and the worker processes share nothing but
SQLite and the file store.  The worker hands the claimed `Job` (job id, owner
token, attempt) to the pipeline as its capability; the repository compares it
with the row in every transaction.  The pipeline talks to Elasticsearch outside
any transaction.

The frontend is a client: it sees the backend as requests that are answered,
fail or are lost.  Its panels share no state but the browser's storage; the chat
sidebar and the search tab talk through the bridge, which `SearchTab` contains,
and both upload components run the coroutine of `common/lib-src`, which is a
module of its own that theirs extend.

What makes each correct:

- repository: a lease is exclusive while it is live, no job is lost, checkpoints
  and `jobs.stage` agree, the asset shows the outcome of its current job, a
  deletion lets no job start and leaves nothing behind;
- worker: one coroutine per attempt, every job ends;
- pipeline and projection: a job is completed only with all its documents in the
  index, made by the attempt that publishes; afterwards nobody takes them away;
- deletion: after DELETE has answered "deleted", tables, index and files are empty;
- upload sessions: a confirmed chunk is on disk, the source is one client's file and
  complete, the digest is its own, a retry always gets through;
- search: what a search returns belongs to a published attempt;
- chat: a piece of an answer stands only in the conversation that asked, a reload
  finds what was on the screen, an answer is whole, blocked inputs come back;
- uploads: only whole files are completed, a cancelled file stays cancelled, a
  file is published once, everything that was queued is uploaded;
- panels: what is shown belongs to what was chosen last, requests that overtake
  each other change nothing, queues and timer chains never stop for good.

`PROJECT.json` lists 40 places where the code is exposed to interleaving,
crashes, old state or reordering, with the properties that cover each.

## 2. Modules

| Module | Models |
|---|---|
| `JobTables` | the tables and one operator per transaction of `repository.py` |
| `JobRepository` | those transactions under any callers; the invariants of the tables |
| `JobLifecycle` | abstract: what the job table promises, without clock, assets, checkpoints |
| `JobTablesProofs` | lemmas about the transactions: types, rows, attempt numbers |
| `JobRepositoryProofs` | theorems about `JobRepository` and `UploadSessions` |
| `WorkerProofs` | theorems about `RecordedVideoWorker` |
| `RecordedVideoWorker` | worker, pipeline and projection on top of `JobTables` |
| `AssetDeletion` | `DeletionService.delete`: steps, step claims, overlapping requests, next to the workers, the index and the files |
| `DeletionProofs` | theorems about `AssetDeletion` |
| `UploadSessions` | one upload session of the API: chunk rows, chunk files, the source, `/complete` |
| `ChatSession` | one chat instance: conversations, sidebar, HTTP and socket answers, renders and storage |
| `ChatSessionProofs` | theorems about `ChatSession` |
| `AnswerStream` | an answer from the agent through the proxy to the message |
| `IntermediateSteps` | the tree of steps above an answer |
| `TabSessions` | IndexedDB keys, the sweep and the wipe |
| `UploadTransfer` | one file on its way to the agent; extended by the next two |
| `ChatUpload`, `VideoUploads` | the uploads of the chat and of the Video Management tab |
| `UploadDialog` | rows, names and metadata of the upload dialog |
| `VideoLibrary`, `PictureQueue` | the list of streams with its deletions; the thumbnails of its cards |
| `Alerts`, `AlertsTable`, `AlertsSettings`, `RefreshPanel` | the alerts tab: query and refresh, pages, time window, interval |
| `AlertRules`, `ClipPlayer`, `StreamThumbnails` | rules and drafts, the video modal, thumbnails of sensors |
| `SearchTab`, `SearchFilters`, `ImageSearch` | searches and the bridge to the sidebar, filters and tags, search by image |
| `ShellTabs` | tabs of the application, their code, controls and storage |
| `UploadProofs` | theorems about the uploads of the browser, the list of streams and the picture queue |
| `MCJobRepository`, `MCRecordedVideoWorker`, `MCAssetDeletion` | constants and symmetry for TLC |
| `MCRepository` | job tables and an upload session side by side |
| `Console` | the panels of the frontend side by side, each in its own behaviours |
| `AnswerProofs` | theorems about `AnswerStream` and `IntermediateSteps`; lemmas about `FlattenSeq` and `SelectSeq` |
| `ConsoleProofs` | theorems about the panels, `AnswerProofs` included |
| `MCUploads`, `MCConsole` | upload modules side by side, in the same way; constants of `Console` for TLC |

`JobRepository` and `RecordedVideoWorker` both extend `JobTables`: the worker is
composed with the very operators the repository is checked with, and run
`worker_two_processes` checks that each of its steps is a step of
`JobRepository` (`UsesRepository`).  In its turn `JobRepository` implements
`JobLifecycle` (`ImplementsLifecycle`).  `AssetDeletion` extends
`RecordedVideoWorker`: its requests call the same transactions, and the workers
go on beside them with their own actions.

### Correspondence of state

| TLA+ | Code |
|---|---|
| `jobs[j].status, stage, attempt, cancel` | columns of `jobs`; `"absent"` is no row, stage 0 is NULL |
| `jobs[j].owner` | `lease_owner`, `NoOwner` for NULL |
| `jobs[j].lease` | `lease_until - now` |
| `jobs[j].wait` | `next_run_at - now` while the job is pending |
| `assets[a].status, current` | `assets.status` (deleted stands for `deleted_at` too), `current_job_id` |
| `steps[j][s]` | the row of `job_steps`: 0 for none, else the attempt in its manifest key |
| `requests` | `asset_deletion_requests` |
| `claims` | handles some caller may still use |
| `deleters` | assets with a `DeletionService.delete` past `prepare_asset_deletion` |
| `slots[s]` | a `run_once` coroutine: where it stands (`pc`), its handle, its stage |
| `docs[j][g]` | the document of segment g: 0 for none, else its attempt |
| `flight` | updates sent with a bulk and not applied yet |
| `faults` | faults so far, a bound of the model |
| `callers[c]` | a DELETE request: where `DeletionService.delete` stands (`pc`), its asset, its step |
| `done[a]` | rows of `asset_deletion_steps` |
| `stepOf[a][x]` | the row of `asset_deletion_step_claims`: owner token and `lease_until - now` |
| `files[a]` | which of derived files, source and upload directories exist |
| `session` | the row of `upload_sessions`: `client_identifier`, `received_chunks`, `status`, expiry |
| `rows[n]` | the row of `upload_chunks`: status, SHA-256 (`content`), whose handler has `reservation_token` (`owner`), whether `reservation_expires_at` has passed (`lapsed`) |
| `parts`, `source`, `sha256` | chunk files, `original.mp4`, `assets.sha256` |
| `calls[k]` | a chunk or `/complete` request: the await it stands at (`pc`), its chunk, what it has read |
| `offered`, `acked` | what clients send, and what the one that sends in order was told is stored |
| `strays` | assets a job without a lease has written something of (no code) |

A job of the model is a pair of asset and pipeline version (`UNIQUE` in
`complete_upload`).  A row deleted with its asset goes back to `"absent"`; the
code never reuses an id, and in the model a deleted asset accepts no upload.

In the frontend modules a variable has the name of the React state, ref or field
it stands for; a comment says so where the name had to differ.  The coroutines
are small: `at[f]` is the await an upload stands at, `requests` and `answers` of
`ChatSession` are `handleSend` calls with the values their closure holds,
`slots`, `calls` and `asks` are requests under way with what they were asked for.
`elders`, `swept`, `lost`, `chosenJson`, `askedIn`, `unseen` and `sentLines`
remember something for a property and influence nothing.

### Time

The code stores absolute times and compares them with a reading of the clock.
The model counts down, so its state stays finite.  Most callers read the clock
before `BEGIN IMMEDIATE` and may wait for the database lock up to
`busy_timeout`; such a transaction has a parameter `d`, the age of the reading,
with `0 <= d <= MaxLag`.  The transactions that call `self._now()` inside
(`start_pipeline`, `reset_steps_from`, `checkpoint_step`, `complete_pipeline`)
have age 0.  `TimeAssumption` asks `LeaseSeconds > MaxLag`; `config.yaml` has a
lease of 120 s and the busy timeout is 5 s.  Readings of different processes are
assumed to come from one clock: they run on one host, next to one SQLite file.

In `UploadSessions` a reservation may be over at any time; while its handler runs
that takes a handler slower than the lease and counts as a mishap.  A session lives
for a day (`expires_at`), so it expires only once its upload has ended and no handler
runs.

### Steps

A step of `JobRepository` is one transaction, committed.  A transaction that
raises changes nothing and is no step.  A step of `RecordedVideoWorker` is what
a task does between two awaits on the repository or on Elasticsearch; the
comment at the head of the module says what each `pc` stands for.  Each slot
interleaves three tasks: `run_once` and the pipeline (which wait for each other)
move `pc`, the renewal task acts whenever `Renewed` holds.  `Unwound` is Python's
exception path: a cancelled or failing pipeline passes through `except
BaseException` once its projection has begun.

A step of `AssetDeletion` is one transaction of a request or one external
operation.  A request reads the recorded steps once and skips them; a step
recorded since then is found by the refused claim and the second look.  Both
end with the next step, so `ClaimStep` looks at the steps when it claims.

A step of `UploadSessions` is one transaction, one file operation or one answer of a
request.  A content stands for the bytes of a chunk and their SHA-256 together; the
source and its digest are the function from ordinals to contents, so digests are
equal when files are.  A request whose handler raises releases its reservation
first, as the `except` of `upload_recorded_video_chunk` does; the answer itself may be lost.  The
abstract server of `UploadTransfer` is this session seen by a client that sends in
order.  A deletion beside the session is left out here: its part in the tables is in
`AssetDeletion`.

A step of the frontend is one task of the browser's event loop: what runs between
two awaits, callbacks or timers, with the render it causes and that render's
effects, because React flushes both before the next event of the user.  Where
the code waits for a render explicitly (`isUploadingRef` follows `isUploading`,
effects of a mounted panel, the first read of the storage) the effect is a step
of its own.  Timers fire at any time after they were set, so no property leans
on 100 ms, 200 ms or 1000 ms; the one exception is the 300 ms window of
`TabSessions`, within which tabs that run are assumed to answer.

Abstractions: the stages' output is abstracted to the attempt that made it, and
whether a stored checkpoint still validates is a free choice, except for the
indexing stage, whose documents name their attempt
(`_validate_projection_manifest`).  `claim_due_job` orders candidates by time;
the model leaves the order open and keeps only the priority of cleanup.  The
delete by query is atomic, and it sees what has been applied.  In
`RecordedVideoWorker` files are left out; in `AssetDeletion` a file is a part of
the asset that is there or not.  `soft_delete_asset` has no caller in the application and is left out.

In the frontend texts, names and pictures are values of small sets.  A message of
the chat is the sequence of questions its pieces answer; the lines of an answer
are pieces of text, steps, an end mark or noise, cut after any half line.  Pieces
the proxy writes are taken to be neither SSE nor JSON themselves, and a cut
inside a step's opening tag is left out: there the reader shows a part of the
tag (`Chat.tsx:1252`), which is a matter of wording.  The backend answers an
upload's job with a status that changes once, as `JobLifecycle` allows.

## 3. Runs

| Run | Instance | Distinct states | Shows |
|---|---|---|---|
| `repository` | 1 job, 2 owners, lag 1, lease 2, 2 stages, 2 attempts; a session with 2 clients, 3 contents, 2 requests, room for 2 chunks, 2 mishaps; fairness | 405 278 | leases, claims and tables of `JobRepository`, and that it implements `JobLifecycle`; chunks, source and digest of `UploadSessions` agree, and uploads get through |
| `repository_two_versions` | 2 versions of one asset, 2 owners, lag 0 | 279 833 | what two jobs do to the asset row they share |
| `worker_process` | 1 process, 2 slots, 3 stages, 2 segments, 2 faults | 104 876 | attempts, checkpoints and documents stay apart |
| `worker_two_processes` | 2 processes, lag 1, lease 2, 2 faults | 182 685 | the same across processes; the worker refines `JobRepository` |
| `worker_liveness` | 1 process, 2 slots, 2 stages, 2 faults, fairness | 167 146 | every job ends |
| `asset_deletion` | 2 requests, 2 slots, 1 asset, 1 fault, fairness | 391 881 | recorded steps stay done, a deleted asset is empty, deletions end |
| `chat_sessions` | 3 conversation ids, 2 questions, both modes, 1 disturbance, fairness | 633 293 | answers stay in their conversation, history survives, the chat is usable again |
| `uploads` | 2 files of 2 chunks, 1 retry; 1 sensor with 2 streams; 3 cards, 1 slot; fairness | 421 504 | uploads are whole, end, stay cancelled; deletions and pictures settle |
| `console` | fifteen panels with two or three of what each shows | 514 387 | late answers, paging, storage and streams of the panels |
| `searchable_jobs_are_indexed` | 1 fault, 1 attempt | violation | documents of a completed job can be deleted |
| `early_deletion` | 2 requests, 1 slot, no fault | violation | a job can run between the steps of a DELETE |
| `answer_is_lost` | up to 3 lines | violation | the end of a complete answer can be dropped by the proxy |

The modules composed in `MCUploads` and in `Console` share no state, and the two in
`MCRepository` meet only where `complete_upload` makes a new job, so nothing is gained by interleaving them and nothing is lost by not doing so: the variable
`part` picks one of them in the first state, its next-state relation runs and the
others stand still.  `watched` is the file or card a liveness property is about;
the fairness is that of the part that runs.  `UploadsTypeOK`, `VideoManagementIsSound`,
`WorkEnds`, `PanelsAreCurrent` and the like are conjunctions of the modules' own properties,
named where they are defined.

### Properties

Repository: `RunningRowsAreReclaimable` (no job is lost),
`OwnerNamesOneClaim` (a stale handle matches no row, though attempts repeat),
`TablesAgree` (`StageIsLatestStep`, `CompletedJobsAreComplete`,
`AssetShowsOutcome`, `DeletionStopsJobs`, `DeletedAssetsAreEmpty`),
`LiveLeaseKept` (nobody but the holder moves a job with a live lease),
`SearchReadinessIsStable`.

Upload sessions: `SessionsAreSound` (`ConfirmedChunksAreStored`; `ChunksOfOneUpload`:
a session bound more than once still holds one client's chunks; `SourceIsTheUpload`;
`AnswersAreTrue`; `LastChunkAssembles`: the last chunk of a client that sends in order
is the one that assembles), `UploadIsQueued` (no reservation of a dead handler blocks
an upload for good).

Worker: `OneExecutorPerAttempt`; `AttemptsAgree` (`StepsComeFromAttempts`,
`IndexIsNotAhead`, `PipelineStepsAreAccepted`, `CompletedJobsIndexTheirOwn`);
`PublicationIsSafe` (`PublishesOnlyWhatIsIndexed`, `PublishedDocumentsAreSafe`);
`JobsEnd`.

Deletion: `DeletionIsSound` (`RecordedStepsHold`: what a recorded step removed
does not come back; `DeletedAssetsLeaveNothing`; `DeletersRunAlone`: no job runs
between the steps of a requested deletion), `LiveClaimKept`, `DeletionsEnd`.  The
first two except writes by a job that has lost its lease, a late bulk or a
stalled coroutine: neither Elasticsearch nor the file store knows about leases,
and nothing in the code stops such a write.  `strays` marks the assets they touch
and nothing else.

Chat: `AnswersStayInTheirConversation`; `HistoryIsKept` (a reload shows the list
that was on the screen, and only deletions take a conversation off it while no
HTTP answer is under way: the end of one writes the list its closure captured);
`HttpProcessingEnds`; `TextsComeBackWhole` (a message holds the agent's answer, the
label of a time range means the range); `SweepSparesLiveTabs`.

Uploads: `WholeFilesOnly` (`/complete` is sent for files all of whose chunks are
stored), `PublishedOnceCompleted`, `CancelledStaysCancelled`,
`VideoManagementIsSound` (Cancel All leaves no request behind, the limit of
parallel uploads holds, the list is fetched after every upload the panel calls
complete; one deletion of a sensor at a time, under its dialog; no picture waits
behind a free slot), `WorkEnds` (uploads, deletions and pictures that were begun end).

Panels: `AlertsAreSound` (the rows are those of the toggle, the refresh chain is
alive, the stored choice survives), `BoundsAreKept`, `OneRulePerDraft`,
`NothingIsSkipped`, `PanelsAreCurrent`, `LastChoiceWins`, `SearchIsCancellable`,
`PiecesFindTheirPlace`.

Each property of a passing run has a mutant: an operator right before the
definition it replaces, marked "Mutant", that changes it as a plausible bug
would (a fence without its condition, a reset left out, an unfenced upsert).
TLC finds the property violated with it.

### Bounds

- Two owners, or slots, are what a conflict takes: the one that lost its lease
  and the one that took over.  `worker_*` has three owner tokens so that a token
  of a finished claim can still be in a slot while two others are live.
- `AttemptBound` caps the attempt counter in `DueForAttempt`.  Two attempts show
  every reuse of a number; `worker_*` has `MaxAttempts` 2 and one attempt more
  for manual retries.
- Stages: 2 or 3 instead of 7.  The stages before indexing differ only in what
  they compute; there is one in the small runs and the indexing and publish
  stages behave in a way of their own.
- Time: a lease of 1 or 2 units with lag 0 or 1 has every order of expiry, old
  reading and renewal; timers stop at `-MaxLag`, where they are expired for
  everybody.
- `MaxFaults` bounds crashes, errors, stops, failed bulks and lapsed leases
  together.  Two faults allow a fault during the recovery from another.  A tick
  that ends the lease of a slot that is still at work counts as a fault: the
  renewal task runs three times per lease, so it takes a stalled event loop.
  Refused renewals, lost leases and cancellations follow from those without
  being counted.

- `repository`: of the session's clients one has a file of two chunks with two possible
  contents for each, the other a file longer than the session may store.  Two requests
  are what a conflict over a reservation takes; the second mishap hits the recovery from
  the first.  `offered` is one file in order or everything in any order.
- `asset_deletion`: the second request is the one that resumes, waits for a claim
  or takes it over; one attempt is enough, because a deletion lets none begin;
  one segment, two stages, one fault.  The second slot cleans up after the first
  one while that still runs.  A tick that ends the claim of a request that is
  still at its step is a fault too: the claim lasts five minutes.
  `EarlyDeletes` says whether clients delete assets that are uploading: FALSE in
  `asset_deletion`, because of finding 2.

- `chat_sessions`: two questions are enough for an answer to be overtaken by the
  next one; three conversation ids let the user make one while the other two
  exist.  A disturbance is a use of the sidebar, of the mode switch, or a loss of
  the socket: one at any moment, because each of them is checked against every
  state of two answers.  Without the bound lists and closures multiply.
- `uploads`: two chunks and one retry have a lost first, last and repeated chunk;
  two files and one parallel upload make one wait in the queue.  Two streams of
  one sensor, one of them a camera, are what deletion by sensor is about.  Three
  cards and one slot let a picture wait behind a failing one.
- `console`: two requests under way at once overtake each other in both orders;
  8 alerts in pages of 1 and 3 give rows of buttons with both ellipses; the typed
  texts and numbers lie on both sides of each limit; three lines with any cut
  have the end mark before, behind and between pieces.

Deadlock is checked in the runs of the backend: time can always pass or somebody
can act.  It is not in those of the frontend, whose bounds on requests, files and
pages end the behaviour when the user has used them up.

### Fairness

`worker_liveness` assumes weak fairness of: a slot's claim, and its next step
when nothing goes wrong (the event loop runs every task that is ready; calls to
providers and to Elasticsearch have timeouts); a new round of `run_until_idle`
(`run` loops until `stop`, and a process that ended is started again, as the
runtime scripts' operator does); application of updates; the clock.  Nothing is
assumed of renewals, faults, stops, cancels, retries or uploads.

`repository` assumes of the upload session that handlers go on when nothing goes wrong,
that a reservation's time runs out, and that the client sends the next chunk, or the
same one after a lost answer, until `/complete` is answered: `chunkedUpload` retries and
the user can repeat an upload.  Nothing is assumed of mishaps, expiry or the clean-up.
The job tables of that run have safety properties only.

`asset_deletion` assumes the same, the next step of every request, and that some
request begins again and again while an asset has a deletion request: the answer
202 carries `Retry-After` and the client repeats its DELETE.  Without it the
deletion of an asset with a running job has nobody to end it.

`chat_sessions` assumes that a started HTTP answer goes on: each request's next
piece, end or failure comes (the proxy and the agent have timeouts).  Nothing is
assumed of the socket, of the user or of reloads.

`uploads` assumes that requests are answered or fail, timers fire, promises
resume, React renders and the backend's worker ends every job (`JobsEnd`).  It is
weak fairness of each coroutine, of the session's loop, of the deletion and of
each picture; nothing is assumed of the user or of lost cancel requests.

## 4. Findings

1. `searchable_jobs_are_indexed` (code): cancelling the pipeline task after
   `complete_pipeline` has committed deletes the documents of a completed job.
   The renewal task does this when it looks at the row between the commit and
   the return (owner is NULL then), or a sibling coroutine that raises.  The job
   stays completed and the asset ready with an empty index.
   `PublishedDocumentsAreSafe` shows that this rollback is the only way to lose
   a published document.
2. `early_deletion` (code): for an uploading asset `prepare_asset_deletion` makes
   no request row, and the steps of the deletion run all the same.  The upload
   can be completed between two of them; the job that follows writes files and
   documents after the steps that remove them were recorded, and they outlive the
   asset.  With a request row (`asset_deletion`) this cannot happen.
3. `answer_is_lost` (code): the proxy closes its stream at `data: [DONE]` and
   again in `finally`.  The exception of the second `close()` errors the stream,
   which drops what the browser has not read.  The backend ends every answer with
   that line.  `TextsComeBackWhole` shows that a stream that ends properly is read
   completely.

Some differences are modelled and not asserted, because no document says what is
meant; `PROJECT.json` lists them as hazards with a note: a manual retry after the
last attempt, recovery that moves a running job to queued, Cancel after the end of
a batch has dropped the controller of a retry, rows of the chat that keep an old
handler.

## 5. Proofs

All theorems hold for every value of the constants that meets the named
assumptions: any number of jobs, assets, owners, processes, coroutines, stages,
segments and attempts; any lease longer than the lag; any number of files, chunks
and retries; any number of clients, contents, concurrent requests and mishaps of an
upload session; any number of conversations, questions and interruptions of a chat.  TLC evaluates the assumptions in every run.

| Module | Theorem | Statement |
|---|---|---|
| `JobRepositoryProofs` | `TypeCorrect` | `Spec => []TypeOK` |
| | `RowsAreReclaimable` | `Spec => [](RunningRowsAreReclaimable /\ RunningAttemptsArePositive)` |
| | `ClaimsAreExclusive` | `Spec => []OwnerNamesOneClaim` |
| | `LiveLeasesAreKept` | `Spec => LiveLeaseKept` |
| | `TablesAlwaysAgree` | `Spec => []TablesAgree` |
| | `OutcomesAreShown` | `Spec => []AssetShowsOutcome` |
| | `SearchReadinessStays` | `Spec => SearchReadinessIsStable` |
| | `RepositoryImplementsLifecycle` | `Spec => ImplementsLifecycle` |
| | `SessionsAlwaysSound` | `SessionSpec => []SessionsAreSound` |
| `WorkerProofs` | `WorkerTypeCorrect` | `Spec => []TypeOK` |
| | `AttemptsHaveOneExecutor` | `Spec => []OneExecutorPerAttempt` |
| | `NumbersAreReached` | `Spec => [](StepsComeFromAttempts /\ IndexIsNotAhead)` |
| | `WorkersUseRepository` | `Spec => UsesRepository` |
| | `AttemptsAlwaysAgree` | `Spec => []AttemptsAgree` |
| | `PublicationAlwaysSafe` | `Spec => PublicationIsSafe` |
| `DeletionProofs` | `DeletionsAreSound` | `DeletionSpec => []DeletionIsSound`, if not `EarlyDeletes` |
| | `LiveClaimsAreKept` | `DeletionSpec => LiveClaimKept` |
| `UploadProofs` | `ChatUploadsAreWhole` | `ChatUploadSpec => []WholeFilesOnly` |
| | `ManagementUploadsAreWhole` | `VideoUploadsSpec => []WholeFilesOnly` |
| | `ChatPublishesOnce` | `ChatUploadSpec => []PublishedOnceCompleted` |
| | `ChatCancelsForGood` | `ChatUploadSpec => CancelledStaysCancelled` |
| | `UploadsAlwaysTyped` | `Spec => []UploadsTypeOK` |
| | `VideoManagementAlwaysSound` | `Spec => []VideoManagementIsSound` |
| `ChatSessionProofs` | `ChatAlwaysTyped` | `ChatSpec => []ChatTypeOK` |
| | `AnswersAlwaysStay` | `ChatSpec => []AnswersStayInTheirConversation` |
| | `HistoryIsAlwaysKept` | `ChatSpec => HistoryIsKept` |
| `AnswerProofs` | `AnswerAlwaysWhole` | `StreamSpec => [](StreamTypeOK /\ AnswerIsWhole)` |
| | `StepTreeAlwaysSound` | `StepSpec => [](StepTypeOK /\ StepTreeIsSound)` |
| `ConsoleProofs` | `AlertsAlwaysSound` | `AlertsSpec => []AlertsAreSound` |
| | `DraftsMakeOneRule` | `RulesSpec => []OneRulePerDraft` |
| | `SearchAlwaysCancellable` | `SearchTabSpec => []SearchIsCancellable` |
| | `LiveTabsAreSpared` | `TabSessionSpec => []SweepSparesLiveTabs` |
| | `BoundsAlwaysKept` | `Spec => []BoundsAreKept` |
| | `PanelsAlwaysCurrent` | `Spec => []PanelsAreCurrent` |
| | `NothingIsEverSkipped` | `Spec => NothingIsSkipped` |
| | `LastChoiceAlwaysWins` | `Spec => LastChoiceWins` |
| | `LabelAlwaysMeansItsRange` | `SettingsSpec => [](SettingsTypeOK /\ LabelMeansItsRange)` |
| | `MetadataGoesToItsFile` | `DialogSpec => [](DialogTypeOK /\ EntriesAreTheirOwn)` |
| | `ConsoleAlwaysTyped` | `Spec => []ConsoleTypeOK` |
| | `TextsAlwaysComeBackWhole` | `Spec => []TextsComeBackWhole` |
| | `PiecesAlwaysFindTheirPlace` | `Spec => []PiecesFindTheirPlace` |

`Spec` is that of the component: `JobRepository`, `RecordedVideoWorker`, `MCUploads`, `Console`.  The assumptions about the tables are
`JobsAssumption`, `StagesAssumption`, `TimeAssumption` and `BoundAssumption`; the
worker adds `SlotsAssumption`, `LimitsAssumption` and `BackoffAssumption`, the
deletion `CallersAssumption`, `ClaimAssumption` and that clients delete no asset that
is uploading (finding 2 is what happens otherwise; `LiveClaimsAreKept` does without
it); a panel has the assumption of its module, the chat `ChatBounds`; the uploads need `TransferConstants` and,
in the Video Management tab, `ParallelConstant`, `LibraryConstants` and
`PictureConstants` (a user chooses finitely many files, a page has finitely many
cards), the upload session `UploadAssumption`.

**Rows and claims.**  `RowInv` is the conjunction of `TypeOK`, `RowsOK` (each row
satisfies the two row invariants) and `OwnerNamesOneClaim`.  `OwnerNamesOneClaim`
alone is not inductive: that a lease call leaves the attempt of an owned row
alone needs that every transaction which takes the row from running clears the
owner, which is `RowsOK`.  `RowsOK` is about rows, so `JobTablesProofs` proves it
by lemmas about the helpers that rewrite one row (`CancelRow`, `RecoverRow`,
`DueRow`, `ClaimedRow`, `TickRow`) and one lemma per group of calls; the proofs
about the worker cite the same lemmas.  `LiveLeaseKept` is an action property
proved from `RowInv` at the first state of the step: a claim or a recovery needs
an expired lease, a lease that is live for a reading of age 0 is live for every
older one, and a call with a handle comes from the holder by `OwnerNamesOneClaim`.

**Tables.**  `TablesAgree` is inductive relative to `RowInv`.  Most transactions
write job rows only, and `RowMoves` says which moves of a row cannot break the
agreement: the stage stays, nothing becomes completed or failed, and a row of an
asset under deletion that could start no attempt still cannot.  The transactions
that also write assets, steps or requests are taken one by one.
`SearchReadinessIsStable` comes out of the same case split (`AgreementKept`).

**Lifecycle.**  The lifecycle takes a step per job, so `LifeStep` says of one row
when its move is such a step, and each transaction is shown to move every row so.
The proof needs `TablesAgree`: recovery cancels an expired row of an asset under
deletion at once, which is no step of a job that is executed, and only
`DeletionStopsJobs` excludes that such a row is one.

**Worker.**  `OneExecutorPerAttempt` looks like a consequence of exclusive leases
and is not one: a coroutine may have lost its lease and still be executing, and
`release_claim` gives its attempt number back to the next claim.  `Used(j)` is
the set of all numbers in use for a job: by checkpoints, documents, updates under
way and coroutines that have begun an attempt and may still write or roll back its
documents (`Begun`).  `AttemptsFit` says that none is above
`jobs[j].attempt`, and that a claim which may still start (`MayStart`: the row
has its owner and no cancel flag) has a number above every one in use.  So a
release gives back a number nobody used, and a start takes one nobody else has.
`AttemptInv` is `AttemptsFit`, the fact that no two coroutines hold the same token
(`OwnersDiffer`), and that no two have begun the same attempt (`AttemptsDiffer`), of
which `OneExecutorPerAttempt` is the part about coroutines in the pipeline; the part
about rollbacks is what publication needs.  All steps but a claim, a release and a start
write only numbers that were in use (`QuietStep`); there is one lemma per group
of steps, and three for the steps that remain.

**Refinement.**  `WorkersUseRepository` maps the handles of the coroutines to
claims (`Held`).  The tables are the same variables on both sides, so the
transactions of the instance are those of the worker, and what is left to show is
that each is called with a handle that is a claim, and which claims it makes or
forgets.  The theorems about `JobRepository` therefore hold under the workers.

**Stages.**  `AttemptsAlwaysAgree` adds to types and numbers that the pipeline presents
only checkpoints and completions the repository accepts.  `StageInv` has two parts.
`StagesInOrder` is about a row: its checkpoints are exactly those of the first
`jobs.stage` stages, the last one comes with the completion, and a completed job's
indexing checkpoint is its own attempt's.  `StageFits` is about a coroutine whose token
is still in the row: it stands where the row says, so what it read before an await
(no checkpoint of this stage, all stages done) still holds after it.  It must say
nothing of a coroutine whose token is gone, which may go on in a stage that a later
attempt has reset.  Steps fall into those that leave stages and checkpoints alone
(`RestKeeps`: rows keep their stage, no coroutine enters one) and the steps of the
holder (`HolderKeeps`: as tokens differ, no other coroutine relies on the row).

**Publication.**  `PublicationAlwaysSafe` rests on `PublishInv`: while the token of a
coroutine is in the row and its bulk is under way or acknowledged, each document of
its attempt is in the index, or, before the acknowledgement, among the updates under
way (`Acknowledged`).  Everybody who writes the index is excluded for a reason of its
own: an update of an older attempt by the fence, one of a newer attempt because no
number is above `jobs[j].attempt` (`UpdatesAreFenced`); a rollback, which needs no
lease, because no other coroutine has begun this attempt (`AttemptsDiffer`); a cleanup
because it needs the token (`OwnersDiffer`), and of a completed job because it needs a
running row.  Without the token nothing is claimed: a coroutine that has lost its lease
between the acknowledgement and `complete_pipeline` may find its documents overwritten,
and is refused.

**Deletion.**  What a request records must stay so until the asset is deleted, while
nothing locks the asset.  It does because the asset is `Quiet` from the first step on:
no job of it runs, and none can start, since every transaction that would make one
pending or claim one looks at the request row, or finds the row of the asset deleted.
`DeletionInv` says that an asset is quiet while a request is `UnderWay` or a step is
recorded, that a request has the steps before its own recorded (`CallFits`), and that
what it is about to record is so although its claim may be long gone.  `Undisturbed`
says of a transaction that quiet assets stay quiet; `WorkerUndisturbed` shows it for
every step of the workers, of the API beside deletions and of the clock, by the groups
of calls that `WorkersUseRepository` uses (`TableCases`).  Then whatever still comes
into the files or the index of a quiet asset is written by a coroutine without a lease
or by a late bulk, and `strays` has the asset (`NothingNew`).  `InvStays` reduces each
action to these three.  The attempt numbers are not used here: `finalize_asset_deletion`
resets them, so of the worker's invariants only types and rows (`Good`) survive a
deletion.

`LiveClaimKept` needs more than the guard of the claim: `finalize_asset_deletion` drops
every claim of the asset, those of others too.  It may, because it comes after the last
step, and that no other request still holds a live claim then is an invariant about what
is recorded: a recorded step is claimed by nobody (`ClaimsOK`), and a request reaches the
end only over recorded steps (`Progresses`).

**Uploads.**  `WholeFilesOnly` is not inductive: what makes it true at the last
chunk is that all earlier ones are stored, although the coroutine only counts
(`EarlierChunksAreStored`).  `TransferInv` is the conjunction of both with the
types.  `UploadProofs` proves it inductive for every way a component may
move a coroutine (`TransferMoves`), one lemma per kind of step: a request leaves
chunks and jobs behind even when its answer is lost or it is aborted
(`RequestsAreSafe`).  It then shows that each action of the two
components is such a step or leaves the transfers alone.

The chat: `ChatInv` says of each file who keeps its coroutine.  One of a batch can be
aborted by its controller or was and sleeps (`Dozing`, the backoff being the one wait no
abort ends); a file shown as failed has none, so a retry never meets the batch's
(`ErrorInv`); a file that was published, or that its batch will publish, has a completed
job and nothing that could publish it again (`PublicationInv`, `SuccessInv`).
`CancelledStaysCancelled` follows: the only coroutine a cancelled file may have is dozing.

The Video Management tab: `VideoInv`.  What waits is there once and has no coroutine
(`LoopInv`, `WaitingInv`); whatever has one is in the batch of the session, is being
retried, or was aborted in its sleep (`OwnerInv`), which bounds the files uploaded at once
by the batch and leaves a cancelled one without requests.  A completed file whose row is
shown and that the list was not fetched for is one the running loop knows of
(`UnseenInv`).  `VideoInv` was model-checked on three files, two at a time (3.4 million
states), before it was proved.
That every completed file is fetched for, shown or not, is false, and looking for the
invariant showed why: a file queued between the end of a loop and the render that follows
it is taken by the next session, which has replaced the list, so it has no row; Cancel All
then counts the rows that succeeded (402), finds none, and asks for no list, although that
file's job has completed.  It takes four files (the run has two), and the video appears with
the next fetch: `CompletedUploadsAreSeen` speaks of the rows that are shown.

The list: a deletion under way keeps its dialog, and nothing of it is left when it is
over, so the next one finds no request of the same sensor (`DeletionInv`).  The picture
queue: cards that wait differ from each other and from those that run, and the promises
to share are exactly these (`PictureInv`); `processNext` fills one slot for every task that
joins and every slot given back (`SlotsAreFilled`).  `UploadsInv` puts the four side by side.

**Upload sessions.**  `SessionInv` strengthens `SessionsAreSound` by what ties handlers
to rows: `received` is the number of confirmed rows; the owner of a reservation is a
handler that stands between reserving and confirming that very chunk, and once it has
written, the file holds its content (`OwnerFits`); what a handler has read of the
session and of the files still holds where it uses it (`CallFits`).  The argument
splits on whether all chunks are confirmed.  In an open session nothing is assembled
and no handler stands there (`OpenSession`), so rows may come and go; in a complete one
no row is free and no reservation is left (`FullIsSettled`), so nothing can be
rebound, and every assembly of the source gives the same file.  A confirmed chunk keeps
its file although handlers overlap, because `os.link` never replaces one (`Links`; with
`os.replace` TLC finds the violation).  `LastChunkAssembles` is a consequence: a client
in order sends chunk n after the answers for all before it, and those are confirmed.

**Chat.**  The text of a message is the sequence of the questions it answers, so that a
conversation holds only its own answers is a matter of types: `OwnConversations` are those
whose messages are sequences over the questions asked in them, `OwnLists` lists of such
with every id once.  `ChatInv` says it of everything that holds a conversation: the state,
the ref, IndexedDB, and the closures of requests and of sends that wait for the socket,
each of which belongs to the conversation its question was asked in (`RequestsOf`,
`ResendsOf`, `AnswersOf`).  A question is asked once, so asking spoils nothing
(`AskingKeepsLists`); the rest is one lemma per operator (a piece, a question, a deletion,
an update, a filter) and one per handler.  `RowsKnowTheirPlace` is there for the edit of a
row that was rendered long ago: the number of messages it drops is never negative.
`HistoryIsKept` adds two facts: IndexedDB holds the list on the screen, and unless an HTTP
answer is in flight no conversation of the list is missing from the ref that the WebSocket
handlers write the list from (`RefKeepsUp`).  The ref lags while an answer streams, and
what makes the second fact inductive is that every way to lengthen the list then either
goes through the ref or ends the streaming.

**Panels.**  A behaviour of `Console` is one of each panel (`ConsoleRunsThePanels`), so
each panel is proved on its own, with an inductive invariant of its own:
- alerts: before the stored choice is read the page behaves as if auto-refresh were on,
  and what was read is what is stored (`ChoiceIsPending`); a new request takes a free
  slot, so the timer chain waits for its own request and for no other;
- rules: a row whose save is under way is marked or discarded, a draft that has made a
  rule is past its save, and a list that a save waits for is that save's only;
- paging: the request for older alerts remembers the rows that sent it
  (`RequestFollowsRows`); that pages partition the rows is arithmetic of ranks and
  quotients (`PagesPartitionTheRows`), the row of buttons a case distinction
  (`ButtonsAreInOrder`);
- time range: the error of the input is that of its text, so that what is set has been
  looked at (`ErrorIsOfTheText`);
- thumbnails: no answer is there before its request (`AnswersFollowRequests`);
- image search: an open overlay lies on a paused clip, and a look that may still put a
  frame on the screen looks at what is paused there (`LooksAreHere`);
- tab sessions: a tab that was running when a page started has been asked, has answered
  or is known to live (`EldersAreReached`), and both stay on the channel; the sweep waits
  until nothing is under way;
- clips: the spinner belongs to the call made last, until that one's own answer
  (`SpinnerFollows`); shell: controls are taken only together with the ref of their tab
  (`HandedOverOnce`);
- filters and search: the property itself with the types;
- upload dialog: a check that is under way names a JSON file that was chosen for its row
  (`ChecksAreChosen`), rows have numbers of their own that are never given again
  (`RowsOwn`), so a check that ends after its row was removed, or after another opening,
  finds no row or its own; `FilteredEmbeds` says that removal keeps the order.

The types of the table and of the shell need their invariants: that the page exists, and
that a tab whose controls are shown is one of the list.  `ConsoleAlwaysTyped` puts the
types of the fifteen panels together.

**Answer.**  `AnswerIsWhole` compares the message with what the agent sent, and says
nothing of what lies between; `StreamInv` does.  There are bytes the page has consumed,
those it holds back because a step's opening tag may be cut (`partial`), those on their
way (`out`) and pieces the proxy has queued.  Joined in this order (`Whole`) they are the
bytes of the answer so far (`BytesOf`), with what the queue held in place of the queue
once the stream was errored, which drops it (`Carried`).  Text and steps of the message,
with those not dispatched yet, are text and steps of what was consumed.  A step of the
agent adds nothing until its line is read; a read of the proxy adds the same pieces to
`Answer` and to the queue (`ReadAnswers`, `EnqueueSends`, `CloseSends`); a read of the page
moves bytes from one part to the next, and cutting at an open tag loses none
(`TagHeldBack`).  Text and steps are filters of the bytes, filters go over concatenation
(`OfKindConcat`), and what is held back is one opening tag, which is neither; so at the
end, with nothing on its way, the message has all of both.

**Steps.**  The tree is a sequence of entries with depths.  `TreeInv` says what it must be
for that to be a tree: no entry is more than one level below the one before (`Walked`),
each has the parent it names (`UnderTheirParents`), those beside each other come in the
order of their messages (`InOrder`), and an index is that of a message already heard
(`Indexed`).  A new step goes behind all that is under its parent (`GrownTree`), an update
drops what was under the old entry (`CutTree`); both are proved of three parts of a
sequence, whatever the operators that cut it.  `ShowTheLast` (each entry shows its last
message) and `Differ` (no two entries for one step) hold where messages override, and
only there.  What may still stream, `IsLast`, is a recursive function; that the last path
ends at the last entry is induction along the entries above.

**Label.**  A window is written unit by unit, and `WrittenTo` says after each: what is
written and what is left make the window, and the units written so far are in order.
After the minutes nothing is left.  `HasValidUnitOrder` accepts the text for that reason;
`TotalAppend` is the step of the parser.

**Recursion.**  `FlattenSeq` of the community modules and `TotalMinutes` are recursive
functions, and proofs by induction take a detour: the provers cannot instantiate an
operator parameter, so `FullByInduction` is about a set of naturals, and follows from
`LeastNatural`.  A recursive definition is first shown to exist (`FlattenExists`,
`SumsExist`) and to be the only one (`FlattenUnique`, `SumsUnique`); that gives its two
equations, `FlattenAppend` and `FlattenEmpty`, and everything after uses only these.
`FormatTimeWindow` is written as the six steps of the code rather than as a fold, and the
pieces of a kind as a `FlattenSeq`, so that they can be reasoned about.

Every invariant and every action property that a passing run checks is proved.  What
stays with TLC is all liveness, which with fairness and `ENABLED` is out of the prover's
reach: `UploadIsQueued`, `JobsEnd`, `DeletionsEnd`, `HttpProcessingEnds`, `WorkEnds`; and
the three findings, which are counterexamples.

## 6. Not modelled

Backend: the creation of a session that fails half way (`delete_upload_session`), a
deletion beside an upload session, requests that come after a session's day is over,
`record_chunk` (no caller in the application); reading search results;
the arithmetic of the segmenter; ffmpeg, HTTP clients, configuration and wiring,
agents, report tools, evaluators, acceptance runners and process scripts (a
restart is the `Crash` action).

Frontend: markdown, charts and other rendering, layout, themes, translations,
URL validation and environment tables, which are pure; map and dashboard, which
are iframes; interaction modals, feedback and speech input of the chat, which
add messages by the ways that are modelled; the servers in `proxy/`, which only
tests use.  The endpoints of the proxy besides the streaming ones answer with one
body and keep nothing.

## 7. Order of the work

Most important first: tables, workers, deletion; then the frontend, whose chat
and uploads come before its panels because they write what others keep.  Upload
sessions of the API follow, with the proofs.  What would come next: `UploadSessions`
composed with `UploadTransfer`, which would replace its abstract server; search
readiness against the index.
