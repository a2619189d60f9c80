--------------------------- MODULE UploadSessions ---------------------------
(***************************************************************************)
(* One upload session of the API: chunks are reserved in the database,     *)
(* written to the file store and confirmed, three steps of which any can   *)
(* fail or come too late; the request that brings the last chunk assembles *)
(* the source and records its digest; /complete queues the job.            *)
(*                                                                         *)
(* calls[k].pc is the await a request handler stands at.  A reservation is *)
(* owned by the handler that holds its token.  A file and its digest are   *)
(* both the function from ordinals to contents, so that two of them are    *)
(* equal when the digests are.                                             *)
(***************************************************************************)
EXTENDS Naturals, FiniteSets

CONSTANTS
    Clients,     \* uploads sent to this session, each with its own identifier
    Contents,    \* what is sent as a chunk
    SenderOf,    \* SenderOf[x]: the client that may send x
    TotalOf,     \* TotalOf[c]: the chunks of c's file
    MaxStored,   \* max_upload_bytes, in chunks
    Calls,       \* requests that can be under way at once
    MaxMishaps,  \* a bound: crashes, failing writes, stalls and lost answers
    Nobody, NoFile

Ordinals == 1 .. MaxStored + 1
Files == UNION {[1 .. n -> Contents] : n \in Ordinals}

ASSUME UploadAssumption == /\ MaxStored \in Nat
                           /\ MaxMishaps \in Nat
                           /\ TotalOf \in [Clients -> Ordinals]
                           /\ SenderOf \in [Contents -> Clients]
                           /\ Nobody \notin Clients \cup Calls
                           /\ NoFile \notin Contents \cup Files

VARIABLES
    session,   \* upload_sessions: who bound it, received_chunks, status, expires_at
    rows,      \* upload_chunks, by ordinal
    parts,     \* chunk files, by ordinal
    source,    \* source/original.mp4
    sha256,    \* assets.sha256, NoFile for ''
    queued,    \* complete_upload has made the job
    calls,     \* [Calls -> Call]
    offered,   \* what is sent to this session; a client alone sends it in order
    acked,     \* the chunks that client was told are stored
    mishaps    \* so far (no code)

sessionRow == <<session, rows>>
fileVars == <<parts, source>>
clientVars == <<offered, acked>>
uploadVars == <<sessionRow, fileVars, sha256, queued, calls, clientVars, mishaps>>

NoRow == [status |-> "none", content |-> NoFile, owner |-> Nobody, lapsed |-> FALSE]
Row == {NoRow} \cup
    [status : {"reserved", "confirmed"}, content : Contents,
     owner : Calls \cup {Nobody}, lapsed : BOOLEAN]

\* n = 0 is a request of /complete; token says that a reservation was given.
Pc == {"idle", "reserve", "reread", "write", "confirm", "release", "report", "assemble",
       "complete", "finalize", "queue"}
Call == [pc : Pc, n : {0} \cup Ordinals, content : Contents \cup {NoFile},
         total : Ordinals, token : BOOLEAN, digest : Files \cup {NoFile}]

Idle == [pc |-> "idle", n |-> 0, content |-> NoFile, total |-> 1, token |-> FALSE,
         digest |-> NoFile]

\* A session no chunk has bound expects one chunk.
Total == IF session.client = Nobody THEN 1 ELSE TotalOf[session.client]

Confirmed == {n \in Ordinals : rows[n].status = "confirmed"}
Unbound == \A n \in Ordinals : rows[n] = NoRow
\* The frontend: one file, sent once.
InOrder == \E x \in Contents : offered = {x}
Uploader == CHOOSE c \in Clients : \E x \in offered : c = SenderOf[x]

\* The state create_recorded_video leaves behind.
SessionInit ==
    /\ session = [client |-> Nobody, received |-> 0, ready |-> FALSE, expired |-> FALSE]
    /\ rows = [n \in Ordinals |-> NoRow]
    /\ parts = [n \in Ordinals |-> NoFile]
    /\ source = NoFile /\ sha256 = NoFile
    /\ queued = FALSE
    /\ calls = [k \in Calls |-> Idle]
    /\ offered \in SUBSET Contents
    /\ acked = {}
    /\ mishaps = 0

-----------------------------------------------------------------------------
(* How a handler goes on                                                    *)

GoesTo(k, pc) == calls' = [calls EXCEPT ![k].pc = pc]

Mishap == mishaps < MaxMishaps /\ mishaps' = mishaps + 1

\* Nobody has the tokens of handlers that are gone.
Disowned(gone) ==
    [n \in Ordinals |->
        IF rows[n].owner \in gone THEN [rows[n] EXCEPT !.owner = Nobody] ELSE rows[n]]

Ends(k) == calls' = [calls EXCEPT ![k] = Idle]

\* An error answer.
Refused(k) == Ends(k) /\ UNCHANGED <<sessionRow, fileVars, sha256, queued, clientVars, mishaps>>

\* An answer 200, which the client sees unless it is lost.
Answered(k) ==
    /\ Ends(k)
    /\ \/ /\ acked' = IF InOrder THEN acked \cup {calls[k].n} ELSE acked
          /\ UNCHANGED mishaps
       \/ InOrder /\ Mishap /\ UNCHANGED acked
    /\ UNCHANGED offered

-----------------------------------------------------------------------------
(* Clients                                                                  *)

\* chunkedUpload awaits each chunk, and sends it again when it has no answer.
IsNext(n) == n \notin acked /\ 1 .. n - 1 \subseteq acked

SendChunk(k, x, n) ==
    /\ calls[k] = Idle
    /\ x \in offered /\ n <= TotalOf[SenderOf[x]]
    /\ InOrder => IsNext(n)
    /\ calls' = [calls EXCEPT ![k] =
           [Idle EXCEPT !.pc = "reserve", !.n = n, !.content = x]]
    /\ UNCHANGED <<sessionRow, fileVars, sha256, queued, clientVars, mishaps>>

SendComplete(k) ==
    /\ calls[k] = Idle
    /\ InOrder => TotalOf[Uploader] \in acked
    /\ calls' = [calls EXCEPT ![k] = [Idle EXCEPT !.pc = "complete"]]
    /\ UNCHANGED <<sessionRow, fileVars, sha256, queued, clientVars, mishaps>>

-----------------------------------------------------------------------------
(* reserve_upload_chunk                                                     *)

Reserving(k) == calls[k].pc = "reserve"
Sender(k) == SenderOf[calls[k].content]

Accepts(c) == Unbound \/ session.client = c

Reserves(k) ==
    /\ rows' = [rows EXCEPT ![calls[k].n] =
           [status |-> "reserved", content |-> calls[k].content, owner |-> k,
            lapsed |-> FALSE]]
    /\ calls' = [calls EXCEPT ![k].pc = "reread", ![k].token = TRUE]

ReserveNew(k) ==
    LET n == calls[k].n IN
    /\ Reserving(k) /\ Accepts(Sender(k))
    /\ rows[n] = NoRow
    /\ Cardinality({m \in Ordinals : rows[m] # NoRow}) < MaxStored
    /\ Reserves(k)
    /\ session' = [session EXCEPT !.client = IF Unbound THEN Sender(k) ELSE @]
    /\ UNCHANGED <<fileVars, sha256, queued, clientVars, mishaps>>

\* Mutant: the comparison with reservation_expires_at is turned round.
LiveIsReclaimable(n) == ~rows[n].lapsed

Reclaimable(n) == rows[n].lapsed

\* A reservation whose time is over passes to the same content.
ReserveAgain(k) ==
    LET n == calls[k].n IN
    /\ Reserving(k) /\ Accepts(Sender(k))
    /\ rows[n].status = "reserved" /\ rows[n].content = calls[k].content
    /\ Reclaimable(n)
    /\ Reserves(k)
    /\ UNCHANGED <<session, fileVars, sha256, queued, clientVars, mishaps>>

\* The chunk is there already: the handler owns nothing.
ReserveNothing(k) ==
    LET n == calls[k].n IN
    /\ Reserving(k) /\ Accepts(Sender(k))
    /\ rows[n].status = "confirmed" /\ rows[n].content = calls[k].content
    /\ GoesTo(k, "reread")
    /\ UNCHANGED <<sessionRow, fileVars, sha256, queued, clientVars, mishaps>>

ReserveRefused(k) ==
    LET n == calls[k].n IN
    /\ Reserving(k)
    /\ \/ ~Accepts(Sender(k))
       \/ rows[n] # NoRow /\ rows[n].content # calls[k].content
       \/ rows[n].status = "reserved" /\ ~Reclaimable(n)
       \/ rows[n] = NoRow /\ Cardinality({m \in Ordinals : rows[m] # NoRow}) >= MaxStored
    /\ Refused(k)

-----------------------------------------------------------------------------
(* The chunk file                                                           *)

\* get_upload_context, whose session write_chunk compares the ordinal with.
Reread(k) ==
    /\ calls[k].pc = "reread"
    /\ calls' = [calls EXCEPT ![k].pc = "write", ![k].total = Total]
    /\ UNCHANGED <<sessionRow, fileVars, sha256, queued, clientVars, mishaps>>

\* An exception in the handler releases its reservation first.
Throws(k) ==
    /\ IF calls[k].token THEN GoesTo(k, "release") ELSE Ends(k)
    /\ UNCHANGED <<sessionRow, fileVars, sha256, queued, clientVars>>

ToWrite(k) == calls[k].pc = "write" /\ (calls[k].token \/ parts[calls[k].n] = NoFile)
InRange(k) == calls[k].n <= calls[k].total

Written(k) == IF calls[k].token THEN "confirm" ELSE "report"

\* Mutant: os.replace, as assemble_source does.
Replaces(old, new) == new

\* The write that failed half way left a temporary file only.
Links(old, new) == IF old = NoFile THEN new ELSE old

WriteChunk(k) ==
    LET n == calls[k].n IN
    /\ ToWrite(k) /\ InRange(k)
    /\ parts' = [parts EXCEPT ![n] = Links(@, calls[k].content)]
    /\ parts'[n] = calls[k].content
    /\ GoesTo(k, Written(k))
    /\ UNCHANGED <<sessionRow, source, sha256, queued, clientVars, mishaps>>

ChunkRefused(k) ==
    /\ ToWrite(k)
    /\ \/ ~InRange(k)
       \/ Links(parts[calls[k].n], calls[k].content) # calls[k].content
    /\ Throws(k)
    /\ UNCHANGED mishaps

WriteFails(k) == ToWrite(k) /\ Throws(k) /\ Mishap

\* A chunk that is confirmed and on disk is not written again.
SkipWrite(k) ==
    /\ calls[k].pc = "write" /\ ~ToWrite(k)
    /\ GoesTo(k, "report")
    /\ UNCHANGED <<sessionRow, fileVars, sha256, queued, clientVars, mishaps>>

\* confirm_reserved_upload_chunk
Owns(k) == rows[calls[k].n].status = "reserved" /\ rows[calls[k].n].owner = k

\* _refresh_received_chunks counts the rows as they are after the transaction.
Refreshed(rs) == Cardinality({n \in Ordinals : rs[n].status = "confirmed"})

Confirm(k) ==
    LET n == calls[k].n IN
    /\ calls[k].pc = "confirm" /\ Owns(k)
    /\ rows' = [rows EXCEPT ![n].status = "confirmed", ![n].owner = Nobody,
                            ![n].lapsed = FALSE]
    /\ session' = [session EXCEPT !.received = Refreshed(rows')]
    /\ GoesTo(k, "report")
    /\ UNCHANGED <<fileVars, sha256, queued, clientVars, mishaps>>

ConfirmRefused(k) ==
    /\ calls[k].pc = "confirm" /\ ~Owns(k)
    /\ Throws(k)
    /\ UNCHANGED mishaps

ConfirmFails(k) == calls[k].pc = "confirm" /\ Throws(k) /\ Mishap

\* release_reserved_upload_chunk; a session without chunks can be bound again.
Release(k) ==
    LET n == calls[k].n IN
    /\ calls[k].pc = "release"
    /\ IF Owns(k)
       THEN /\ rows' = [rows EXCEPT ![n] = NoRow]
            /\ session' = [session EXCEPT
                   !.received = Refreshed(rows'),
                   !.client = IF \A m \in Ordinals : rows'[m] = NoRow THEN Nobody ELSE @]
       ELSE UNCHANGED sessionRow
    /\ Ends(k)
    /\ UNCHANGED <<fileVars, sha256, queued, clientVars, mishaps>>

ReleaseFails(k) ==
    /\ calls[k].pc = "release"
    /\ rows' = Disowned({k})
    /\ Ends(k) /\ Mishap
    /\ UNCHANGED <<session, fileVars, sha256, queued, clientVars>>

-----------------------------------------------------------------------------
(* The source                                                               *)

IsLast(k) == calls[k].n = TotalOf[Sender(k)]
Whole == session.received = Total

\* The answer of any other chunk is the number of chunks.
ReportCount(k) ==
    /\ calls[k].pc = "report" /\ ~(IsLast(k) /\ Whole)
    /\ Answered(k)
    /\ UNCHANGED <<sessionRow, fileVars, sha256, queued>>

ReportLast(k) ==
    /\ calls[k].pc = "report" /\ IsLast(k) /\ Whole
    /\ GoesTo(k, "assemble")
    /\ UNCHANGED <<sessionRow, fileVars, sha256, queued, clientVars, mishaps>>

PartsAreThere == \A n \in 1 .. Total : parts[n] # NoFile

\* assemble_source and _source_integrity
Assemble(k) ==
    /\ calls[k].pc = "assemble" /\ PartsAreThere
    /\ source' = [n \in 1 .. Total |-> parts[n]]
    /\ calls' = [calls EXCEPT ![k].pc = "finalize", ![k].digest = source']
    /\ UNCHANGED <<sessionRow, parts, sha256, queued, clientVars, mishaps>>

AssembleRefused(k) == calls[k].pc = "assemble" /\ ~PartsAreThere /\ Refused(k)

AssembleFails(k) ==
    /\ calls[k].pc = "assemble"
    /\ Ends(k) /\ Mishap
    /\ UNCHANGED <<sessionRow, fileVars, sha256, queued, clientVars>>

\* /complete reads the source that some chunk request has assembled.
ReadSource(k) ==
    /\ calls[k].pc = "complete" /\ source # NoFile
    /\ calls' = [calls EXCEPT ![k].pc = "finalize", ![k].digest = source]
    /\ UNCHANGED <<sessionRow, fileVars, sha256, queued, clientVars, mishaps>>

NoSource(k) == calls[k].pc = "complete" /\ source = NoFile /\ Refused(k)

\* finalize_assembled_source, called by both.
Fits(k) == /\ Cardinality(Confirmed) = Total
           /\ sha256 \in {NoFile, calls[k].digest}

FinalizeSource(k) ==
    /\ calls[k].pc = "finalize" /\ Fits(k)
    /\ sha256' = calls[k].digest
    /\ IF calls[k].n = 0
       THEN GoesTo(k, "queue") /\ UNCHANGED <<clientVars, mishaps>>
       ELSE Answered(k)
    /\ UNCHANGED <<sessionRow, fileVars, queued>>

SourceRefused(k) == calls[k].pc = "finalize" /\ ~Fits(k) /\ Refused(k)

\* complete_upload
QueueJob(k) ==
    /\ calls[k].pc = "queue"
    /\ IF queued \/ (sha256 # NoFile /\ Cardinality(Confirmed) = Total)
       THEN queued' = TRUE /\ session' = [session EXCEPT !.ready = TRUE]
       ELSE UNCHANGED <<session, queued>>
    /\ Ends(k)
    /\ UNCHANGED <<rows, fileVars, sha256, clientVars, mishaps>>

-----------------------------------------------------------------------------
(* Time and crashes                                                         *)

\* A handler that takes longer than lease_seconds, while it runs, is a mishap.
Lapses(n) ==
    /\ rows[n].status = "reserved" /\ ~rows[n].lapsed
    /\ rows' = [rows EXCEPT ![n].lapsed = TRUE]
    /\ IF rows[n].owner = Nobody THEN UNCHANGED mishaps ELSE Mishap
    /\ UNCHANGED <<session, fileVars, sha256, queued, calls, clientVars>>

\* A session lives for a day; uploads are taken to end before, handlers to run shorter.
Expires ==
    /\ session.ready /\ ~session.expired /\ \A k \in Calls : calls[k] = Idle
    /\ session' = [session EXCEPT !.expired = TRUE]
    /\ UNCHANGED <<rows, fileVars, sha256, queued, calls, clientVars, mishaps>>

\* cleanup_expired_sessions, called by the pipeline of any job.
CleanUp ==
    /\ session.expired /\ session.ready
    /\ session.received = Total /\ Cardinality(Confirmed) = Total
    /\ parts' = [n \in Ordinals |-> NoFile]
    /\ UNCHANGED <<sessionRow, source, sha256, queued, calls, clientVars, mishaps>>

\* The handlers of one API process, or of several.
Crash(gone) ==
    /\ gone # {} /\ \A k \in gone : calls[k] # Idle
    /\ calls' = [k \in Calls |-> IF k \in gone THEN Idle ELSE calls[k]]
    /\ rows' = Disowned(gone)
    /\ Mishap
    /\ UNCHANGED <<session, fileVars, sha256, queued, clientVars>>

-----------------------------------------------------------------------------

\* What a handler does next when nothing goes wrong.
HandlerStep(k) ==
    \/ ReserveNew(k) \/ ReserveAgain(k) \/ ReserveNothing(k) \/ ReserveRefused(k)
    \/ Reread(k)
    \/ WriteChunk(k) \/ ChunkRefused(k) \/ SkipWrite(k)
    \/ Confirm(k) \/ ConfirmRefused(k) \/ Release(k)
    \/ ReportCount(k) \/ ReportLast(k)
    \/ Assemble(k) \/ AssembleRefused(k) \/ ReadSource(k) \/ NoSource(k)
    \/ FinalizeSource(k) \/ SourceRefused(k) \/ QueueJob(k)

HandlerFails(k) == WriteFails(k) \/ ConfirmFails(k) \/ ReleaseFails(k) \/ AssembleFails(k)

ClientSends(k) ==
    \/ \E x \in Contents, n \in Ordinals : SendChunk(k, x, n)
    \/ SendComplete(k)

SessionNext ==
    \/ \E k \in Calls : ClientSends(k) \/ HandlerStep(k) \/ HandlerFails(k)
    \/ \E n \in Ordinals : Lapses(n)
    \/ Expires \/ CleanUp
    \/ \E gone \in SUBSET Calls : Crash(gone)

SessionSpec == SessionInit /\ [][SessionNext]_uploadVars

-----------------------------------------------------------------------------
(* Properties                                                               *)

SessionTypeOK ==
    /\ session \in [client : Clients \cup {Nobody}, received : 0 .. MaxStored + 1,
                    ready : BOOLEAN, expired : BOOLEAN]
    /\ rows \in [Ordinals -> Row]
    /\ parts \in [Ordinals -> Contents \cup {NoFile}]
    /\ source \in Files \cup {NoFile} /\ sha256 \in Files \cup {NoFile}
    /\ queued \in BOOLEAN
    /\ calls \in [Calls -> Call]
    /\ offered \subseteq Contents /\ acked \subseteq Ordinals
    /\ mishaps \in 0 .. MaxMishaps

\* Behind a confirmed row is a file with its content, whoever wrote it and whatever
\* stalled, failed or was taken over, until the session is cleaned up.
ConfirmedChunksAreStored ==
    \A n \in Confirmed : \/ parts[n] = rows[n].content
                         \/ parts[n] = NoFile /\ session.ready /\ session.expired

\* A session holds the chunks of one upload, also when it was bound more than once.
ChunksOfOneUpload ==
    \A n \in Ordinals : rows[n] # NoRow => SenderOf[rows[n].content] = session.client

\* What is assembled is the file whose chunks were confirmed, complete; the digest
\* is its own, and only then is there a job.
SourceIsTheUpload ==
    /\ source # NoFile => /\ Confirmed = 1 .. Total
                          /\ source = [n \in 1 .. Total |-> rows[n].content]
    /\ sha256 # NoFile => sha256 = source
    /\ queued => sha256 # NoFile

\* An answer 200 is given for chunks that are confirmed with the content that was
\* sent, and they stay so.
AnswersAreTrue ==
    /\ \A k \in Calls : calls[k].pc = "report" =>
           /\ calls[k].n \in Confirmed
           /\ rows[calls[k].n].content = calls[k].content
    /\ acked \subseteq Confirmed

\* The last chunk of a client that sends in order is the one that assembles: no
\* answer leaves it with a count where it waits for the sensor id.
LastChunkAssembles ==
    InOrder => \A k \in Calls : calls[k].pc = "report" /\ IsLast(k) => Whole

\* The steps of reserving, writing, confirming and assembling may be taken over, fail
\* or come late: chunks, source, digest and answers still agree.
SessionsAreSound ==
    /\ SessionTypeOK
    /\ ConfirmedChunksAreStored /\ ChunksOfOneUpload /\ SourceIsTheUpload
    /\ AnswersAreTrue /\ LastChunkAssembles

\* A file sent in order is assembled and queued, whatever crashed, stalled or failed
\* on the way: no reservation of a dead handler blocks it for good.
UploadIsQueued == InOrder ~> queued
=============================================================================
