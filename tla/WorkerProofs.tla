---------------------------- MODULE WorkerProofs ----------------------------
(***************************************************************************)
(* Proofs about RecordedVideoWorker for any number of slots, processes,    *)
(* jobs, owner tokens, segments and faults: types; no two coroutines ever  *)
(* execute the same attempt; every step is a step of JobRepository, with   *)
(* the handles the coroutines hold as its claims, or leaves tables and     *)
(* claims alone, so that what is proved of JobRepository holds of the      *)
(* tables under the workers.                                               *)
(***************************************************************************)
EXTENDS RecordedVideoWorker, JobTablesProofs, SequenceTheorems

USE DEF Lags

-----------------------------------------------------------------------------
(* Slots *)

Working(slot) == slot.pc \notin {"idle", "done"}
InPipeline(slot) == slot.pc \in {"stage", "work", "save", "publish", "bulk",
                                 "indexed", "committed"}

\* It has begun an attempt and is not through with it: a rollback may still take
\* away the attempt's documents.
Begun(slot) == \/ InPipeline(slot)
               \/ slot.pc = "rollback"
               \/ slot.pc = "cleanup" /\ slot.after = "projected"

\* A coroutine that is at work has a handle, and runs a stage there is.
SlotOK(slot) ==
    /\ slot \in Slot
    /\ Working(slot) => slot.h \in Handle
    /\ slot.pc = "idle" => slot.h = NoHandle
    /\ slot.pc \in {"stage", "work", "save"} => slot.at \in 1..IndexingStage
    /\ slot.pc = "rollback" => slot.after \in {"done", "stop", "retry", "fail", "check"}

SlotsOK == slots \in [Slots -> Slot] /\ \A s \in Slots : SlotOK(slots[s])

\* What a step may do to a slot that neither claims nor starts: the handle stays
\* or is dropped, and the coroutine goes no way back to its claim or its stages.
SlotMoves(old, new) ==
    /\ SlotOK(new)
    /\ new.h \in {old.h, NoHandle}
    /\ InPipeline(new) => InPipeline(old) /\ new.h = old.h
    /\ Begun(new) => Begun(old) /\ new.h = old.h
    /\ new.pc \in {"claimed", "start"} =>
           old.pc \in {"claimed", "start"} /\ new.h = old.h

SlotsMove ==
    /\ slots' \in [Slots -> Slot]
    /\ \A s \in Slots : SlotMoves(slots[s], slots'[s])

LEMMA NoHandleIsNone == NoHandle \notin Handle
  BY JobsAssumption DEF NoHandle, Handle

LEMMA IdleSlotMoves == \A slot : SlotMoves(slot, IdleSlot)
<1>1. IdleSlot \in Slot
  BY StagesAssumption DEF IdleSlot, Slot, Pc
<1>2. QED
  BY <1>1 DEF IdleSlot, SlotMoves, SlotOK, Working, InPipeline, Begun

LEMMA SlotStays == \A slot : SlotOK(slot) => SlotMoves(slot, slot)
  BY DEF SlotMoves

LEMMA SlotsStay ==
    ASSUME SlotsOK, UNCHANGED slots
    PROVE  SlotsMove
  BY SlotStays DEF SlotsOK, SlotsMove

LEMMA OneSlotMoves ==
    ASSUME SlotsOK, NEW s \in Slots, NEW new, SlotMoves(slots[s], new),
           slots' = [slots EXCEPT ![s] = new]
    PROVE  SlotsMove
<1>1. new \in Slot
  BY DEF SlotMoves, SlotOK
<1>2. slots'[s] = new /\ \A t \in Slots \ {s} : slots'[t] = slots[t]
  BY Zenon DEF SlotsOK
<1>3. slots' \in [Slots -> Slot]
  BY <1>1 DEF SlotsOK
<1>4. QED
  BY <1>2, <1>3, SlotStays DEF SlotsOK, SlotsMove

\* The places a coroutine goes to once its pipeline has ended.
Endings == {"done", "check", "cleanup", "finish", "retry", "fail"}

LEMMA SlotEnds ==
    ASSUME NEW old, SlotOK(old), NEW pc \in Endings, pc = "done" \/ Working(old),
           NEW after \in {"none", "run_once", "unprojected", "projected"},
           after = "projected" => Begun(old)
    PROVE  SlotMoves(old, [old EXCEPT !.pc = pc, !.after = after])
<1> DEFINE new == [old EXCEPT !.pc = pc, !.after = after]
<1>1. /\ new.pc = pc /\ new.h = old.h /\ new.at = old.at /\ new.after = after
      /\ new \in Slot
  BY DEF SlotOK, Slot, Pc, Endings, Cleaner
<1> HIDE DEF new
<1>2. SlotMoves(old, new)
  BY <1>1 DEF SlotMoves, SlotOK, Working, InPipeline, Begun, Endings
<1>3. QED
  BY <1>2 DEF new

LEMMA SlotUnwinds ==
    ASSUME NEW old, SlotOK(old), old.pc # "idle",
           NEW next \in {"done", "stop", "retry", "fail", "check"},
           next \in {"done", "stop"} \/ Working(old)
    PROVE  SlotMoves(old, Unwound(old, next))
<1>1. CASE Projecting(old)
  <2> DEFINE new == [old EXCEPT !.pc = "rollback", !.after = next]
  <2>1. /\ new.pc = "rollback" /\ new.h = old.h /\ new.at = old.at
        /\ new.after = next /\ new \in Slot
    BY DEF SlotOK, Slot, Pc
  <2>2. Working(old)
    BY <1>1 DEF Projecting, Working
  <2>3. Begun(old)
    BY <1>1 DEF Projecting, Begun, InPipeline
  <2> HIDE DEF new
  <2>4. SlotMoves(old, new)
    BY <2>1, <2>2, <2>3 DEF SlotMoves, SlotOK, Working, InPipeline
  <2>5. QED
    BY <1>1, <2>4 DEF Unwound, new
<1>2. CASE ~Projecting(old)
  <2> DEFINE pc == IF next = "stop" THEN "done" ELSE next
  <2>1. pc \in Endings /\ (pc = "done" \/ Working(old))
    BY DEF Endings
  <2>2. SlotMoves(old, [old EXCEPT !.pc = pc, !.after = "none"])
    BY <2>1, SlotEnds
  <2>3. QED
    BY <1>2, <2>2 DEF Unwound
<1>3. QED
  BY <1>1, <1>2

LEMMA SlotInterrupted ==
    ASSUME NEW old, SlotOK(old)
    PROVE  SlotMoves(old, Interrupted(old))
  BY SlotUnwinds, SlotStays DEF Interrupted

\* A coroutine moves on inside its pipeline.
LEMMA SlotGoesOn ==
    ASSUME NEW old, SlotOK(old), InPipeline(old),
           NEW new, new \in Slot, new.h = old.h, InPipeline(new),
           new.pc \in {"stage", "work", "save"} => new.at \in 1..IndexingStage
    PROVE  SlotMoves(old, new)
  BY DEF SlotMoves, SlotOK, Working, InPipeline, Begun

LEMMA EndsMoves ==
    ASSUME SlotsOK, NEW s \in Slots, NEW pc \in Endings,
           pc = "done" \/ Working(slots[s]), Goes(s, pc)
    PROVE  SlotsMove
<1> DEFINE new == [slots[s] EXCEPT !.pc = pc, !.after = "none"]
<1>1. SlotMoves(slots[s], new)
  BY SlotEnds DEF SlotsOK
<1>2. slots' = [slots EXCEPT ![s] = new]
  BY Zenon DEF Goes
<1>3. QED
  BY <1>1, <1>2, OneSlotMoves

LEMMA UnwindMoves ==
    ASSUME SlotsOK, NEW s \in Slots, Working(slots[s]),
           NEW next \in {"done", "stop", "retry", "fail", "check"}, Unwind(s, next)
    PROVE  SlotsMove
<1>1. SlotMoves(slots[s], Unwound(slots[s], next))
  BY SlotUnwinds DEF SlotsOK, Working
<1>2. QED
  BY <1>1, OneSlotMoves DEF Unwind

LEMMA AdvanceMoves ==
    ASSUME SlotsOK, NEW s \in Slots, InPipeline(slots[s]),
           NEW pc \in {"work", "save", "bulk", "indexed", "committed"},
           pc \in {"work", "save"} => slots[s].at \in 1..IndexingStage,
           Goes(s, pc)
    PROVE  SlotsMove
<1> DEFINE old == slots[s]
           new == [old EXCEPT !.pc = pc, !.after = "none"]
<1>1. SlotOK(old)
  BY DEF SlotsOK
<1>2. new.pc = pc /\ new.h = old.h /\ new.at = old.at /\ new \in Slot
  BY <1>1 DEF SlotOK, Slot, Pc
<1>3. slots' = [slots EXCEPT ![s] = new]
  BY Zenon DEF Goes
<1> HIDE DEF new
<1>4. SlotMoves(old, new)
  BY <1>1, <1>2, SlotGoesOn DEF InPipeline
<1>5. QED
  BY <1>3, <1>4, OneSlotMoves

\* After run_stage(at).
LEMMA NextStageMoves ==
    ASSUME SlotsOK, NEW s \in Slots, slots[s].pc \in {"stage", "save"},
           slots' = [slots EXCEPT ![s] = NextStage(@)]
    PROVE  SlotsMove
<1> DEFINE old == slots[s]
           new == NextStage(old)
<1>1. SlotOK(old) /\ InPipeline(old) /\ old.at \in 1..IndexingStage
  BY DEF SlotsOK, SlotOK, InPipeline
<1>2. /\ new \in Slot /\ new.h = old.h /\ InPipeline(new)
      /\ new.pc \in {"stage", "work", "save"} => new.at \in 1..IndexingStage
  <2>1. IndexingStage = NumStages - 1 /\ PublishStage = NumStages /\ NumStages \in Nat
    BY StagesAssumption DEF IndexingStage, PublishStage
  <2>2. CASE old.at = IndexingStage
    <3>1. new = [old EXCEPT !.pc = "publish", !.at = PublishStage]
      BY <2>2 DEF NextStage
    <3>2. PublishStage \in 0..NumStages
      BY <2>1
    <3>3. new.pc = "publish" /\ new.h = old.h /\ new \in Slot
      BY <1>1, <3>1, <3>2 DEF SlotOK, Slot, Pc
    <3>4. QED
      BY <3>3 DEF InPipeline
  <2>3. CASE old.at # IndexingStage
    <3>1. new = [old EXCEPT !.pc = "stage", !.at = old.at + 1]
      BY <2>3 DEF NextStage
    <3>2. old.at + 1 \in 1..IndexingStage /\ old.at + 1 \in 0..NumStages
      BY <1>1, <2>1, <2>3
    <3>3. new.pc = "stage" /\ new.h = old.h /\ new.at = old.at + 1 /\ new \in Slot
      BY <1>1, <3>1, <3>2 DEF SlotOK, Slot, Pc
    <3>4. QED
      BY <3>2, <3>3 DEF InPipeline
  <2>4. QED
    BY <2>2, <2>3
<1> HIDE DEF new
<1>3. SlotMoves(old, new)
  BY <1>1, <1>2, SlotGoesOn
<1>4. QED
  BY <1>3, OneSlotMoves DEF new

-----------------------------------------------------------------------------
(* Attempt numbers in use *)

\* The attempts of a job that checkpoints, documents, updates under way and
\* coroutines that have begun name.
Used(j) ==
    {0} \cup {steps[j][n] : n \in Stages} \cup {docs[j][g] : g \in Segments}
        \cup {u.attempt : u \in {v \in flight : v.job = j}}
        \cup {slots[s].h.attempt :
                  s \in {t \in Slots : Begun(slots[t]) /\ slots[t].h.job = j}}

\* Whatever a step writes, the number it writes was in use.
NumbersMove ==
    \A j \in Jobs :
        /\ \A n \in Stages : steps'[j][n] \in Used(j)
        /\ \A g \in Segments : docs'[j][g] \in Used(j)
        /\ \A u \in flight' : u.job = j => u.attempt \in Used(j)

\* Every step but a claim, a release and a start.
QuietStep ==
    /\ TypeOK'
    /\ RowsKept /\ AttemptsStay /\ SlotsMove /\ NumbersMove

LEMMA NumbersStay ==
    /\ \A j \in Jobs : 0 \in Used(j)
    /\ \A j \in Jobs, n \in Stages : steps[j][n] \in Used(j)
    /\ \A j \in Jobs, g \in Segments : docs[j][g] \in Used(j)
    /\ \A j \in Jobs : \A u \in flight : u.job = j => u.attempt \in Used(j)
    /\ \A j \in Jobs, s \in Slots : Begun(slots[s]) /\ slots[s].h.job = j
           => slots[s].h.attempt \in Used(j)
  BY Zenon DEF Used

LEMMA RowsStay ==
    ASSUME TablesTypeOK, RowsOK, UNCHANGED tables
    PROVE  TablesTypeOK' /\ RowsKept /\ AttemptsStay
<1>1. TablesTypeOK'
  BY DEF tables, TablesTypeOK
<1>2. RowsKept
  BY DEF tables, RowsKept, RowsOK, KeepsClaim
<1>3. \A j \in Jobs : jobs[j].attempt \in Nat
  BY DEF TablesTypeOK, JobRow
<1>4. AttemptsStay
  BY <1>3 DEF tables, AttemptsStay
<1>5. QED
  BY <1>1, <1>2, <1>4

\* A transaction that writes no checkpoint.
LEMMA TableStepIsQuiet ==
    ASSUME TypeOK, RowsOK, TablesTypeOK', RowsKept, AttemptsStay, SlotsMove,
           UNCHANGED <<steps, docs, flight>>, faults' \in 0..MaxFaults
    PROVE  QuietStep
<1>1. TypeOK'
  BY DEF TypeOK, SlotsMove
<1>2. NumbersMove
  BY NumbersStay DEF NumbersMove
<1>3. QED
  BY <1>1, <1>2 DEF QuietStep

\* A step of coroutines only.
LEMMA SlotStepIsQuiet ==
    ASSUME TypeOK, RowsOK, SlotsMove, UNCHANGED <<tables, index>>,
           faults' \in 0..MaxFaults
    PROVE  QuietStep
<1>1. TablesTypeOK' /\ RowsKept /\ AttemptsStay
  BY RowsStay DEF TypeOK
<1>2. UNCHANGED <<steps, docs, flight>>
  BY DEF tables, index
<1>3. QED
  BY <1>1, <1>2, TableStepIsQuiet

LEMMA FaultCounted ==
    ASSUME TypeOK, faults < MaxFaults, faults' = faults + 1
    PROVE  faults' \in 0..MaxFaults
  BY LimitsAssumption DEF TypeOK

-----------------------------------------------------------------------------
(* The steps of run_once *)

\* What every step lemma starts from.
Good == TypeOK /\ RowsOK /\ SlotsOK

LEMMA SlotFacts ==
    ASSUME Good, NEW s \in Slots
    PROVE  /\ SlotOK(slots[s])
           /\ Working(slots[s]) => slots[s].h \in Handle
           /\ faults \in 0..MaxFaults
  BY DEF Good, SlotsOK, SlotOK, TypeOK

\* Into a cleanup, by run_once or by a cancel point of the pipeline.
LEMMA CleanupMoves ==
    ASSUME SlotsOK, NEW s \in Slots, Working(slots[s]), NEW after \in Cleaner,
           after = "projected" => Begun(slots[s]),
           slots' = [slots EXCEPT ![s].pc = "cleanup", ![s].after = after]
    PROVE  SlotsMove
<1> DEFINE new == [slots[s] EXCEPT !.pc = "cleanup", !.after = after]
<1>1. "cleanup" \in Endings /\ SlotOK(slots[s])
  BY DEF Endings, SlotsOK
<1>2. SlotMoves(slots[s], new)
  BY <1>1, SlotEnds DEF Cleaner
<1>3. slots' = [slots EXCEPT ![s] = new]
  BY Zenon
<1>4. QED
  BY <1>2, <1>3, OneSlotMoves

LEMMA FindNoJobIsQuiet ==
    ASSUME Good, NEW s \in Slots, NEW d \in Lags, FindNoJob(s, d)
    PROVE  QuietStep
<1>1. SlotsMove
  BY EndsMoves DEF FindNoJob, Good, Endings
<1>2. TablesTypeOK' /\ RowsKept /\ AttemptsStay
  BY RecoverType, RecoverRows, SweepAttempts DEF FindNoJob, Good, TypeOK
<1>3. QED
  BY <1>1, <1>2, TableStepIsQuiet DEF FindNoJob, ClaimFindsNothing, index, Good, TypeOK

LEMMA BeginAttemptIsQuiet ==
    ASSUME Good, NEW s \in Slots, NEW d \in Lags, BeginAttempt(s, d)
    PROVE  QuietStep
<1>1. SlotOK(slots[s]) /\ Working(slots[s])
  BY SlotFacts DEF BeginAttempt, Working
<1>2. CASE slots' = [slots EXCEPT ![s].pc = "cleanup", ![s].after = "run_once"]
  BY <1>1, <1>2, CleanupMoves, SlotStepIsQuiet
  DEF BeginAttempt, Good, TypeOK, Cleaner
<1>3. CASE Goes(s, "fail")
  BY <1>1, <1>3, EndsMoves, SlotStepIsQuiet DEF BeginAttempt, Good, TypeOK, Endings
<1>4. CASE Goes(s, "start")
  <2> DEFINE new == [slots[s] EXCEPT !.pc = "start", !.after = "none"]
  <2>1. new.pc = "start" /\ new.h = slots[s].h /\ new \in Slot
    BY <1>1 DEF SlotOK, Slot, Pc
  <2>2. slots[s].pc = "claimed"
    BY DEF BeginAttempt
  <2>3. slots' = [slots EXCEPT ![s] = new]
    BY <1>4, Zenon DEF Goes
  <2> HIDE DEF new
  <2>4. SlotMoves(slots[s], new)
    BY <1>1, <2>1, <2>2 DEF SlotMoves, SlotOK, Working, InPipeline, Begun
  <2>5. QED
    BY <2>3, <2>4, OneSlotMoves, SlotStepIsQuiet DEF BeginAttempt, Good, TypeOK
<1>5. QED
  BY <1>2, <1>3, <1>4 DEF BeginAttempt

LEMMA BackoffIsDelay == \A n \in Nat \ {0} : Backoff(n) \in 0..MaxDelay
<1>1. Len(RetryBackoff) \in Nat \ {0}
  BY BackoffAssumption
<1>2. \A i \in 1..Len(RetryBackoff) : RetryBackoff[i] \in 0..MaxDelay
  BY BackoffAssumption, ElementOfSeq
<1>3. QED
  BY <1>1, <1>2 DEF Backoff

LEMMA RunOnceEndsQuietly ==
    ASSUME Good, NEW s \in Slots, NEW d \in Lags,
           \/ CheckAfterLoss(s, d) \/ CheckFails(s)
           \/ RecordFailure(s, d) \/ FinishCancellation(s, d)
    PROVE  QuietStep
<1>1. Working(slots[s]) /\ slots[s].h \in Handle
  BY SlotFacts
  DEF CheckAfterLoss, CheckFails, RecordFailure, FinishCancellation, Working
<1>2. CASE CheckAfterLoss(s, d)
  <2>1. CASE slots' = [slots EXCEPT ![s].pc = "cleanup", ![s].after = "run_once"]
    BY <1>1, <1>2, <2>1, CleanupMoves, SlotStepIsQuiet
    DEF CheckAfterLoss, Good, TypeOK, Cleaner
  <2>2. CASE Goes(s, "done")
    BY <1>2, <2>2, EndsMoves, SlotStepIsQuiet
    DEF CheckAfterLoss, Good, TypeOK, Endings
  <2>3. QED
    BY <1>2, <2>1, <2>2 DEF CheckAfterLoss
<1>3. CASE CheckFails(s)
  BY <1>1, <1>3, EndsMoves, FaultCounted, SlotStepIsQuiet
  DEF CheckFails, Good, Endings
<1>4. CASE RecordFailure(s, d)
  <2>1. SlotsMove
    BY <1>4, EndsMoves DEF RecordFailure, Good, Endings
  <2>2. CASE UNCHANGED tables
    BY <1>4, <2>1, <2>2, SlotStepIsQuiet DEF RecordFailure, Good, TypeOK
  <2>3. CASE QuietCall(slots[s].h, d)
    <3>1. LeaseCall(slots[s].h, d) /\ UNCHANGED steps
      BY <2>3 DEF QuietCall, LeaseCall, RenewLease, RenewCleanupLease, MarkFailed,
                  FinishCancel, ScheduleRetry
    <3>2. TablesTypeOK' /\ RowsKept /\ AttemptsStay
      BY <1>1, <2>3, <3>1, LeaseCallType, LeaseCallRows, QuietCallAttempts
      DEF Good, TypeOK
    <3>3. QED
      BY <1>4, <2>1, <3>1, <3>2, TableStepIsQuiet DEF RecordFailure, index, Good, TypeOK
  <2>4. UNCHANGED tables \/ QuietCall(slots[s].h, d)
    <3>1. HoldsUncancelled(slots[s].h, d) => slots[s].h.attempt \in Nat \ {0}
      BY <1>1 DEF Good, TypeOK, TablesTypeOK, RowsOK, RowOK, HoldsUncancelled,
                  Holds, Handle
    <3>2. QED
      BY <1>4, <3>1, BackoffIsDelay DEF RecordFailure, QuietCall, ScheduleRetry
  <2>5. QED
    BY <2>2, <2>3, <2>4
<1>5. CASE FinishCancellation(s, d)
  <2>1. SlotsMove
    BY <1>5, EndsMoves DEF FinishCancellation, Good, Endings
  <2>2. QuietCall(slots[s].h, d) /\ LeaseCall(slots[s].h, d) /\ UNCHANGED steps
    BY <1>5 DEF FinishCancellation, QuietCall, LeaseCall, FinishCancel
  <2>3. TablesTypeOK' /\ RowsKept /\ AttemptsStay
    BY <1>1, <2>2, LeaseCallType, LeaseCallRows, QuietCallAttempts DEF Good, TypeOK
  <2>4. QED
    BY <1>5, <2>1, <2>2, <2>3, TableStepIsQuiet
    DEF FinishCancellation, index, Good, TypeOK
<1>6. QED
  BY <1>2, <1>3, <1>4, <1>5

\* Many coroutines at once: an interrupt, a crash, a new round.
LEMMA ManySlotsQuiet ==
    ASSUME Good, NEW w \in Workers, NEW s \in Slots, NEW d \in Lags,
           Interrupt(w) \/ Crash(w) \/ NewRound(w) \/ FinishRefused(s, d)
    PROVE  QuietStep
<1>1. \A t \in Slots : /\ SlotOK(slots[t])
                       /\ SlotMoves(slots[t], slots[t])
                       /\ SlotMoves(slots[t], IdleSlot)
                       /\ SlotMoves(slots[t], Interrupted(slots[t]))
  BY SlotFacts, SlotStays, IdleSlotMoves, SlotInterrupted
<1>3. CASE Interrupt(w)
  <2>1. SlotsMove
    BY <1>1, <1>3 DEF Interrupt, SlotsMove, SlotMoves, SlotOK
  <2>2. QED
    BY <1>3, <2>1, FaultCounted, SlotStepIsQuiet DEF Interrupt, Good
<1>4. CASE Crash(w)
  <2>1. SlotsMove
    BY <1>1, <1>4 DEF Crash, SlotsMove, SlotMoves, SlotOK
  <2>2. QED
    BY <1>4, <2>1, FaultCounted, SlotStepIsQuiet DEF Crash, Good
<1>5. CASE NewRound(w)
  <2>1. SlotsMove
    BY <1>1, <1>5 DEF NewRound, SlotsMove, SlotMoves, SlotOK
  <2>2. QED
    BY <1>5, <2>1, SlotStepIsQuiet DEF NewRound, Good, TypeOK
<1>6. CASE FinishRefused(s, d)
  <2> DEFINE new == [slots[s] EXCEPT !.pc = "done"]
  <2>1. new.pc = "done" /\ new.h = slots[s].h /\ new \in Slot
    BY <1>1 DEF SlotOK, Slot, Pc
  <2>2. SlotMoves(slots[s], new)
    BY <2>1 DEF SlotMoves, SlotOK, Working, InPipeline, Begun
  <2>3. SlotsMove
    <3> HIDE DEF new
    <3>1. slots' = [t \in Slots |-> IF t = s THEN new
                       ELSE IF WorkerOf[t] = WorkerOf[s] THEN Interrupted(slots[t])
                       ELSE slots[t]]
      BY <1>6 DEF FinishRefused, new
    <3>2. QED
      BY <1>1, <2>2, <3>1 DEF SlotsMove, SlotMoves, SlotOK
  <2>4. QED
    BY <1>6, <2>3, SlotStepIsQuiet DEF FinishRefused, Good, TypeOK
<1>7. QED
  BY <1>3, <1>4, <1>5, <1>6

-----------------------------------------------------------------------------
(* The steps of the pipeline *)

\* A transaction of the pipeline: it writes no number but its own attempt's.
LEMMA PipelineCallIsQuiet ==
    ASSUME Good, NEW s \in Slots, InPipeline(slots[s]), PipelineCall(slots[s].h),
           \A j \in Jobs, n \in Stages : steps'[j][n] \in
               {0, steps[j][n]} \cup (IF j = slots[s].h.job
                                      THEN {slots[s].h.attempt} ELSE {}),
           SlotsMove, UNCHANGED <<index, faults>>
    PROVE  QuietStep
<1>1. slots[s].h \in Handle
  BY SlotFacts DEF InPipeline, Working
<1>2. TablesTypeOK' /\ RowsKept /\ AttemptsStay
  BY <1>1, PipelineCallType, PipelineCallRows, PipelineCallAttempts DEF Good, TypeOK
<1>3. TypeOK'
  BY <1>2 DEF Good, TypeOK, SlotsMove, index
<1>4. slots[s].h.attempt \in Used(slots[s].h.job)
  BY <1>1, NumbersStay DEF Handle, Begun
<1>5. \A j \in Jobs : \A n \in Stages : steps'[j][n] \in Used(j)
  BY <1>4, NumbersStay
<1>6. NumbersMove
  BY <1>5, NumbersStay DEF NumbersMove, index
<1>7. QED
  BY <1>2, <1>3, <1>6 DEF QuietStep

LEMMA FencesAreQuiet ==
    ASSUME Good, NEW s \in Slots, NEW d \in Lags,
           FenceSeesCancel(s, d) \/ FenceLosesLease(s, d) \/ PipelineFails(s)
    PROVE  QuietStep
<1>1. Working(slots[s])
  BY DEF FenceSeesCancel, FenceLosesLease, PipelineFails, BetweenAwaits, Working
<1>2. CASE FenceSeesCancel(s, d)
  <2> DEFINE after == IF Projecting(slots[s]) THEN "projected" ELSE "unprojected"
  <2>1. after \in Cleaner /\ (after = "projected" => Begun(slots[s]))
    BY <1>2 DEF FenceSeesCancel, BetweenAwaits, Projecting, Cleaner, Begun, InPipeline
  <2>2. slots' = [slots EXCEPT ![s].pc = "cleanup", ![s].after = after]
    BY <1>2 DEF FenceSeesCancel
  <2> HIDE DEF after
  <2>3. QED
    BY <1>1, <1>2, <2>1, <2>2, CleanupMoves, SlotStepIsQuiet
    DEF FenceSeesCancel, Good, TypeOK
<1>3. CASE FenceLosesLease(s, d)
  BY <1>1, <1>3, UnwindMoves, SlotStepIsQuiet DEF FenceLosesLease, Good, TypeOK
<1>4. CASE PipelineFails(s)
  BY <1>1, <1>4, UnwindMoves, FaultCounted, SlotStepIsQuiet DEF PipelineFails, Good
<1>5. QED
  BY <1>2, <1>3, <1>4

LEMMA StagesAreQuiet ==
    ASSUME Good, NEW s \in Slots, NEW d \in Lags,
           \/ ReuseCheckpoint(s, d) \/ RunOperation(s, d)
           \/ OperationReturns(s, d) \/ Checkpoint(s)
    PROVE  QuietStep
<1> DEFINE h == slots[s].h
           at == slots[s].at
<1>1. /\ slots[s].pc \in {"stage", "work", "save"} /\ InPipeline(slots[s])
      /\ h \in Handle /\ at \in 1..IndexingStage
  BY SlotFacts
  DEF ReuseCheckpoint, RunOperation, OperationReturns, Checkpoint, InPipeline,
      SlotOK, Working
<1>2. at \in Stages
  BY <1>1, StagesAssumption DEF Stages, IndexingStage, PublishStage
<1>3. steps \in [Jobs -> [Stages -> Nat]] /\ h.job \in Jobs
  BY <1>1 DEF Good, TypeOK, TablesTypeOK, Handle
<1>4. CASE ReuseCheckpoint(s, d)
  BY <1>4, NextStageMoves, SlotStepIsQuiet DEF ReuseCheckpoint, Good, TypeOK
<1>5. CASE RunOperation(s, d)
  <2>1. SlotsMove
    BY <1>1, <1>5, AdvanceMoves DEF RunOperation, Good
  <2>2. CASE UNCHANGED tables
    BY <1>5, <2>1, <2>2, SlotStepIsQuiet DEF RunOperation, Good, TypeOK
  <2>3. CASE ResetStepsFrom(h, at)
    <3>1. PipelineCall(h)
      BY <1>2, <2>3 DEF PipelineCall
    <3>2. steps' = [steps EXCEPT ![h.job] =
                       [n \in Stages |-> IF n < at THEN steps[h.job][n] ELSE 0]]
      BY <2>3 DEF ResetStepsFrom
    <3>3. \A j \in Jobs, n \in Stages : steps'[j][n] \in {0, steps[j][n]}
      BY <1>3, <3>2
    <3>4. QED
      BY <1>1, <1>5, <2>1, <3>1, <3>3, PipelineCallIsQuiet DEF RunOperation
  <2>4. QED
    BY <1>5, <2>2, <2>3 DEF RunOperation
<1>6. CASE OperationReturns(s, d)
  BY <1>1, <1>6, AdvanceMoves, SlotStepIsQuiet DEF OperationReturns, Good, TypeOK
<1>7. CASE Checkpoint(s)
  <2>1. SlotsMove
    BY <1>7, NextStageMoves DEF Checkpoint, Good
  <2>2. PipelineCall(h)
    BY <1>2, <1>7 DEF Checkpoint, PipelineCall
  <2>3. steps' = [steps EXCEPT ![h.job][at] = h.attempt]
    BY <1>7 DEF Checkpoint, CheckpointStep
  <2>4. \A j \in Jobs, n \in Stages :
            \/ steps'[j][n] = steps[j][n]
            \/ j = h.job /\ steps'[j][n] = h.attempt
    BY <1>2, <1>3, <2>3
  <2>5. QED
    BY <1>1, <1>7, <2>1, <2>2, <2>4, PipelineCallIsQuiet DEF Checkpoint
<1>8. QED
  BY <1>4, <1>5, <1>6, <1>7

LEMMA PublicationIsQuiet ==
    ASSUME Good, NEW s \in Slots, NEW d \in Lags,
           Project(s, d) \/ BulkReturns(s) \/ Publish(s) \/ PipelineReturns(s)
    PROVE  QuietStep
<1> DEFINE h == slots[s].h
<1>1. InPipeline(slots[s]) /\ Working(slots[s])
  BY DEF Project, BulkReturns, Publish, PipelineReturns, InPipeline, Working
<1>2. h \in Handle /\ h.job \in Jobs /\ h.attempt \in Nat
  BY <1>1, SlotFacts DEF Handle
<1>3. CASE Project(s, d)
  <2>1. SlotsMove
    BY <1>1, <1>3, AdvanceMoves DEF Project, Good
  <2>2. TablesTypeOK' /\ RowsKept /\ AttemptsStay
    BY <1>3, RowsStay DEF Project, Good, TypeOK
  <2>3. \A u \in flight' : u \in flight \/ (u.job = h.job /\ u.attempt = h.attempt)
    <3> DEFINE new == [job : {h.job}, attempt : {h.attempt}, segment : Segments]
    <3>1. flight' = flight \cup new
      BY <1>3 DEF Project
    <3>2. \A u \in new : u.job = h.job /\ u.attempt = h.attempt
      OBVIOUS
    <3> HIDE DEF new
    <3>3. QED
      BY <3>1, <3>2, Zenon
  <2>4. flight' \subseteq Update
    BY <1>2, <1>3 DEF Project, Good, TypeOK, Update
  <2>5. h.attempt \in Used(h.job)
    BY <1>1, <1>2, NumbersStay DEF Begun
  <2>6. steps' = steps /\ docs' = docs
    BY <1>3 DEF Project, tables
  <2>7. NumbersMove
    BY <2>3, <2>5, <2>6, NumbersStay DEF NumbersMove
  <2>8. TypeOK'
    BY <1>3, <2>1, <2>2, <2>4 DEF Project, Good, TypeOK, SlotsMove
  <2>9. QED
    BY <2>1, <2>2, <2>7, <2>8 DEF QuietStep
<1>4. CASE BulkReturns(s)
  BY <1>1, <1>4, AdvanceMoves, SlotStepIsQuiet DEF BulkReturns, Good, TypeOK
<1>5. CASE Publish(s)
  <2>1. SlotsMove
    BY <1>1, <1>5, AdvanceMoves DEF Publish, Good
  <2>2. PipelineCall(h)
    BY <1>5 DEF Publish, PipelineCall
  <2>3. steps' = [steps EXCEPT ![h.job][PublishStage] = h.attempt]
    BY <1>5 DEF Publish, CompletePipeline
  <2>4. \A j \in Jobs, n \in Stages :
            \/ steps'[j][n] = steps[j][n]
            \/ j = h.job /\ steps'[j][n] = h.attempt
    BY <1>2, <2>3 DEF Good, TypeOK, TablesTypeOK
  <2>5. QED
    BY <1>1, <1>5, <2>1, <2>2, <2>4, PipelineCallIsQuiet DEF Publish
<1>6. CASE PipelineReturns(s)
  BY <1>1, <1>6, EndsMoves, SlotStepIsQuiet DEF PipelineReturns, Good, TypeOK, Endings
<1>7. QED
  BY <1>3, <1>4, <1>5, <1>6

\* Documents of an attempt are taken away.
LEMMA ErasingIsQuiet ==
    ASSUME Good, NEW h \in Handle, docs' \in {docs, ErasedDocs(h)}, SlotsMove,
           UNCHANGED <<tables, flight, faults>>
    PROVE  QuietStep
<1>1. TablesTypeOK' /\ RowsKept /\ AttemptsStay
  BY RowsStay DEF Good, TypeOK
<1>2. docs \in [Jobs -> [Segments -> Nat]]
  BY DEF Good, TypeOK
<1>3. docs' \in [Jobs -> [Segments -> Nat]]
  BY <1>2 DEF ErasedDocs
<1>4. \A j \in Jobs, g \in Segments : docs'[j][g] \in {0, docs[j][g]}
  BY <1>2 DEF ErasedDocs
<1>5. steps' = steps
  BY DEF tables
<1>6. NumbersMove
  BY <1>4, <1>5, NumbersStay DEF NumbersMove
<1>7. TypeOK'
  BY <1>1, <1>3 DEF Good, TypeOK, SlotsMove
<1>8. QED
  BY <1>1, <1>6, <1>7 DEF QuietStep

LEMMA CleanupIsQuiet ==
    ASSUME Good, NEW s \in Slots, NEW d \in Lags,
           RollBack(s) \/ CleanUp(s, d) \/ CleanUpLosesLease(s, d) \/ CleanUpFails(s)
    PROVE  QuietStep
<1>1. Working(slots[s]) /\ slots[s].h \in Handle
  BY SlotFacts DEF RollBack, CleanUp, CleanUpLosesLease, CleanUpFails, Working
<1>2. CASE RollBack(s)
  <2> DEFINE pc == IF slots[s].after = "stop" THEN "done" ELSE slots[s].after
  <2>1. pc \in Endings
    BY <1>2, SlotFacts DEF RollBack, SlotOK, Endings
  <2>2. Goes(s, pc)
    BY <1>2 DEF RollBack
  <2> HIDE DEF pc
  <2>3. QED
    BY <1>1, <1>2, <2>1, <2>2, EndsMoves, ErasingIsQuiet DEF RollBack, Good
<1>3. CASE CleanUp(s, d)
  BY <1>1, <1>3, EndsMoves, ErasingIsQuiet DEF CleanUp, Good, Endings
<1>4. CASE CleanUpLosesLease(s, d)
  BY <1>1, <1>4, UnwindMoves, SlotStepIsQuiet DEF CleanUpLosesLease, Good, TypeOK
<1>5. CASE CleanUpFails(s)
  BY <1>1, <1>5, UnwindMoves, FaultCounted, SlotStepIsQuiet DEF CleanUpFails, Good
<1>6. QED
  BY <1>2, <1>3, <1>4, <1>5

LEMMA RenewalsAreQuiet ==
    ASSUME Good, NEW s \in Slots, NEW d \in Lags, Renews(s) \/ RenewalFails(s)
    PROVE  QuietStep
<1>1. ASSUME NEW e \in Lags, Renew(s, e) \/ RenewCleanup(s, e)
      PROVE  QuietStep
  <2>1. slots[s].h \in Handle
    BY <1>1, SlotFacts DEF Renew, RenewCleanup, Renewed, Working
  <2>2. /\ QuietCall(slots[s].h, e) /\ LeaseCall(slots[s].h, e)
        /\ UNCHANGED <<steps, slots, index, faults>>
    BY <1>1 DEF Renew, RenewCleanup, QuietCall, LeaseCall, RenewLease,
                RenewCleanupLease
  <2>3. TablesTypeOK' /\ RowsKept /\ AttemptsStay
    BY <2>1, <2>2, LeaseCallType, LeaseCallRows, QuietCallAttempts DEF Good, TypeOK
  <2>4. SlotsMove
    BY <2>2, SlotsStay DEF Good
  <2>5. QED
    BY <2>2, <2>3, <2>4, TableStepIsQuiet DEF index, Good, TypeOK
<1>2. ASSUME NEW e \in Lags, RenewalRefused(s, e)
      PROVE  QuietStep
  <2>1. Working(slots[s])
    BY <1>2 DEF RenewalRefused, Renewed, Working
  <2>2. QED
    BY <1>2, <2>1, UnwindMoves, SlotStepIsQuiet DEF RenewalRefused, Good, TypeOK
<1>3. CASE RenewalFails(s)
  <2>1. Working(slots[s])
    BY <1>3 DEF RenewalFails, Renewed, Working
  <2>2. QED
    BY <1>3, <2>1, UnwindMoves, FaultCounted, SlotStepIsQuiet DEF RenewalFails, Good
<1>4. QED
  BY <1>1, <1>2, <1>3 DEF Renews

LEMMA OutsideIsQuiet ==
    ASSUME Good,
           \/ \E u \in flight : ApplyUpdate(u)
           \/ \E j \in Jobs, d \in Lags : ApiCall(j, d)
           \/ Tick
    PROVE  QuietStep
<1>1. ASSUME NEW u \in flight, ApplyUpdate(u)
      PROVE  QuietStep
  <2>1. TablesTypeOK' /\ RowsKept /\ AttemptsStay /\ SlotsMove
    BY <1>1, RowsStay, SlotsStay DEF ApplyUpdate, Good, TypeOK
  <2>2. docs \in [Jobs -> [Segments -> Nat]] /\ u \in Update /\ flight \subseteq Update
    BY DEF Good, TypeOK
  <2>3. /\ docs' \in [Jobs -> [Segments -> Nat]]
        /\ \A j \in Jobs, g \in Segments :
               docs'[j][g] = docs[j][g] \/ (j = u.job /\ docs'[j][g] = u.attempt)
    <3>1. u.job \in Jobs /\ u.segment \in Segments /\ u.attempt \in Nat
      BY <2>2 DEF Update
    <3>2. CASE docs' = docs
      BY <2>2, <3>2, Zenon
    <3>3. ASSUME NEW j \in Jobs, NEW g \in Segments, NEW k \in Nat,
                 docs' = [docs EXCEPT ![j][g] = k]
          PROVE  /\ docs' \in [Jobs -> [Segments -> Nat]]
                 /\ \A i \in Jobs, e \in Segments :
                        docs'[i][e] = docs[i][e] \/ (i = j /\ docs'[i][e] = k)
      BY <2>2, <3>3
    <3>4. docs' = docs \/ docs' = [docs EXCEPT ![u.job][u.segment] = u.attempt]
      BY <1>1, Zenon DEF ApplyUpdate
    <3>5. QED
      BY <3>1, <3>2, <3>3, <3>4
  <2>4. flight' \subseteq flight /\ steps' = steps /\ faults' = faults
    BY <1>1 DEF ApplyUpdate, tables
  <2>5. u.attempt \in Used(u.job)
    BY <2>2, NumbersStay DEF Update
  <2>6. NumbersMove
    BY <2>3, <2>4, <2>5, NumbersStay DEF NumbersMove
  <2>7. TypeOK'
    BY <2>1, <2>2, <2>3, <2>4 DEF Good, TypeOK, SlotsMove
  <2>8. QED
    BY <2>1, <2>6, <2>7 DEF QuietStep
<1>2. ASSUME NEW j \in Jobs, NEW d \in Lags, ApiCall(j, d)
      PROVE  QuietStep
  <2>1. JobCall(j, d) /\ UNCHANGED <<steps, slots, index, faults>>
    BY <1>2 DEF ApiCall, JobCall, RetryByUser, CompleteUpload, RequestCancel,
                RetryFailedJob
  <2>2. TablesTypeOK' /\ RowsKept /\ AttemptsStay
    BY <2>1, JobCallType, JobCallRows, JobCallAttempts DEF Good, TypeOK
  <2>3. SlotsMove
    BY <2>1, SlotsStay DEF Good
  <2>4. QED
    BY <2>1, <2>2, <2>3, TableStepIsQuiet DEF index, Good, TypeOK
<1>3. CASE Tick
  <2>1. 0 \in Lags
    BY TimeAssumption
  <2>2. TablesTypeOK' /\ RowsKept /\ AttemptsStay
    BY <1>3, <2>1, TickType, TickRows, SweepAttempts DEF Tick, Good, TypeOK
  <2>3. SlotsMove
    BY <1>3, SlotsStay DEF Tick, Good
  <2>4. faults' \in 0..MaxFaults
    BY <1>3, FaultCounted DEF Tick, Good, TypeOK
  <2>5. QED
    BY <1>3, <2>2, <2>3, <2>4, TableStepIsQuiet DEF Tick, TablesTick, index, Good
<1>4. QED
  BY <1>1, <1>2, <1>3

-----------------------------------------------------------------------------
(* Every step *)

\* ReleaseOnStop, when the job is still held.
Releases(s, d) == ReleaseOnStop(s, d) /\ ReleaseClaim(slots[s].h, d)

LEMMA StepCases ==
    ASSUME Good, [Next]_vars
    PROVE  \/ QuietStep
           \/ \E s \in Slots, j \in Jobs, o \in Owners, d \in Lags : ClaimJob(s, j, o, d)
           \/ \E s \in Slots, d \in Lags : Releases(s, d)
           \/ \E s \in Slots : Start(s)
<1>1. 0 \in Lags
  BY TimeAssumption
<1>2. CASE UNCHANGED vars
  <2>1. SlotsMove
    BY <1>2, SlotsStay DEF vars, Good
  <2>2. QED
    BY <1>2, <2>1, SlotStepIsQuiet DEF vars, index, Good, TypeOK
<1>3. ASSUME NEW s \in Slots, Claims(s)
      PROVE  \/ QuietStep
             \/ \E j \in Jobs, o \in Owners, d \in Lags : ClaimJob(s, j, o, d)
  BY <1>3, FindNoJobIsQuiet DEF Claims
<1>4. ASSUME NEW s \in Slots, Advances(s)
      PROVE  QuietStep \/ Start(s)
  <2>1. CASE Checkpoint(s)
    BY <1>1, <2>1, StagesAreQuiet
  <2>2. CASE BulkReturns(s) \/ Publish(s) \/ PipelineReturns(s)
    BY <1>1, <2>2, PublicationIsQuiet
  <2>3. CASE RollBack(s)
    BY <1>1, <2>3, CleanupIsQuiet
  <2>4. ASSUME NEW d \in Lags,
               \/ BeginAttempt(s, d) \/ CheckAfterLoss(s, d) \/ RecordFailure(s, d)
               \/ FinishCancellation(s, d)
        PROVE  QuietStep
    BY <2>4, BeginAttemptIsQuiet, RunOnceEndsQuietly
  <2>5. ASSUME NEW d \in Lags, FinishRefused(s, d)
        PROVE  QuietStep
    <3>1. WorkerOf[s] \in Workers
      BY SlotsAssumption
    <3>2. QED
      BY <2>5, <3>1, ManySlotsQuiet
  <2>6. ASSUME NEW d \in Lags,
               \/ FenceSeesCancel(s, d) \/ FenceLosesLease(s, d)
               \/ ReuseCheckpoint(s, d) \/ RunOperation(s, d) \/ OperationReturns(s, d)
               \/ Project(s, d) \/ CleanUp(s, d) \/ CleanUpLosesLease(s, d)
        PROVE  QuietStep
    BY <2>6, FencesAreQuiet, StagesAreQuiet, PublicationIsQuiet, CleanupIsQuiet
  <2>7. QED
    BY <1>4, <2>1, <2>2, <2>3, <2>4, <2>5, <2>6 DEF Advances
<1>5. ASSUME NEW s \in Slots, Renews(s)
      PROVE  QuietStep
  BY <1>1, <1>5, RenewalsAreQuiet
<1>6. ASSUME NEW s \in Slots, Fails(s)
      PROVE  QuietStep \/ \E d \in Lags : Releases(s, d)
  <2>1. CASE CheckFails(s)
    BY <1>1, <2>1, RunOnceEndsQuietly
  <2>2. CASE PipelineFails(s)
    BY <1>1, <2>2, FencesAreQuiet
  <2>3. CASE CleanUpFails(s)
    BY <1>1, <2>3, CleanupIsQuiet
  <2>4. CASE RenewalFails(s)
    BY <1>1, <2>4, RenewalsAreQuiet
  <2>5. ASSUME NEW d \in Lags, ReleaseOnStop(s, d)
        PROVE  QuietStep \/ Releases(s, d)
    <3>1. CASE UNCHANGED tables
      <4>1. SlotsMove
        BY <2>5, EndsMoves DEF ReleaseOnStop, Good, Endings
      <4>2. QED
        BY <2>5, <3>1, <4>1, FaultCounted, SlotStepIsQuiet DEF ReleaseOnStop, Good
    <3>2. QED
      BY <2>5, <3>1 DEF ReleaseOnStop, Releases
  <2>6. QED
    BY <1>6, <2>1, <2>2, <2>3, <2>4, <2>5 DEF Fails
<1>7. ASSUME NEW w \in Workers, NewRound(w) \/ Interrupt(w) \/ Crash(w)
      PROVE  QuietStep
  <2>1. CASE Slots = {}
    <3>1. UNCHANGED <<tables, index>> /\ slots' = [s \in {} |-> IdleSlot]
      BY <1>7, <2>1 DEF NewRound, Interrupt, Crash
    <3>2. SlotsMove
      BY <2>1, <3>1 DEF SlotsMove
    <3>3. faults' \in 0..MaxFaults
      BY <1>7, FaultCounted DEF NewRound, Interrupt, Crash, Good, TypeOK
    <3>4. QED
      BY <3>1, <3>2, <3>3, SlotStepIsQuiet DEF Good
  <2>2. CASE Slots # {}
    BY <1>1, <1>7, <2>2, ManySlotsQuiet
  <2>3. QED
    BY <2>1, <2>2
<1>8. QED
  BY <1>2, <1>3, <1>4, <1>5, <1>6, <1>7, OutsideIsQuiet DEF Next

-----------------------------------------------------------------------------
(* Types stay *)

LEMMA ClaimKeepsTypes ==
    ASSUME Good, NEW s \in Slots, NEW j \in Jobs, NEW o \in Owners, NEW d \in Lags,
           ClaimJob(s, j, o, d)
    PROVE  Good'
<1> DEFINE h == [job |-> j, owner |-> o, attempt |-> jobs'[j].attempt]
           new == [IdleSlot EXCEPT !.pc = "claimed", !.h = h]
<1>1. /\ ClaimDueJob(j, o, d) /\ slots' = [slots EXCEPT ![s] = new]
      /\ UNCHANGED <<docs, flight, faults>>
  BY DEF ClaimJob, index
<1>2. TablesTypeOK' /\ h \in Handle
  BY <1>1, ClaimType DEF Good, TypeOK
<1>3. \A k \in Jobs : RowOK(jobs'[k])
  BY <1>1, ClaimRows DEF Good, TypeOK
<1>4. new.pc = "claimed" /\ new.h = h /\ new.at = 0 /\ new.after = "none"
  BY DEF IdleSlot
<1>5. new \in Slot
  <2>1. 0 \in 0..NumStages
    BY StagesAssumption
  <2> HIDE DEF h
  <2>2. QED
    BY <1>2, <2>1, Zenon DEF IdleSlot, Slot, Pc
<1> HIDE DEF new, h
<1>6. slots'[s] = new /\ \A t \in Slots \ {s} : slots'[t] = slots[t]
  BY <1>1, Zenon DEF Good, SlotsOK
<1>7. SlotOK(new) /\ slots' \in [Slots -> Slot]
  BY <1>1, <1>2, <1>4, <1>5 DEF SlotOK, Working, Good, SlotsOK
<1>8. SlotsOK'
  BY <1>6, <1>7 DEF Good, SlotsOK
<1>9. QED
  BY <1>1, <1>2, <1>3, <1>7, <1>8 DEF Good, TypeOK, RowsOK

LEMMA ReleaseKeepsTypes ==
    ASSUME Good, NEW s \in Slots, NEW d \in Lags, Releases(s, d)
    PROVE  Good' /\ SlotsMove /\ RowsKept
<1>1. /\ slots[s].pc = "claimed" /\ Goes(s, "done") /\ ReleaseClaim(slots[s].h, d)
      /\ UNCHANGED index /\ faults' \in 0..MaxFaults
  BY FaultCounted DEF Releases, ReleaseOnStop, Good
<1>2. SlotsMove
  BY <1>1, EndsMoves DEF Good, Endings
<1>3. slots[s].h \in Handle /\ LeaseCall(slots[s].h, d)
  BY <1>1, SlotFacts DEF Working, LeaseCall
<1>4. TablesTypeOK' /\ RowsKept
  BY <1>3, LeaseCallType, LeaseCallRows DEF Good, TypeOK
<1>5. QED
  BY <1>1, <1>2, <1>4
  DEF Good, TypeOK, index, RowsKept, RowsOK, SlotsMove, SlotMoves, SlotsOK

LEMMA StartKeepsTypes ==
    ASSUME Good, NEW s \in Slots, Start(s)
    PROVE  Good'
<1> DEFINE h == slots[s].h
           new == [slots[s] EXCEPT !.pc = "stage", !.at = 1]
<1>1. /\ slots[s].pc = "start" /\ StartPipeline(h)
      /\ slots' = [slots EXCEPT ![s] = new]
      /\ jobs' = jobs /\ UNCHANGED <<docs, flight, faults>>
  BY DEF Start, StartPipeline, index
<1>2. h \in Handle /\ SlotOK(slots[s])
  BY <1>1, SlotFacts DEF Working
<1>3. 1 \in 0..NumStages /\ 1 \in 1..IndexingStage
  BY LimitsAssumption, StagesAssumption DEF IndexingStage, PublishStage
<1>4. new.pc = "stage" /\ new.h = h /\ new.at = 1 /\ new \in Slot
  BY <1>2, <1>3 DEF SlotOK, Slot, Pc
<1> HIDE DEF new
<1>5. slots'[s] = new /\ \A t \in Slots \ {s} : slots'[t] = slots[t]
  BY <1>1, Zenon DEF Good, SlotsOK
<1>6. TablesTypeOK'
  BY <1>1, <1>2, PipelineCallType DEF PipelineCall, Good, TypeOK
<1>7. SlotOK(new) /\ slots' \in [Slots -> Slot]
  BY <1>1, <1>2, <1>3, <1>4 DEF SlotOK, Working, Good, SlotsOK
<1>8. SlotsOK'
  BY <1>5, <1>7 DEF Good, SlotsOK
<1>9. QED
  BY <1>1, <1>6, <1>7, <1>8 DEF Good, TypeOK, RowsOK

LEMMA QuietKeepsTypes ==
    ASSUME Good, QuietStep
    PROVE  Good'
  BY DEF Good, QuietStep, RowsKept, RowsOK, SlotsMove, SlotMoves, SlotsOK

\* Types, rows and slots need nothing else to stay as they should be.
LEMMA StepKeepsTypes ==
    ASSUME Good, [Next]_vars
    PROVE  Good'
  BY StepCases, QuietKeepsTypes, ClaimKeepsTypes, ReleaseKeepsTypes, StartKeepsTypes

-----------------------------------------------------------------------------
(* The inductive invariant *)

\* A coroutine that has not started yet and whose claim is for a new attempt.
MayStart(s) == /\ slots[s].pc \in {"claimed", "start"}
               /\ jobs[slots[s].h.job].owner = slots[s].h.owner
               /\ ~jobs[slots[s].h.job].cancel

OwnersDiffer ==
    \A s, t \in Slots : slots[s].h \in Handle /\ slots[t].h.owner = slots[s].h.owner
        => s = t

\* No number in use is above the job's attempt, and an attempt that may start
\* has a number of its own: it is what release_claim may give back.
AttemptsFit ==
    /\ \A j \in Jobs : \A k \in Used(j) : k <= jobs[j].attempt
    /\ \A s \in Slots, j \in Jobs : MayStart(s) /\ slots[s].h.job = j =>
           \A k \in Used(j) : k < slots[s].h.attempt

\* No two coroutines have begun the same attempt.
AttemptsDiffer ==
    \A s, t \in Slots : Begun(slots[s]) /\ Begun(slots[t]) /\ s # t =>
        slots[s].h.job # slots[t].h.job \/ slots[s].h.attempt # slots[t].h.attempt

AttemptInv == OwnersDiffer /\ AttemptsFit /\ AttemptsDiffer

LEMMA UsedIsNatural ==
    ASSUME Good
    PROVE  \A j \in Jobs : \A k \in Used(j) : k \in Nat
<1>1. \A s \in Slots : Begun(slots[s]) => slots[s].h.attempt \in Nat
  BY SlotFacts DEF Begun, InPipeline, Working, Handle
<1>2. \A u \in flight : u.attempt \in Nat
  BY DEF Good, TypeOK, Update
<1>3. /\ docs \in [Jobs -> [Segments -> Nat]]
      /\ steps \in [Jobs -> [Stages -> Nat]]
  BY DEF Good, TypeOK, TablesTypeOK
<1>4. QED
  BY <1>1, <1>2, <1>3 DEF Used

\* Which numbers are in use after a step.
LEMMA UsedAfter ==
    ASSUME NumbersMove, NEW j \in Jobs, NEW k \in Used(j)'
    PROVE  \/ k \in Used(j)
           \/ \E s \in Slots : /\ Begun(slots'[s])
                                /\ slots'[s].h.job = j /\ slots'[s].h.attempt = k
<1>1. 0 \in Used(j)
  BY NumbersStay
<1>2. \/ k = 0 \/ \E n \in Stages : k = steps'[j][n]
      \/ \E g \in Segments : k = docs'[j][g]
      \/ \E u \in flight' : u.job = j /\ k = u.attempt
      \/ \E s \in Slots : /\ Begun(slots'[s])
                          /\ slots'[s].h.job = j /\ slots'[s].h.attempt = k
  BY Zenon DEF Used, Begun, InPipeline
<1>3. QED
  BY <1>1, <1>2, Zenon DEF NumbersMove

LEMMA UsedShrinks ==
    ASSUME NumbersMove,
           \A s \in Slots : Begun(slots'[s])
               => Begun(slots[s]) /\ slots'[s].h = slots[s].h
    PROVE  \A j \in Jobs : \A k \in Used(j)' : k \in Used(j)
<1>1. ASSUME NEW j \in Jobs, NEW s \in Slots, Begun(slots'[s]),
             slots'[s].h.job = j
      PROVE  slots'[s].h.attempt \in Used(j)
  BY <1>1, NumbersStay
<1>2. ASSUME NEW j \in Jobs, NEW k \in Used(j)'
      PROVE  k \in Used(j)
  <2>1. \/ k \in Used(j)
        \/ \E s \in Slots : /\ Begun(slots'[s])
                             /\ slots'[s].h.job = j /\ slots'[s].h.attempt = k
    BY UsedAfter
  <2>2. QED
    BY <1>1, <2>1, Zenon
<1>3. QED
  BY <1>2

\* Rows that keep their claims let nobody start who could not start before.
LEMMA NobodyMayStartAnew ==
    ASSUME Good, SlotsMove, NEW s \in Slots, MayStart(s)',
           KeepsClaim(jobs[slots'[s].h.job], jobs'[slots'[s].h.job])
    PROVE  MayStart(s) /\ slots'[s].h = slots[s].h
<1>1. slots[s].pc \in {"claimed", "start"} /\ slots'[s].h = slots[s].h
  BY DEF MayStart, SlotsMove, SlotMoves
<1>2. slots[s].h \in Handle
  BY <1>1, SlotFacts DEF Working
<1>3. slots[s].h.owner # NoOwner
  BY <1>2, JobsAssumption DEF Handle
<1>4. QED
  BY <1>1, <1>3 DEF MayStart, KeepsClaim

LEMMA OwnersStayDifferent ==
    ASSUME OwnersDiffer, SlotsMove
    PROVE  OwnersDiffer'
<1> SUFFICES ASSUME NEW s \in Slots, NEW t \in Slots, slots'[s].h \in Handle,
                    slots'[t].h.owner = slots'[s].h.owner
             PROVE  s = t
  BY DEF OwnersDiffer
<1>1. slots'[s].h = slots[s].h
  BY NoHandleIsNone DEF SlotsMove, SlotMoves
<1>2. slots'[t].h.owner # NoOwner
  BY JobsAssumption DEF Handle
<1>3. slots'[t].h = slots[t].h
  BY <1>2 DEF SlotsMove, SlotMoves, NoHandle
<1>4. QED
  BY <1>1, <1>3 DEF OwnersDiffer

LEMMA AttemptsStayDifferent ==
    ASSUME AttemptsDiffer, SlotsMove
    PROVE  AttemptsDiffer'
  BY DEF AttemptsDiffer, SlotsMove, SlotMoves

LEMMA QuietKeeps ==
    ASSUME Good, AttemptInv, QuietStep
    PROVE  Good' /\ AttemptInv'
<1>1. Good'
  BY QuietKeepsTypes
<1>2. \A j \in Jobs : \A k \in Used(j)' : k \in Used(j)
  BY UsedShrinks DEF QuietStep, SlotsMove, SlotMoves
<1>3. \A j \in Jobs : /\ jobs[j].attempt \in Nat /\ jobs'[j].attempt \in Nat
                      /\ jobs[j].attempt <= jobs'[j].attempt
  BY <1>1 DEF Good, TypeOK, TablesTypeOK, JobRow, QuietStep, AttemptsStay
<1>4. \A j \in Jobs : \A k \in Used(j)' : k <= jobs'[j].attempt
  <2> SUFFICES ASSUME NEW j \in Jobs, NEW k \in Used(j)'
               PROVE  k <= jobs'[j].attempt
    OBVIOUS
  <2>1. k \in Nat /\ k <= jobs[j].attempt
    BY <1>2, UsedIsNatural DEF AttemptInv, AttemptsFit
  <2>2. QED
    BY <1>3, <2>1
<1>5. ASSUME NEW s \in Slots, NEW j \in Jobs, MayStart(s)', slots'[s].h.job = j
      PROVE  \A k \in Used(j)' : k < slots'[s].h.attempt
  <2>1. MayStart(s) /\ slots'[s].h = slots[s].h
    BY <1>5, NobodyMayStartAnew DEF QuietStep, RowsKept
  <2>2. QED
    BY <1>2, <1>5, <2>1 DEF AttemptInv, AttemptsFit
<1>6. AttemptsFit'
  BY <1>4, <1>5 DEF AttemptsFit
<1>7. QED
  BY <1>1, <1>6, OwnersStayDifferent, AttemptsStayDifferent DEF AttemptInv, QuietStep

LEMMA ClaimKeeps ==
    ASSUME Good, AttemptInv,
           NEW s \in Slots, NEW j \in Jobs, NEW o \in Owners, NEW d \in Lags,
           ClaimJob(s, j, o, d)
    PROVE  Good' /\ AttemptInv'
<1> DEFINE h == [job |-> j, owner |-> o, attempt |-> jobs'[j].attempt]
           new == [IdleSlot EXCEPT !.pc = "claimed", !.h = h]
<1>1. /\ slots[s].pc = "idle" /\ Fresh(o) /\ ClaimDueJob(j, o, d)
      /\ slots' = [slots EXCEPT ![s] = new] /\ UNCHANGED <<docs, flight, faults>>
      /\ steps' = steps
  BY DEF ClaimJob, ClaimDueJob, index
<1>2. TablesTypeOK' /\ h \in Handle
  BY <1>1, ClaimType DEF Good, TypeOK
<1>3. /\ \A k \in Jobs : RowOK(jobs'[k])
      /\ \A k \in Jobs \ {j} : KeepsClaim(jobs[k], jobs'[k])
      /\ jobs'[j].owner = o
  BY <1>1, ClaimRows DEF Good, TypeOK
<1>4. /\ AttemptsStay
      /\ jobs'[j].cancel \/ jobs'[j].attempt = jobs[j].attempt + 1
  BY <1>1, ClaimAttempts DEF Good, TypeOK
<1>5. new.pc = "claimed" /\ new.h = h /\ new.at = 0 /\ new.after = "none"
  BY DEF IdleSlot
<1>6. h.job = j /\ h.owner = o /\ h.attempt = jobs'[j].attempt
  OBVIOUS
<1> HIDE DEF new, h
<1>7. slots'[s] = new /\ \A t \in Slots \ {s} : slots'[t] = slots[t]
  BY <1>1, Zenon DEF Good, SlotsOK
<1>8. Good'
  BY ClaimKeepsTypes
<1>9. \A k \in Jobs : \A n \in Used(k)' : n \in Used(k)
  <2>1. NumbersMove
    BY <1>1, NumbersStay DEF NumbersMove
  <2>2. QED
    BY <1>5, <1>7, <2>1, UsedShrinks DEF Begun, InPipeline
<1>10. \A k \in Jobs : /\ jobs[k].attempt \in Nat /\ jobs'[k].attempt \in Nat
                       /\ jobs[k].attempt <= jobs'[k].attempt
  BY <1>2, <1>4 DEF Good, TypeOK, TablesTypeOK, JobRow, AttemptsStay
<1>11. OwnersDiffer'
  <2>1. \A t \in Slots : slots[t].h.owner # o
    BY <1>1 DEF Fresh
  <2>2. QED
    BY <1>5, <1>6, <1>7, <2>1 DEF AttemptInv, OwnersDiffer
<1>12. \A k \in Jobs : \A n \in Used(k)' : n <= jobs'[k].attempt
  <2> SUFFICES ASSUME NEW k \in Jobs, NEW n \in Used(k)'
               PROVE  n <= jobs'[k].attempt
    OBVIOUS
  <2>1. n \in Nat /\ n <= jobs[k].attempt
    BY <1>9, UsedIsNatural DEF AttemptInv, AttemptsFit
  <2>2. QED
    BY <1>10, <2>1
<1>13. ASSUME NEW t \in Slots, NEW k \in Jobs, MayStart(t)', slots'[t].h.job = k
       PROVE  \A n \in Used(k)' : n < slots'[t].h.attempt
  <2>1. CASE t = s
    <3>1. k = j /\ slots'[t].h.attempt = jobs[j].attempt + 1
      BY <1>4, <1>5, <1>6, <1>7, <1>13, <2>1 DEF MayStart
    <3>2. ASSUME NEW n \in Used(k)' PROVE n < jobs[j].attempt + 1
      <4>1. n \in Nat /\ n <= jobs[j].attempt
        BY <1>9, <3>1, UsedIsNatural DEF AttemptInv, AttemptsFit
      <4>2. QED
        BY <1>10, <4>1
    <3>3. QED
      BY <3>1, <3>2
  <2>2. CASE t # s
    <3>1. slots'[t] = slots[t] /\ slots[t].h \in Handle
      BY <1>7, <1>13, <2>2, SlotFacts DEF MayStart, Working
    <3>2. slots[t].h.owner # o /\ slots[t].h.owner # NoOwner
      BY <1>1, <3>1, JobsAssumption DEF Fresh, Handle
    <3>3. k # j
      BY <1>3, <1>13, <3>1, <3>2 DEF MayStart
    <3>4. MayStart(t)
      BY <1>3, <1>13, <3>1, <3>2, <3>3 DEF MayStart, KeepsClaim
    <3>5. QED
      BY <1>9, <1>13, <3>1, <3>4 DEF AttemptInv, AttemptsFit
  <2>3. QED
    BY <2>1, <2>2
<1>14. AttemptsFit'
  BY <1>12, <1>13 DEF AttemptsFit
<1>15. AttemptsDiffer'
  BY <1>5, <1>7 DEF AttemptInv, AttemptsDiffer, Begun, InPipeline
<1>16. QED
  BY <1>8, <1>11, <1>14, <1>15 DEF AttemptInv

LEMMA ReleaseKeeps ==
    ASSUME Good, AttemptInv, NEW s \in Slots, NEW d \in Lags, Releases(s, d)
    PROVE  Good' /\ AttemptInv'
<1> DEFINE h == slots[s].h
<1>1. /\ slots[s].pc = "claimed" /\ Goes(s, "done") /\ ReleaseClaim(h, d)
      /\ steps' = steps /\ UNCHANGED index /\ faults' \in 0..MaxFaults
  BY FaultCounted DEF Releases, ReleaseOnStop, ReleaseClaim, Good
<1>2. h \in Handle /\ h.job \in Jobs /\ h.attempt \in Nat
  BY <1>1, SlotFacts DEF Working, Handle
<1>3. Good' /\ SlotsMove /\ RowsKept
  BY ReleaseKeepsTypes
<1>4. /\ jobs'[h.job].attempt = h.attempt - 1
      /\ \A k \in Jobs \ {h.job} : jobs'[k] = jobs[k]
  BY <1>1, <1>2, ReleaseAttempts DEF Good, TypeOK
<1>5. MayStart(s)
  BY <1>1 DEF MayStart, ReleaseClaim, HoldsUncancelled, Holds
<1>6. \A j \in Jobs : \A k \in Used(j)' : k \in Used(j)
  <2>1. NumbersMove
    BY <1>1, NumbersStay DEF NumbersMove, index
  <2>2. QED
    BY <1>3, <2>1, UsedShrinks DEF SlotsMove, SlotMoves
<1>7. ASSUME NEW j \in Jobs, NEW k \in Used(j)'
       PROVE  k <= jobs'[j].attempt
  <2>1. k \in Used(j) /\ k \in Nat
    BY <1>6, UsedIsNatural
  <2>2. CASE j = h.job
    <3>1. k < h.attempt
      BY <1>5, <2>1, <2>2 DEF AttemptInv, AttemptsFit
    <3>2. QED
      BY <1>2, <1>4, <2>1, <2>2, <3>1
  <2>3. CASE j # h.job
    BY <1>4, <2>1, <2>3 DEF AttemptInv, AttemptsFit
  <2>4. QED
    BY <2>2, <2>3
<1>8. ASSUME NEW t \in Slots, NEW j \in Jobs, MayStart(t)', slots'[t].h.job = j
       PROVE  \A k \in Used(j)' : k < slots'[t].h.attempt
  <2>1. MayStart(t) /\ slots'[t].h = slots[t].h
    BY <1>3, <1>8, NobodyMayStartAnew DEF RowsKept
  <2>2. QED
    BY <1>6, <1>8, <2>1 DEF AttemptInv, AttemptsFit
<1>9. AttemptsFit'
  BY <1>7, <1>8 DEF AttemptsFit
<1>10. QED
  BY <1>3, <1>9, OwnersStayDifferent, AttemptsStayDifferent DEF AttemptInv

LEMMA StartKeeps ==
    ASSUME Good, AttemptInv, NEW s \in Slots, Start(s)
    PROVE  Good' /\ AttemptInv'
<1> DEFINE h == slots[s].h
           new == [slots[s] EXCEPT !.pc = "stage", !.at = 1]
<1>1. /\ slots[s].pc = "start" /\ StartPipeline(h)
      /\ slots' = [slots EXCEPT ![s] = new]
      /\ jobs' = jobs /\ steps' = steps /\ UNCHANGED <<docs, flight, faults>>
  BY DEF Start, StartPipeline, index
<1>2. h \in Handle /\ h.job \in Jobs /\ SlotOK(slots[s])
  BY <1>1, SlotFacts DEF Working, Handle
<1>3. /\ jobs[h.job].owner = h.owner /\ jobs[h.job].attempt = h.attempt
      /\ MayStart(s)
  BY <1>1 DEF StartPipeline, CancelNotSeen, ActiveLease, Holds, MayStart
<1>4. 1 \in 0..NumStages /\ 1 \in 1..IndexingStage
  BY LimitsAssumption, StagesAssumption DEF IndexingStage, PublishStage
<1>5. new.pc = "stage" /\ new.h = h /\ new.at = 1 /\ new \in Slot
  BY <1>2, <1>4 DEF SlotOK, Slot, Pc
<1> HIDE DEF new
<1>6. slots'[s] = new /\ \A t \in Slots \ {s} : slots'[t] = slots[t]
  BY <1>1, Zenon DEF Good, SlotsOK
<1>7. Good'
  BY StartKeepsTypes
<1>8. ASSUME NEW j \in Jobs, NEW k \in Used(j)'
      PROVE  k \in Used(j) \/ (j = h.job /\ k = h.attempt)
  <2>1. NumbersMove
    BY <1>1, NumbersStay DEF NumbersMove
  <2>2. \/ k \in Used(j)
        \/ \E t \in Slots : /\ Begun(slots'[t])
                             /\ slots'[t].h.job = j /\ slots'[t].h.attempt = k
    BY <2>1, UsedAfter
  <2>3. ASSUME NEW t \in Slots, Begun(slots'[t]), slots'[t].h.job = j,
               slots'[t].h.attempt = k, t # s
        PROVE  k \in Used(j)
    BY <1>6, <2>3, NumbersStay
  <2>4. QED
    BY <1>5, <1>6, <2>2, <2>3
<1>9. \A j \in Jobs : \A k \in Used(j)' : k <= jobs'[j].attempt
  <2>1. jobs[h.job].attempt \in Nat
    BY <1>2 DEF Good, TypeOK, TablesTypeOK, JobRow
  <2>2. QED
    BY <1>1, <1>3, <1>8, <2>1 DEF AttemptInv, AttemptsFit
<1>10. ASSUME NEW t \in Slots, NEW j \in Jobs, MayStart(t)', slots'[t].h.job = j
       PROVE  \A k \in Used(j)' : k < slots'[t].h.attempt
  <2>1. t # s
    BY <1>5, <1>6, <1>10 DEF MayStart
  <2>2. slots'[t] = slots[t] /\ MayStart(t)
    BY <1>1, <1>6, <1>10, <2>1 DEF MayStart
  <2>3. j # h.job
    BY <1>2, <1>3, <1>10, <2>1, <2>2 DEF MayStart, AttemptInv, OwnersDiffer
  <2>4. QED
    BY <1>8, <1>10, <2>2, <2>3 DEF AttemptInv, AttemptsFit
<1>11. OwnersDiffer'
  BY <1>5, <1>6 DEF AttemptInv, OwnersDiffer
<1>12. ASSUME NEW t \in Slots, Begun(slots[t]), slots[t].h.job = h.job
       PROVE  slots[t].h.attempt # h.attempt
  <2>1. slots[t].h.attempt \in Used(h.job) /\ slots[t].h.attempt \in Nat
    BY <1>2, <1>12, NumbersStay, UsedIsNatural
  <2>2. slots[t].h.attempt < h.attempt
    BY <1>2, <1>3, <2>1 DEF AttemptInv, AttemptsFit
  <2>3. QED
    BY <2>1, <2>2
<1>13. AttemptsDiffer'
  BY <1>5, <1>6, <1>12 DEF AttemptInv, AttemptsDiffer
<1>14. QED
  BY <1>7, <1>9, <1>10, <1>11, <1>13 DEF AttemptInv, AttemptsFit

-----------------------------------------------------------------------------
(* The theorems *)

LEMMA InitIsGood == Init => Good
<1> SUFFICES ASSUME Init PROVE Good
  OBVIOUS
<1>1. TablesTypeOK /\ RowsOK
  BY AbsentJobType
  DEF Init, TablesInit, TablesTypeOK, NoSteps, AssetRow, AssetStatus,
      RowsOK, RowOK, AbsentJob
<1>2. IdleSlot \in Slot /\ SlotOK(IdleSlot)
  BY IdleSlotMoves DEF SlotMoves, SlotOK
<1>3. \A s \in Slots : slots[s] = IdleSlot
  BY DEF Init
<1>4. QED
  BY <1>1, <1>2, <1>3, LimitsAssumption DEF Init, Good, TypeOK, SlotsOK

LEMMA InvInductive == Spec => [](Good /\ AttemptInv)
<1>1. Init => Good /\ AttemptInv
  <2> SUFFICES ASSUME Init PROVE Good /\ AttemptInv
    OBVIOUS
  <2>1. \A s \in Slots : slots[s] = IdleSlot
    BY DEF Init
  <2>2. Good
    BY InitIsGood
  <2>3. \A s \in Slots : slots[s].pc = "idle" /\ slots[s].h \notin Handle
    BY <2>1, NoHandleIsNone DEF IdleSlot
  <2>4. ASSUME NEW j \in Jobs, NEW k \in Used(j)
        PROVE  k = 0
    BY <2>3 DEF Init, TablesInit, NoSteps, Used, Begun, InPipeline
  <2>5. \A j \in Jobs : jobs[j].attempt = 0
    BY DEF Init, TablesInit, AbsentJob
  <2>6. QED
    BY <2>2, <2>3, <2>4, <2>5
    DEF AttemptInv, OwnersDiffer, AttemptsFit, MayStart, AttemptsDiffer, Begun, InPipeline
<1>2. Good /\ AttemptInv /\ [Next]_vars => Good' /\ AttemptInv'
  BY StepCases, QuietKeeps, ClaimKeeps, ReleaseKeeps, StartKeeps
<1>3. QED
  BY <1>1, <1>2, PTL DEF Spec

\* Tables, coroutines, index and faults keep their types (worker.py, pipeline.py).
THEOREM WorkerTypeCorrect == Spec => []TypeOK
<1>1. Good => TypeOK
  BY DEF Good
<1>2. QED
  BY <1>1, InvInductive, PTL

\* No two coroutines, in whichever processes, ever execute the same attempt of a
\* job, although release_claim hands numbers out again and cleanup claims keep
\* them (run_once and pipeline.run).
THEOREM AttemptsHaveOneExecutor == Spec => []OneExecutorPerAttempt
<1>1. AttemptInv => OneExecutorPerAttempt
  BY DEF AttemptInv, AttemptsDiffer, Begun, InPipeline, OneExecutorPerAttempt, Executing
<1>2. QED
  BY <1>1, InvInductive, PTL

LEMMA NumbersReached ==
    ASSUME Good, AttemptInv
    PROVE  StepsComeFromAttempts /\ IndexIsNotAhead
<1>1. \A j \in Jobs : \A k \in Used(j) : k <= jobs[j].attempt
  BY DEF AttemptInv, AttemptsFit
<1>2. \A u \in flight : u.job \in Jobs
  BY DEF Good, TypeOK, Update
<1>3. QED
  BY <1>1, <1>2, NumbersStay DEF StepsComeFromAttempts, IndexIsNotAhead

\* Checkpoints, documents and updates under way never name an attempt the job has
\* not reached, although release_claim lowers the number (es_index.py's fence).
THEOREM NumbersAreReached == Spec => [](StepsComeFromAttempts /\ IndexIsNotAhead)
  BY NumbersReached, InvInductive, PTL

-----------------------------------------------------------------------------
(* Every step as a step of JobRepository *)

\* The handles of the claims that coroutines hold.
Held == {slots[s].h : s \in {t \in Slots : slots[t].h # NoHandle}}

HandlesStay == \A s \in Slots : slots'[s].h = slots[s].h

-----------------------------------------------------------------------------
(* The transactions of JobTables are those of the instance *)

LEMMA SameJobCall ==
    ASSUME NEW j, NEW d, JobCall(j, d)
    PROVE  Repository!JobCall(j, d)
<1>1. CompleteUpload(j, d) => Repository!CompleteUpload(j, d)
  BY DEF CompleteUpload, AbsentJob, Repository!CompleteUpload, Repository!AbsentJob
<1>2. RequestCancel(j, d) => Repository!RequestCancel(j, d)
  BY DEF RequestCancel, CancelRow, Unleased, Expired, Pending,
         Repository!RequestCancel, Repository!CancelRow, Repository!Unleased,
         Repository!Expired, Repository!Pending
<1>3. RetryFailedJob(j, d) => Repository!RetryFailedJob(j, d)
  BY DEF RetryFailedJob, IsCurrent, Unleased, Repository!RetryFailedJob,
         Repository!IsCurrent, Repository!Unleased
<1>4. QED
  BY <1>1, <1>2, <1>3, Zenon DEF JobCall, Repository!JobCall

LEMMA SameLeaseCall ==
    ASSUME NEW h, NEW d, LeaseCall(h, d)
    PROVE  Repository!LeaseCall(h, d)
<1> USE DEF HoldsUncancelled, CleanupLease, Holds, Live, Unleased, IsCurrent,
            Repository!HoldsUncancelled, Repository!CleanupLease, Repository!Holds,
            Repository!Live, Repository!Unleased, Repository!IsCurrent
<1>1. RenewLease(h, d) => Repository!RenewLease(h, d)
  BY DEF RenewLease, Repository!RenewLease
<1>2. RenewCleanupLease(h, d) => Repository!RenewCleanupLease(h, d)
  BY DEF RenewCleanupLease, Repository!RenewCleanupLease
<1>3. ReleaseClaim(h, d) => Repository!ReleaseClaim(h, d)
  BY DEF ReleaseClaim, Repository!ReleaseClaim
<1>4. MarkFailed(h, d) => Repository!MarkFailed(h, d)
  BY DEF MarkFailed, Repository!MarkFailed
<1>5. FinishCancel(h, d) => Repository!FinishCancel(h, d)
  BY DEF FinishCancel, Repository!FinishCancel
<1>6. \A delay : ScheduleRetry(h, d, delay) => Repository!ScheduleRetry(h, d, delay)
  BY DEF ScheduleRetry, Repository!ScheduleRetry
<1>7. QED
  BY <1>1, <1>2, <1>3, <1>4, <1>5, <1>6, Zenon DEF LeaseCall, Repository!LeaseCall

LEMMA SamePipelineCall ==
    ASSUME NEW h, PipelineCall(h)
    PROVE  Repository!PipelineCall(h)
<1> USE DEF CancelNotSeen, ActiveLease, Holds, Live, Unleased, IsCurrent, Stages,
            PublishStage, IsLatestStage,
            Repository!CancelNotSeen, Repository!ActiveLease, Repository!Holds,
            Repository!Live, Repository!Unleased, Repository!IsCurrent,
            Repository!Stages, Repository!PublishStage, Repository!IsLatestStage
<1>1. StartPipeline(h) => Repository!StartPipeline(h)
  BY DEF StartPipeline, Repository!StartPipeline
<1>2. CompletePipeline(h) => Repository!CompletePipeline(h)
  BY DEF CompletePipeline, Repository!CompletePipeline
<1>3. \A n : CheckpointStep(h, n) => Repository!CheckpointStep(h, n)
  BY DEF CheckpointStep, Repository!CheckpointStep
<1>4. \A n : ResetStepsFrom(h, n) => Repository!ResetStepsFrom(h, n)
  BY DEF ResetStepsFrom, Repository!ResetStepsFrom
<1>5. QED
  BY <1>1, <1>2, <1>3, <1>4, Zenon DEF PipelineCall, Repository!PipelineCall

LEMMA SameSweeps ==
    ASSUME NEW d
    PROVE  /\ ClaimFindsNothing(d) => Repository!ClaimFindsNothing(d)
           /\ TablesTick => Repository!TablesTick
           /\ \A j, o : ClaimDueJob(j, o, d) => Repository!ClaimDueJob(j, o, d)
<1> USE DEF Claimable, RefreshedJobs, DueForCleanup, DueForAttempt, DueRow, RecoverRow,
            Expired, Live, Unleased, ClaimedRow,
            Repository!Claimable, Repository!RefreshedJobs, Repository!DueForCleanup,
            Repository!DueForAttempt, Repository!DueRow, Repository!RecoverRow,
            Repository!Expired, Repository!Live, Repository!Unleased,
            Repository!ClaimedRow
<1>1. ClaimFindsNothing(d) => Repository!ClaimFindsNothing(d)
  BY DEF ClaimFindsNothing, Repository!ClaimFindsNothing
<1>2. TablesTick => Repository!TablesTick
  BY DEF TablesTick, TickRow, Lowered, Pending, Repository!TablesTick,
         Repository!TickRow, Repository!Lowered, Repository!Pending
<1>3. \A j, o : ClaimDueJob(j, o, d) => Repository!ClaimDueJob(j, o, d)
  BY DEF ClaimDueJob, Repository!ClaimDueJob
<1>4. QED
  BY <1>1, <1>2, <1>3

-----------------------------------------------------------------------------
(* What a step does to tables and handles *)

\* A transaction of a coroutine or of the API, which leaves the handles alone.
TableCall ==
    /\ HandlesStay
    /\ \/ \E j \in Jobs, d \in Lags : JobCall(j, d)
       \/ \E h \in Held, d \in Lags : LeaseCall(h, d)
       \/ \E h \in Held : PipelineCall(h)
       \/ \E d \in Lags : ClaimFindsNothing(d)
       \/ TablesTick

LEMMA OneHandleStays ==
    ASSUME Good, NEW s \in Slots, NEW new, new.h = slots[s].h,
           slots' = [slots EXCEPT ![s] = new]
    PROVE  HandlesStay
<1>1. slots'[s] = new /\ \A t \in Slots \ {s} : slots'[t] = slots[t]
  BY Zenon DEF Good, SlotsOK
<1>2. QED
  BY <1>1 DEF HandlesStay

LEMMA GoesKeepsHandles ==
    ASSUME Good, NEW s \in Slots, NEW pc, Goes(s, pc)
    PROVE  HandlesStay
<1> DEFINE new == [slots[s] EXCEPT !.pc = pc, !.after = "none"]
<1>1. new.h = slots[s].h
  BY SlotFacts, Zenon DEF SlotOK, Slot
<1>2. slots' = [slots EXCEPT ![s] = new]
  BY Zenon DEF Goes
<1>3. QED
  BY <1>1, <1>2, OneHandleStays

LEMMA WorkingHandle ==
    ASSUME Good, NEW s \in Slots, Working(slots[s])
    PROVE  slots[s].h \in Held
  BY SlotFacts, NoHandleIsNone DEF Held

LEMMA ClientCalls ==
    ASSUME Good, NEW s \in Slots, NEW d \in Lags,
           \/ RecordFailure(s, d) \/ FinishCancellation(s, d)
           \/ ReleaseOnStop(s, d) \/ Renew(s, d) \/ RenewCleanup(s, d)
    PROVE  \/ UNCHANGED tables
           \/ slots[s].h \in Held /\ LeaseCall(slots[s].h, d)
<1>1. slots[s].h \in Held /\ slots[s].h \in Handle
  BY WorkingHandle, SlotFacts
  DEF Working, RecordFailure, FinishCancellation, ReleaseOnStop, Renew, RenewCleanup,
      Renewed
<1>2. CASE RecordFailure(s, d)
  <2>1. \/ ScheduleRetry(slots[s].h, d, Backoff(slots[s].h.attempt))
        \/ MarkFailed(slots[s].h, d) \/ UNCHANGED tables
    BY <1>2 DEF RecordFailure
  <2>2. HoldsUncancelled(slots[s].h, d) => slots[s].h.attempt \in Nat \ {0}
    BY <1>1 DEF Good, TypeOK, TablesTypeOK, RowsOK, RowOK, HoldsUncancelled, Holds, Handle
  <2>3. \A n \in Nat \ {0} : Backoff(n) \in 0..MaxDelay
    BY BackoffIsDelay
  <2>4. QED
    BY <1>1, <2>1, <2>2, <2>3 DEF LeaseCall, ScheduleRetry
<1>3. CASE FinishCancellation(s, d) \/ ReleaseOnStop(s, d)
  BY <1>1, <1>3 DEF FinishCancellation, ReleaseOnStop, LeaseCall
<1>4. CASE Renew(s, d) \/ RenewCleanup(s, d)
  BY <1>1, <1>4 DEF Renew, RenewCleanup, LeaseCall
<1>5. QED
  BY <1>2, <1>3, <1>4

LEMMA RunOnceCalls ==
    ASSUME Good, NEW s \in Slots, NEW d \in Lags,
           \/ FindNoJob(s, d) \/ RecordFailure(s, d) \/ FinishCancellation(s, d)
           \/ ReleaseOnStop(s, d) \/ Renew(s, d) \/ RenewCleanup(s, d)
    PROVE  TableCall \/ UNCHANGED tables
<1>1. HandlesStay
  <2>1. CASE Renew(s, d) \/ RenewCleanup(s, d)
    BY <2>1 DEF Renew, RenewCleanup, HandlesStay
  <2>2. CASE \/ FindNoJob(s, d) \/ RecordFailure(s, d)
             \/ FinishCancellation(s, d) \/ ReleaseOnStop(s, d)
    BY <2>2, GoesKeepsHandles
    DEF FindNoJob, RecordFailure, FinishCancellation, ReleaseOnStop
  <2>3. QED
    BY <2>1, <2>2
<1>2. CASE FindNoJob(s, d)
  BY <1>1, <1>2 DEF FindNoJob, TableCall
<1>3. CASE \/ RecordFailure(s, d) \/ FinishCancellation(s, d)
           \/ ReleaseOnStop(s, d) \/ Renew(s, d) \/ RenewCleanup(s, d)
  BY <1>1, <1>3, ClientCalls DEF TableCall
<1>4. QED
  BY <1>2, <1>3

LEMMA PipelineCalls ==
    ASSUME Good, NEW s \in Slots, NEW d \in Lags,
           Start(s) \/ RunOperation(s, d) \/ Checkpoint(s) \/ Publish(s)
    PROVE  TableCall \/ UNCHANGED tables
<1> DEFINE h == slots[s].h
           at == slots[s].at
<1>1. SlotOK(slots[s]) /\ Working(slots[s]) /\ h \in Held
  BY SlotFacts, WorkingHandle DEF Start, RunOperation, Checkpoint, Publish, Working
<1>2. HandlesStay
  <2>1. CASE Start(s)
    <3> DEFINE new == [slots[s] EXCEPT !.pc = "stage", !.at = 1]
    <3>1. new.h = slots[s].h
      BY <1>1, Zenon DEF SlotOK, Slot
    <3>2. slots' = [slots EXCEPT ![s] = new]
      BY <2>1, Zenon DEF Start
    <3>3. QED
      BY <3>1, <3>2, OneHandleStays
  <2>2. CASE Checkpoint(s)
    <3>1. NextStage(slots[s]).h = slots[s].h
      BY <1>1 DEF NextStage, SlotOK, Slot
    <3>2. QED
      BY <2>2, <3>1, OneHandleStays DEF Checkpoint
  <2>3. CASE RunOperation(s, d) \/ Publish(s)
    BY <2>3, GoesKeepsHandles DEF RunOperation, Publish
  <2>4. QED
    BY <2>1, <2>2, <2>3
<1>3. PipelineCall(h) \/ UNCHANGED tables
  <2>1. slots[s].pc \in {"stage", "save"} => at \in Stages
    BY <1>1, StagesAssumption DEF SlotOK, Stages, IndexingStage, PublishStage
  <2>2. CASE Start(s) \/ Publish(s)
    BY <2>2 DEF Start, Publish, PipelineCall
  <2>3. CASE RunOperation(s, d)
    BY <2>1, <2>3 DEF RunOperation, PipelineCall
  <2>4. CASE Checkpoint(s)
    BY <2>1, <2>4 DEF Checkpoint, PipelineCall
  <2>5. QED
    BY <2>2, <2>3, <2>4
<1>4. QED
  BY <1>1, <1>2, <1>3 DEF TableCall

LEMMA TableCases ==
    ASSUME Good, [Next]_vars
    PROVE  \/ UNCHANGED tables
           \/ TableCall
           \/ \E s \in Slots, j \in Jobs, o \in Owners, d \in Lags : ClaimJob(s, j, o, d)
<1>1. 0 \in Lags
  BY TimeAssumption
<1>2. ASSUME NEW s \in Slots, Claims(s)
      PROVE  \/ TableCall \/ UNCHANGED tables
             \/ \E j \in Jobs, o \in Owners, d \in Lags : ClaimJob(s, j, o, d)
  BY <1>2, RunOnceCalls DEF Claims
<1>3. ASSUME NEW s \in Slots, Advances(s)
      PROVE  TableCall \/ UNCHANGED tables
  <2>1. CASE Start(s) \/ Checkpoint(s) \/ Publish(s)
    BY <1>1, <2>1, PipelineCalls
  <2>2. CASE BulkReturns(s) \/ PipelineReturns(s) \/ RollBack(s)
    BY <2>2 DEF BulkReturns, PipelineReturns, RollBack
  <2>3. ASSUME NEW d \in Lags,
               RecordFailure(s, d) \/ FinishCancellation(s, d) \/ RunOperation(s, d)
        PROVE  TableCall \/ UNCHANGED tables
    BY <2>3, RunOnceCalls, PipelineCalls
  <2>4. ASSUME NEW d \in Lags,
               \/ BeginAttempt(s, d) \/ CheckAfterLoss(s, d) \/ FinishRefused(s, d)
               \/ FenceSeesCancel(s, d) \/ FenceLosesLease(s, d)
               \/ ReuseCheckpoint(s, d) \/ OperationReturns(s, d) \/ Project(s, d)
               \/ CleanUp(s, d) \/ CleanUpLosesLease(s, d)
        PROVE  UNCHANGED tables
    BY <2>4 DEF BeginAttempt, CheckAfterLoss, FinishRefused, FenceSeesCancel,
                FenceLosesLease, ReuseCheckpoint, OperationReturns, Project, CleanUp,
                CleanUpLosesLease
  <2>5. QED
    BY <1>3, <2>1, <2>2, <2>3, <2>4 DEF Advances
<1>4. ASSUME NEW s \in Slots, Renews(s) \/ Fails(s)
      PROVE  TableCall \/ UNCHANGED tables
  <2>1. ASSUME NEW d \in Lags, Renew(s, d) \/ RenewCleanup(s, d) \/ ReleaseOnStop(s, d)
        PROVE  TableCall \/ UNCHANGED tables
    BY <2>1, RunOnceCalls
  <2>2. ASSUME NEW d \in Lags,
               \/ RenewalRefused(s, d) \/ CheckFails(s) \/ PipelineFails(s)
               \/ CleanUpFails(s) \/ RenewalFails(s)
        PROVE  UNCHANGED tables
    BY <2>2 DEF RenewalRefused, CheckFails, PipelineFails, CleanUpFails, RenewalFails
  <2>3. QED
    BY <1>1, <1>4, <2>1, <2>2 DEF Renews, Fails
<1>5. ASSUME NEW w \in Workers, NewRound(w) \/ Interrupt(w) \/ Crash(w)
      PROVE  UNCHANGED tables
  BY <1>5 DEF NewRound, Interrupt, Crash
<1>6. ASSUME NEW u \in flight, ApplyUpdate(u)
      PROVE  UNCHANGED tables
  BY <1>6 DEF ApplyUpdate
<1>7. ASSUME NEW j \in Jobs, NEW d \in Lags, ApiCall(j, d)
      PROVE  TableCall
  BY <1>7 DEF ApiCall, RetryByUser, JobCall, TableCall, HandlesStay
<1>8. CASE Tick
  BY <1>8 DEF Tick, TableCall, HandlesStay
<1>9. CASE UNCHANGED vars
  BY <1>9 DEF vars
<1>10. QED
  BY <1>2, <1>3, <1>4, <1>5, <1>6, <1>7, <1>8, <1>9 DEF Next

-----------------------------------------------------------------------------
(* The refinement *)

LEMMA HeldStays ==
    ASSUME HandlesStay
    PROVE  Held' = Held
  BY Zenon DEF HandlesStay, Held

LEMMA HeldShrinks ==
    ASSUME SlotsMove
    PROVE  Held' \subseteq Held
<1>1. \A s \in Slots : slots'[s].h # NoHandle => slots'[s].h = slots[s].h
  BY DEF SlotsMove, SlotMoves
<1>2. QED
  BY <1>1 DEF Held

\* A step of the instance, in terms of Held.
LEMMA RepositoryStep ==
    ASSUME \/ Held' = Held /\ \E j \in Jobs, d \in Lags : Repository!JobCall(j, d)
           \/ Held' = Held /\ \E h \in Held, d \in Lags : Repository!LeaseCall(h, d)
           \/ Held' = Held /\ \E h \in Held : Repository!PipelineCall(h)
           \/ Held' = Held /\ \E d \in Lags : Repository!ClaimFindsNothing(d)
           \/ Held' = Held /\ Repository!TablesTick
           \/ Held' \subseteq Held /\ UNCHANGED tables
    PROVE  [Repository!Next]_Repository!vars
<1>1. CASE Held' \subseteq Held /\ UNCHANGED tables
  <2>1. \E gone \in SUBSET Held : Held' = Held \ gone
    <3>1. (Held \ Held') \in SUBSET Held /\ Held' = Held \ (Held \ Held')
      BY <1>1
    <3>2. QED
      BY <3>1
  <2>2. \E gone \in SUBSET Held : Repository!Forget(gone)
    BY <1>1, <2>1 DEF Repository!Forget, Held, tables, Repository!tables
  <2>3. QED
    BY <2>2, Zenon DEF Repository!Next, Held
<1>2. CASE Held' = Held /\ \E j \in Jobs, d \in Lags : Repository!JobCall(j, d)
  BY <1>2 DEF Repository!Next, Repository!Lags, Held
<1>3. CASE Held' = Held /\ \E h \in Held, d \in Lags : Repository!LeaseCall(h, d)
  BY <1>3 DEF Repository!Next, Repository!Lags, Held
<1>4. CASE Held' = Held /\ \E h \in Held : Repository!PipelineCall(h)
  BY <1>4 DEF Repository!Next, Held
<1>5. CASE Held' = Held /\ \E d \in Lags : Repository!ClaimFindsNothing(d)
  BY <1>5 DEF Repository!Next, Repository!Lags, Held
<1>6. CASE Held' = Held /\ Repository!TablesTick
  BY <1>6 DEF Repository!Next, Repository!Tick, Held
<1>7. QED
  BY <1>1, <1>2, <1>3, <1>4, <1>5, <1>6

LEMMA ClaimIsRepositoryStep ==
    ASSUME Good, NEW s \in Slots, NEW j \in Jobs, NEW o \in Owners, NEW d \in Lags,
           ClaimJob(s, j, o, d)
    PROVE  Repository!Next
<1> DEFINE h == [job |-> j, owner |-> o, attempt |-> jobs'[j].attempt]
           new == [IdleSlot EXCEPT !.pc = "claimed", !.h = h]
<1>1. /\ slots[s].h = NoHandle /\ Fresh(o) /\ ClaimDueJob(j, o, d)
      /\ slots' = [slots EXCEPT ![s] = new]
  BY SlotFacts DEF ClaimJob, SlotOK
<1>2. new.h = h
  BY DEF IdleSlot
<1>3. h # NoHandle
  BY JobsAssumption DEF NoHandle
<1> HIDE DEF new, h
<1>4. slots'[s] = new /\ \A t \in Slots \ {s} : slots'[t] = slots[t]
  BY <1>1, Zenon DEF Good, SlotsOK
<1>5. Held' = Held \cup {h}
  BY <1>1, <1>2, <1>3, <1>4 DEF Held
<1>6. Repository!Fresh(o)
  BY <1>1 DEF Fresh, Repository!Fresh
<1>7. Repository!ClaimDueJob(j, o, d)
  BY <1>1, SameSweeps
<1>8. Repository!Claim(j, o, d)
  BY <1>5, <1>6, <1>7 DEF Repository!Claim, Held, h
<1>9. QED
  BY <1>8 DEF Repository!Next, Repository!Lags

LEMMA StepsRefine ==
    ASSUME Good, [Next]_vars
    PROVE  [Repository!Next]_Repository!vars
<1>1. CASE \E s \in Slots, j \in Jobs, o \in Owners, d \in Lags : ClaimJob(s, j, o, d)
  BY <1>1, ClaimIsRepositoryStep
<1>2. CASE TableCall
  <2>1. Held' = Held
    BY <1>2, HeldStays DEF TableCall
  <2>2. 0 \in Lags
    BY TimeAssumption
  <2>3. \/ \E j \in Jobs, d \in Lags : Repository!JobCall(j, d)
        \/ \E h \in Held, d \in Lags : Repository!LeaseCall(h, d)
        \/ \E h \in Held : Repository!PipelineCall(h)
        \/ \E d \in Lags : Repository!ClaimFindsNothing(d)
        \/ Repository!TablesTick
    BY <1>2, <2>2, SameJobCall, SameLeaseCall, SamePipelineCall, SameSweeps DEF TableCall
  <2>4. QED
    BY <2>1, <2>3, RepositoryStep
<1>3. CASE UNCHANGED tables
  <2>1. CASE QuietStep
    BY <1>3, <2>1, HeldShrinks, RepositoryStep DEF QuietStep
  <2>2. ASSUME NEW s \in Slots, NEW d \in Lags, Releases(s, d)
        PROVE  Held' = Held
    BY <2>2, GoesKeepsHandles, HeldStays DEF Releases, ReleaseOnStop
  <2>3. ASSUME NEW s \in Slots, Start(s)
        PROVE  Held' = Held
    <3> DEFINE new == [slots[s] EXCEPT !.pc = "stage", !.at = 1]
    <3>1. new.h = slots[s].h
      BY SlotFacts, Zenon DEF SlotOK, Slot
    <3>2. slots' = [slots EXCEPT ![s] = new]
      BY <2>3, Zenon DEF Start
    <3>3. QED
      BY <3>1, <3>2, OneHandleStays, HeldStays
  <2>4. QED
    BY <1>1, <1>3, <2>1, <2>2, <2>3, StepCases, RepositoryStep
<1>4. QED
  BY <1>1, <1>2, <1>3, TableCases

\* Whatever the workers do, crash or lose, the tables see only transactions that
\* the handles of their claims allow (worker.py, pipeline.py, repository.py).
THEOREM WorkersUseRepository == Spec => UsesRepository
<1>1. Init => Repository!RepositoryInit
  <2> SUFFICES ASSUME Init PROVE Repository!RepositoryInit
    OBVIOUS
  <2>1. Held = {}
    BY DEF Init, IdleSlot, Held
  <2>2. Repository!TablesInit
    BY DEF Init, TablesInit, AbsentJob, NoSteps, Stages, PublishStage,
           Repository!TablesInit, Repository!AbsentJob, Repository!NoSteps,
           Repository!Stages, Repository!PublishStage
  <2>3. QED
    BY <2>1, <2>2 DEF Repository!RepositoryInit, Held
<1>2. Good /\ [Next]_vars => [Repository!Next]_Repository!vars
  BY StepsRefine
<1>3. QED
  BY <1>1, <1>2, InvInductive, PTL DEF Spec, UsesRepository, Repository!Spec

-----------------------------------------------------------------------------
(* The index *)

\* The steps of coroutines that write the index or send to it.
LEMMA SlotIndexCases ==
    ASSUME NEW s \in Slots, Claims(s) \/ Advances(s) \/ Renews(s) \/ Fails(s)
    PROVE  \/ docs' = docs /\ flight' = flight
           \/ \E d \in Lags : Project(s, d) \/ RollBack(s) \/ CleanUp(s, d)
<1> DEFINE Same == docs' = docs /\ flight' = flight
<1>1. 0 \in Lags
  BY TimeAssumption
<1>2. CASE Claims(s) \/ Renews(s) \/ Fails(s)
  BY <1>2 DEF Claims, FindNoJob, ClaimJob, Renews, Renew, RenewCleanup, RenewalRefused,
              Fails, CheckFails, PipelineFails, CleanUpFails, RenewalFails, ReleaseOnStop,
              index
<1>3. CASE Advances(s)
  <2>1. ASSUME NEW d \in Lags,
               \/ BeginAttempt(s, d) \/ CheckAfterLoss(s, d) \/ RecordFailure(s, d)
               \/ FinishCancellation(s, d) \/ FinishRefused(s, d)
               \/ FenceSeesCancel(s, d)
        PROVE  Same
    BY <2>1 DEF BeginAttempt, CheckAfterLoss, RecordFailure, FinishCancellation,
                FinishRefused, FenceSeesCancel, index
  <2>2. ASSUME NEW d \in Lags,
               \/ FenceLosesLease(s, d) \/ CleanUpLosesLease(s, d)
               \/ ReuseCheckpoint(s, d) \/ RunOperation(s, d) \/ OperationReturns(s, d)
        PROVE  Same
    BY <2>2 DEF FenceLosesLease, CleanUpLosesLease, ReuseCheckpoint, RunOperation,
                OperationReturns, index
  <2>3. CASE Start(s) \/ Checkpoint(s) \/ BulkReturns(s) \/ Publish(s) \/ PipelineReturns(s)
    BY <2>3 DEF Start, Checkpoint, BulkReturns, Publish, PipelineReturns, index
  <2>4. CASE RollBack(s)
    BY <1>1, <2>4
  <2>5. ASSUME NEW d \in Lags, Project(s, d) \/ CleanUp(s, d)
        PROVE  \E e \in Lags : Project(s, e) \/ RollBack(s) \/ CleanUp(s, e)
    BY <2>5
  <2> QED BY <1>3, <2>1, <2>3, <2>2, <2>4, <2>5 DEF Advances
<1> QED BY <1>2, <1>3

\* The steps that write the index or send to it.
LEMMA IndexCases ==
    ASSUME [Next]_vars
    PROVE  \/ docs' = docs /\ flight' = flight
           \/ \E u \in flight : ApplyUpdate(u)
           \/ \E s \in Slots, d \in Lags : Project(s, d) \/ RollBack(s) \/ CleanUp(s, d)
<1>1. ASSUME NEW w \in Workers, NewRound(w) \/ Interrupt(w) \/ Crash(w)
      PROVE  docs' = docs /\ flight' = flight
  BY <1>1 DEF NewRound, Interrupt, Crash, index
<1>2. ASSUME NEW j \in Jobs, NEW d \in Lags, ApiCall(j, d)
      PROVE  docs' = docs /\ flight' = flight
  BY <1>2 DEF ApiCall, index
<1>3. Tick \/ UNCHANGED vars => docs' = docs /\ flight' = flight
  BY DEF Tick, vars, index
<1> QED BY <1>1, <1>2, <1>3, SlotIndexCases DEF Next

(***************************************************************************)
(* The pipeline presents only steps the repository accepts, publishes only *)
(* what is indexed, and no other attempt takes a published document away,  *)
(* for any number of coroutines, processes, stages, segments and faults.   *)
(***************************************************************************)

-----------------------------------------------------------------------------
(* Stages and checkpoints *)

\* Where a coroutine still relies on what it has seen of the checkpoints.
Staged == {"stage", "work", "save", "publish", "bulk", "indexed"}

\* The checkpoints of a job are those of the first jobs.stage stages, the last one
\* only with the job's completion, whose indexing checkpoint is the attempt's own.
StagesInOrder(row, made) ==
    /\ \A n \in Stages : made[n] # 0 <=> n <= row.stage
    /\ row.stage = PublishStage => row.status = "completed"
    /\ row.status = "completed" => made[IndexingStage] = row.attempt
    /\ row.status = "absent" => row.stage = 0

\* A coroutine whose token is still in the row stands where jobs.stage says.
StageFits(slot, row, made) ==
    slot.pc \in Staged /\ row.owner = slot.h.owner =>
        /\ slot.pc = "stage" => slot.at - 1 <= row.stage
        /\ slot.pc \in {"work", "save"} => row.stage = slot.at - 1
        /\ slot.pc \in {"publish", "bulk", "indexed"} =>
               row.stage = IndexingStage /\ made[IndexingStage] = slot.h.attempt

StageInv ==
    /\ \A j \in Jobs : StagesInOrder(jobs[j], steps[j])
    /\ \A s \in Slots : StageFits(slots[s], jobs[slots[s].h.job], steps[slots[s].h.job])

\* What all transactions but those of the stages do to a row.
RowRests(old, new) ==
    /\ new.stage = old.stage
    /\ new.status = "completed" <=> old.status = "completed"
    /\ old.status = "completed" => new.attempt = old.attempt
    /\ new.status = "absent" => old.status = "absent"

RowsRest == \A j \in Jobs : RowRests(jobs[j], jobs'[j])

\* No coroutine gets into a stage.
SlotRests(old, new) == new.pc \in Staged => new = old
SlotsRest == \A s \in Slots : SlotRests(slots[s], slots'[s])

LEMMA StageRange == /\ NumStages \in Nat /\ NumStages >= 2 /\ PublishStage = NumStages
                    /\ IndexingStage = NumStages - 1 /\ Stages = 1..NumStages
BY StagesAssumption, LimitsAssumption DEF PublishStage, IndexingStage, Stages

\* A checkpoint is there exactly up to jobs.stage.
LEMMA CheckpointsReach ==
    ASSUME NEW row, NEW made, StagesInOrder(row, made), NEW n \in Stages
    PROVE  made[n] # 0 <=> n <= row.stage
BY DEF StagesInOrder

LEMMA OneRowRests ==
    ASSUME TablesTypeOK, NEW j \in Jobs, NEW row, RowRests(jobs[j], row),
           jobs' = [jobs EXCEPT ![j] = row]
    PROVE  RowsRest
<1>1. jobs'[j] = row /\ \A k \in Jobs \ {j} : jobs'[k] = jobs[k]
  BY Zenon DEF TablesTypeOK
<1> QED BY <1>1 DEF RowsRest, RowRests

LEMMA UnleasedRests ==
    ASSUME NEW row \in JobRow
    PROVE  /\ Unleased(row) \in JobRow
           /\ Unleased(row).stage = row.stage /\ Unleased(row).status = row.status
           /\ Unleased(row).attempt = row.attempt
<1>1. Unleased(row) \in JobRow
  BY UnleasedType
<1> QED BY <1>1 DEF Unleased, JobRow

LEMMA JobCallRests ==
    ASSUME TablesTypeOK, NEW j \in Jobs, StagesInOrder(jobs[j], steps[j]),
           NEW d \in Lags, JobCall(j, d)
    PROVE  RowsRest /\ steps' = steps
<1>1. jobs[j] \in JobRow
  BY DEF TablesTypeOK
<1>2. CASE CompleteUpload(j, d)
  <2> DEFINE row == [AbsentJob EXCEPT !.status = "queued", !.wait = -d]
  <2>1. row.stage = 0 /\ row.status = "queued"
    BY DEF AbsentJob
  <2> HIDE DEF row
  <2>2. RowRests(jobs[j], row)
    BY <1>2, <2>1 DEF CompleteUpload, StagesInOrder, RowRests
  <2>3. jobs' = [jobs EXCEPT ![j] = row] /\ steps' = steps
    BY <1>2 DEF CompleteUpload, row
  <2> QED BY <2>2, <2>3, OneRowRests
<1>3. CASE RequestCancel(j, d)
  <2>1. RowRests(jobs[j], CancelRow(jobs[j], d))
    BY <1>1 DEF RowRests, CancelRow, Unleased, JobRow, Pending
  <2> QED BY <1>3, <2>1, OneRowRests DEF RequestCancel
<1>4. CASE RetryFailedJob(j, d)
  <2> DEFINE row == [Unleased(jobs[j]) EXCEPT !.status = "queued", !.wait = -d,
                                              !.cancel = FALSE]
  <2>1. row.stage = jobs[j].stage /\ row.status = "queued"
    BY <1>1, UnleasedRests DEF JobRow
  <2>2. jobs' = [jobs EXCEPT ![j] = row] /\ steps' = steps /\ jobs[j].status = "failed"
    BY <1>4 DEF RetryFailedJob
  <2> HIDE DEF row
  <2>3. RowRests(jobs[j], row)
    BY <2>1, <2>2 DEF RowRests
  <2> QED BY <2>2, <2>3, OneRowRests
<1> QED BY <1>2, <1>3, <1>4 DEF JobCall

LEMMA LeaseCallRests ==
    ASSUME TablesTypeOK, NEW h \in Handle, NEW d \in Lags, LeaseCall(h, d)
    PROVE  RowsRest /\ steps' = steps
<1> DEFINE old == jobs[h.job]
<1>1. h.job \in Jobs /\ old \in JobRow
  BY DEF TablesTypeOK, Handle
<1>2. old.status = "running" /\ steps' = steps
  BY DEF LeaseCall, RenewLease, RenewCleanupLease, ReleaseClaim, MarkFailed, FinishCancel,
         ScheduleRetry, HoldsUncancelled, CleanupLease, Holds
<1>3. /\ Unleased(old) \in JobRow /\ Unleased(old).stage = old.stage
      /\ Unleased(old).status = old.status /\ Unleased(old).attempt = old.attempt
  BY <1>1, UnleasedRests
<1>4. CASE RenewLease(h, d) \/ RenewCleanupLease(h, d)
  <2> DEFINE row == [old EXCEPT !.lease = LeaseSeconds - d]
  <2>1. RowRests(old, row)
    BY <1>1 DEF RowRests, JobRow
  <2>2. jobs' = [jobs EXCEPT ![h.job] = row]
    BY <1>4, Zenon DEF RenewLease, RenewCleanupLease
  <2> QED BY <1>1, <1>2, <2>1, <2>2, OneRowRests
<1>5. CASE ReleaseClaim(h, d)
  <2> DEFINE row == [Unleased(old) EXCEPT !.status = "retry_wait", !.attempt = h.attempt - 1,
                                          !.wait = -d]
  <2>1. row.stage = old.stage /\ row.status = "retry_wait"
    BY <1>3 DEF JobRow
  <2>2. RowRests(old, row)
    BY <1>2, <2>1 DEF RowRests
  <2> QED BY <1>1, <1>2, <1>5, <2>2, OneRowRests DEF ReleaseClaim
<1>6. CASE MarkFailed(h, d)
  <2> DEFINE row == [Unleased(old) EXCEPT !.status = "failed"]
  <2>1. row.stage = old.stage /\ row.status = "failed"
    BY <1>3 DEF JobRow
  <2>2. RowRests(old, row)
    BY <1>2, <2>1 DEF RowRests
  <2> QED BY <1>1, <1>2, <1>6, <2>2, OneRowRests DEF MarkFailed
<1>7. CASE FinishCancel(h, d)
  <2> DEFINE row == [Unleased(old) EXCEPT !.status = "cancelled", !.cancel = FALSE]
  <2>1. row.stage = old.stage /\ row.status = "cancelled"
    BY <1>3 DEF JobRow
  <2>2. RowRests(old, row)
    BY <1>2, <2>1 DEF RowRests
  <2> QED BY <1>1, <1>2, <1>7, <2>2, OneRowRests DEF FinishCancel
<1>8. ASSUME NEW delay \in 0..MaxDelay, ScheduleRetry(h, d, delay) PROVE RowsRest
  <2> DEFINE row == [Unleased(old) EXCEPT !.status = "retry_wait", !.wait = delay - d]
  <2>1. row.stage = old.stage /\ row.status = "retry_wait"
    BY <1>3 DEF JobRow
  <2>2. RowRests(old, row)
    BY <1>2, <2>1 DEF RowRests
  <2> QED BY <1>1, <1>8, <2>2, OneRowRests DEF ScheduleRetry
<1> QED BY <1>2, <1>4, <1>5, <1>6, <1>7, <1>8 DEF LeaseCall

\* The recovery that comes before every claim.
LEMMA RefreshedRests ==
    ASSUME TablesTypeOK, NEW j \in Jobs, NEW d \in Lags
    PROVE  RefreshedJobs(d)[j] \in JobRow /\ RowRests(jobs[j], RefreshedJobs(d)[j])
<1> DEFINE row == RecoverRow(j, jobs[j], d)
<1>1. jobs[j] \in JobRow /\ row \in JobRow
  BY RecoverRowType DEF TablesTypeOK
<1>2. RowRests(jobs[j], row)
  BY <1>1 DEF RowRests, RecoverRow, Unleased, JobRow
<1>3. RefreshedJobs(d)[j] = DueRow(j, row, d)
  BY DEF RefreshedJobs
<1> HIDE DEF row
<1>4. RowRests(row, DueRow(j, row, d)) /\ DueRow(j, row, d) \in JobRow
  BY <1>1, DueRowType DEF RowRests, DueRow, JobRow
<1> QED BY <1>2, <1>3, <1>4 DEF RowRests

LEMMA SweepsRest ==
    ASSUME TablesTypeOK, NEW d \in Lags, ClaimFindsNothing(d) \/ TablesTick
    PROVE  RowsRest /\ steps' = steps
<1>1. CASE ClaimFindsNothing(d)
  BY <1>1, RefreshedRests DEF ClaimFindsNothing, RowsRest
<1>2. CASE TablesTick
  <2>1. \A j \in Jobs : jobs[j] \in JobRow /\ jobs'[j] = TickRow(jobs[j])
    BY <1>2 DEF TablesTick, TablesTypeOK
  <2>2. \A row \in JobRow : RowRests(row, TickRow(row))
    BY DEF RowRests, TickRow, JobRow
  <2> QED BY <1>2, <2>1, <2>2 DEF RowsRest, TablesTick
<1> QED BY <1>1, <1>2

LEMMA ClaimRests ==
    ASSUME TablesTypeOK, NEW j \in Jobs, NEW o \in Owners, NEW d \in Lags,
           ClaimDueJob(j, o, d)
    PROVE  RowsRest /\ steps' = steps
<1> DEFINE old == RefreshedJobs(d)[j]
<1>1. old \in JobRow /\ \A k \in Jobs : RowRests(jobs[k], RefreshedJobs(d)[k])
  BY RefreshedRests
<1>2. old.status \in {"running", "queued"}
  BY DEF ClaimDueJob, Claimable, DueForCleanup, DueForAttempt
<1>3. RowRests(old, ClaimedRow(old, o, d))
  BY <1>1, <1>2 DEF RowRests, ClaimedRow, JobRow
<1>4. RefreshedJobs(d) \in [Jobs -> JobRow] /\ steps' = steps
      /\ jobs' = [RefreshedJobs(d) EXCEPT ![j] = ClaimedRow(old, o, d)]
  BY RefreshedJobsType DEF ClaimDueJob
<1>5. /\ jobs'[j] = ClaimedRow(old, o, d)
      /\ \A k \in Jobs \ {j} : jobs'[k] = RefreshedJobs(d)[k]
  BY <1>4, Zenon
<1> QED BY <1>1, <1>3, <1>4, <1>5 DEF RowsRest, RowRests

-----------------------------------------------------------------------------
(* Coroutines that leave their stages *)

LEMMA OneSlotRests ==
    ASSUME Good, NEW s \in Slots, NEW new, SlotRests(slots[s], new),
           slots' = [slots EXCEPT ![s] = new]
    PROVE  SlotsRest
<1>1. slots'[s] = new /\ \A t \in Slots \ {s} : slots'[t] = slots[t]
  BY Zenon DEF Good, SlotsOK
<1> QED BY <1>1 DEF SlotsRest, SlotRests

LEMMA GoesRests ==
    ASSUME Good, NEW s \in Slots, NEW pc, pc \notin Staged, Goes(s, pc)
    PROVE  SlotsRest
<1> DEFINE new == [slots[s] EXCEPT !.pc = pc, !.after = "none"]
<1>1. new.pc = pc
  BY SlotFacts DEF SlotOK, Slot
<1>2. slots' = [slots EXCEPT ![s] = new]
  BY Zenon DEF Goes
<1> HIDE DEF new
<1> QED BY <1>1, <1>2, OneSlotRests DEF SlotRests

LEMMA IntoCleanupRests ==
    ASSUME Good, NEW s \in Slots, NEW after,
           slots' = [slots EXCEPT ![s].pc = "cleanup", ![s].after = after]
    PROVE  SlotsRest
<1> DEFINE new == [slots[s] EXCEPT !.pc = "cleanup", !.after = after]
<1>1. new.pc = "cleanup"
  BY SlotFacts DEF SlotOK, Slot
<1>2. slots' = [slots EXCEPT ![s] = new]
  BY Zenon
<1> HIDE DEF new
<1> QED BY <1>1, <1>2, OneSlotRests DEF SlotRests, Staged

LEMMA UnwoundRests ==
    ASSUME NEW slot \in Slot, NEW next \in {"done", "stop", "retry", "fail", "check"}
    PROVE  Unwound(slot, next).pc \notin Staged
BY DEF Unwound, Slot, Staged

LEMMA UnwindRests ==
    ASSUME Good, NEW s \in Slots, NEW next \in {"done", "stop", "retry", "fail", "check"},
           Unwind(s, next)
    PROVE  SlotsRest
<1>1. Unwound(slots[s], next).pc \notin Staged
  BY UnwoundRests, SlotFacts DEF SlotOK
<1> QED BY <1>1, OneSlotRests DEF Unwind, SlotRests

LEMMA ManySlotsRest ==
    ASSUME Good,
           \/ \E w \in Workers : Interrupt(w) \/ Crash(w) \/ NewRound(w)
           \/ \E s \in Slots, d \in Lags : FinishRefused(s, d)
    PROVE  SlotsRest
<1>1. \A t \in Slots : /\ Interrupted(slots[t]).pc \notin Staged
                       /\ IdleSlot.pc \notin Staged
                       /\ [slots[t] EXCEPT !.pc = "done"].pc \notin Staged
  BY UnwoundRests, SlotFacts DEF SlotOK, Interrupted, IdleSlot, Staged, Slot
<1>2. ASSUME NEW w \in Workers, Interrupt(w) PROVE SlotsRest
  BY <1>1, <1>2 DEF Interrupt, SlotsRest, SlotRests
<1>3. ASSUME NEW w \in Workers, Crash(w) \/ NewRound(w) PROVE SlotsRest
  BY <1>1, <1>3 DEF Crash, NewRound, SlotsRest, SlotRests
<1>4. ASSUME NEW s \in Slots, NEW d \in Lags, FinishRefused(s, d) PROVE SlotsRest
  BY <1>1, <1>4 DEF FinishRefused, SlotsRest, SlotRests
<1> QED BY <1>2, <1>3, <1>4

\* The steps that a stage consists of.
StageStep(s, d) ==
    \/ Start(s) \/ ReuseCheckpoint(s, d) \/ RunOperation(s, d) \/ OperationReturns(s, d)
    \/ Checkpoint(s) \/ Project(s, d) \/ BulkReturns(s) \/ Publish(s)

\* Every other step of coroutines.
LEMMA OtherStepsRest ==
    ASSUME Good, NEW s \in Slots, NEW d \in Lags,
           \/ FindNoJob(s, d) \/ BeginAttempt(s, d) \/ CheckAfterLoss(s, d)
           \/ RecordFailure(s, d) \/ FinishCancellation(s, d) \/ FenceSeesCancel(s, d)
           \/ FenceLosesLease(s, d) \/ CleanUp(s, d) \/ CleanUpLosesLease(s, d)
           \/ PipelineReturns(s) \/ RollBack(s) \/ Renew(s, d) \/ RenewCleanup(s, d)
           \/ RenewalRefused(s, d) \/ CheckFails(s) \/ PipelineFails(s) \/ CleanUpFails(s)
           \/ RenewalFails(s) \/ ReleaseOnStop(s, d)
    PROVE  SlotsRest
<1>1. CASE \/ FindNoJob(s, d) \/ RecordFailure(s, d) \/ FinishCancellation(s, d)
           \/ CleanUp(s, d) \/ PipelineReturns(s) \/ CheckFails(s) \/ ReleaseOnStop(s, d)
  BY <1>1, GoesRests DEF FindNoJob, RecordFailure, FinishCancellation, CleanUp,
                         PipelineReturns, CheckFails, ReleaseOnStop, Staged
<1>2. CASE BeginAttempt(s, d) \/ CheckAfterLoss(s, d) \/ FenceSeesCancel(s, d)
  <2>1. ASSUME NEW pc \in {"fail", "done"}, Goes(s, pc) PROVE SlotsRest
    BY <2>1, GoesRests DEF Staged
  <2>2. CASE Goes(s, "start")
    BY <2>2, GoesRests DEF Staged
  <2>3. \/ \E pc \in {"fail", "done", "start"} : Goes(s, pc)
        \/ \E after \in Cleaner :
               slots' = [slots EXCEPT ![s].pc = "cleanup", ![s].after = after]
    BY <1>2 DEF BeginAttempt, CheckAfterLoss, FenceSeesCancel, Cleaner
  <2> QED BY <2>1, <2>2, <2>3, IntoCleanupRests
<1>3. CASE \/ FenceLosesLease(s, d) \/ CleanUpLosesLease(s, d) \/ RenewalRefused(s, d)
           \/ PipelineFails(s) \/ CleanUpFails(s) \/ RenewalFails(s)
  BY <1>3, UnwindRests DEF FenceLosesLease, CleanUpLosesLease, RenewalRefused, PipelineFails,
                           CleanUpFails, RenewalFails
<1>4. CASE RollBack(s)
  BY <1>4, GoesRests, SlotFacts DEF RollBack, SlotOK, Staged
<1>5. CASE Renew(s, d) \/ RenewCleanup(s, d)
  BY <1>5 DEF Renew, RenewCleanup, SlotsRest, SlotRests
<1> QED BY <1>1, <1>2, <1>3, <1>4, <1>5

-----------------------------------------------------------------------------
(* The invariant of the stages *)

LEMMA StagedHandle ==
    ASSUME Good, NEW s \in Slots, slots[s].pc \in Staged
    PROVE  slots[s].h \in Handle /\ slots[s].h.job \in Jobs /\ slots[s].h.owner \in Owners
BY SlotFacts DEF Staged, Working, Handle

\* Whoever has its token in the row after the step had it there before.
TokensStay ==
    \A s \in Slots : slots[s].pc \in Staged /\ jobs'[slots[s].h.job].owner = slots[s].h.owner
        => /\ jobs[slots[s].h.job].owner = slots[s].h.owner
           /\ jobs[slots[s].h.job].attempt = jobs'[slots[s].h.job].attempt

\* A step that leaves stages and checkpoints alone.
StepRests == SlotsRest /\ RowsRest /\ TokensStay /\ steps' = steps

LEMMA RestKeeps ==
    ASSUME Good, StageInv, StepRests
    PROVE  StageInv'
<1>1. \A j \in Jobs : StagesInOrder(jobs'[j], steps'[j])
  BY DEF StepRests, StageInv, StagesInOrder, RowsRest, RowRests
<1>2. ASSUME NEW s \in Slots
      PROVE  StageFits(slots'[s], jobs'[slots'[s].h.job], steps'[slots'[s].h.job])
  <2> SUFFICES ASSUME slots'[s].pc \in Staged,
                      jobs'[slots'[s].h.job].owner = slots'[s].h.owner
               PROVE  StageFits(slots'[s], jobs'[slots'[s].h.job], steps'[slots'[s].h.job])
    BY DEF StageFits
  <2>1. slots'[s] = slots[s] /\ slots[s].pc \in Staged
    BY DEF StepRests, SlotsRest, SlotRests
  <2>2. slots[s].h.job \in Jobs
    BY <2>1, StagedHandle
  <2>3. jobs[slots[s].h.job].owner = slots[s].h.owner
    BY <2>1 DEF StepRests, TokensStay
  <2> QED BY <2>1, <2>2, <2>3 DEF StepRests, StageInv, StageFits, RowsRest, RowRests
<1> QED BY <1>1, <1>2 DEF StageInv

\* A coroutine goes on in its stages, and changes its job's row only while its token
\* is there: then no other coroutine relies on the row.
LEMMA HolderKeeps ==
    ASSUME Good, AttemptInv, StageInv, NEW s \in Slots, NEW new, NEW j \in Jobs,
           slots[s].h \in Handle, slots[s].h.job = j, new.h = slots[s].h,
           slots' = [slots EXCEPT ![s] = new],
           \/ jobs' = jobs /\ steps' = steps
           \/ /\ jobs[j].owner = slots[s].h.owner /\ KeepsClaim(jobs[j], jobs'[j])
              /\ \A k \in Jobs \ {j} : jobs'[k] = jobs[k] /\ steps'[k] = steps[k],
           StagesInOrder(jobs'[j], steps'[j]), StageFits(new, jobs'[j], steps'[j])
    PROVE  StageInv'
<1>1. slots'[s] = new /\ \A t \in Slots \ {s} : slots'[t] = slots[t]
  BY Zenon DEF Good, SlotsOK
<1>2. \A k \in Jobs : StagesInOrder(jobs'[k], steps'[k])
  <2>1. \A k \in Jobs \ {j} : jobs'[k] = jobs[k] /\ steps'[k] = steps[k]
    OBVIOUS
  <2> QED BY <2>1 DEF StageInv
<1>3. ASSUME NEW t \in Slots \ {s}
      PROVE  StageFits(slots'[t], jobs'[slots'[t].h.job], steps'[slots'[t].h.job])
  <2> SUFFICES ASSUME slots'[t].pc \in Staged,
                      jobs'[slots'[t].h.job].owner = slots'[t].h.owner
               PROVE  StageFits(slots'[t], jobs'[slots'[t].h.job], steps'[slots'[t].h.job])
    BY DEF StageFits
  <2>1. slots'[t] = slots[t] /\ slots[t].h.job \in Jobs /\ slots[t].h \in Handle
    BY <1>1, StagedHandle
  <2>2. CASE jobs' = jobs /\ steps' = steps
    BY <2>1, <2>2 DEF StageInv
  <2>3. CASE /\ jobs[j].owner = slots[s].h.owner /\ KeepsClaim(jobs[j], jobs'[j])
             /\ \A k \in Jobs \ {j} : jobs'[k] = jobs[k] /\ steps'[k] = steps[k]
    <3>1. CASE slots[t].h.job # j
      BY <2>1, <2>3, <3>1 DEF StageInv
    <3>2. CASE slots[t].h.job = j
      <4>1. slots[t].h.owner # NoOwner
        BY <2>1, JobsAssumption DEF Handle
      <4>2. slots[t].h.owner = slots[s].h.owner
        BY <2>1, <2>3, <3>2, <4>1 DEF KeepsClaim
      <4> QED BY <2>1, <4>2 DEF AttemptInv, OwnersDiffer
    <3> QED BY <3>1, <3>2
  <2> QED BY <2>2, <2>3
<1>4. StageFits(slots'[s], jobs'[slots'[s].h.job], steps'[slots'[s].h.job])
  BY <1>1
<1> QED BY <1>2, <1>3, <1>4 DEF StageInv

LEMMA GoesOn ==
    ASSUME Good, NEW s \in Slots, NEW pc \in Pc, Goes(s, pc)
    PROVE  \E new \in Slot : /\ slots' = [slots EXCEPT ![s] = new]
                             /\ new.pc = pc /\ new.h = slots[s].h /\ new.at = slots[s].at
<1> DEFINE new == [slots[s] EXCEPT !.pc = pc, !.after = "none"]
<1>1. new \in Slot /\ new.pc = pc /\ new.h = slots[s].h /\ new.at = slots[s].at
  BY SlotFacts DEF SlotOK, Slot
<1>2. slots' = [slots EXCEPT ![s] = new]
  BY Zenon DEF Goes
<1> HIDE DEF new
<1> QED BY <1>1, <1>2

\* What run_stage leaves behind: the checkpoints up to this stage are there.
LEMMA NextStageFits ==
    ASSUME NEW slot \in Slot, slot.at \in 1..IndexingStage, NEW row, NEW made,
           row.stage \in 0..IndexingStage, slot.at <= row.stage,
           slot.at = IndexingStage => made[slot.at] = slot.h.attempt
    PROVE  NextStage(slot).h = slot.h /\ StageFits(NextStage(slot), row, made)
<1>1. CASE slot.at = IndexingStage
  <2> DEFINE new == [slot EXCEPT !.pc = "publish", !.at = PublishStage]
  <2>1. new.h = slot.h /\ new.pc = "publish"
    BY DEF Slot
  <2>2. NextStage(slot) = new
    BY <1>1 DEF NextStage
  <2>3. row.stage = IndexingStage
    BY <1>1, StageRange
  <2> HIDE DEF new
  <2> QED BY <1>1, <2>1, <2>2, <2>3 DEF StageFits
<1>2. CASE slot.at # IndexingStage
  <2> DEFINE new == [slot EXCEPT !.pc = "stage", !.at = slot.at + 1]
  <2>1. new.h = slot.h /\ new.pc = "stage" /\ new.at = slot.at + 1
    BY DEF Slot
  <2>2. NextStage(slot) = new
    BY <1>2 DEF NextStage
  <2>3. new.at - 1 <= row.stage
    BY <2>1, StageRange
  <2> HIDE DEF new
  <2> QED BY <2>1, <2>2, <2>3 DEF StageFits
<1> QED BY <1>1, <1>2

\* What the holder of the lease knows.
LEMMA HolderFacts ==
    ASSUME Good, StageInv, NEW s \in Slots, NEW d \in Lags, slots[s].pc \in Staged,
           ActiveLease(slots[s].h, d)
    PROVE  LET h == slots[s].h  row == jobs[h.job] IN
           /\ h.job \in Jobs /\ h \in Handle /\ row \in JobRow
           /\ row.owner = h.owner /\ row.status = "running" /\ row.attempt = h.attempt
           /\ row.stage \in 0..IndexingStage
           /\ steps[h.job] \in [Stages -> Nat]
           /\ StagesInOrder(row, steps[h.job]) /\ StageFits(slots[s], row, steps[h.job])
<1> DEFINE h == slots[s].h
           row == jobs[h.job]
<1>1. h.job \in Jobs /\ h \in Handle
  BY StagedHandle
<1>2. row \in JobRow /\ steps[h.job] \in [Stages -> Nat] /\ row.stage \in 0..NumStages
  BY <1>1 DEF Good, TypeOK, TablesTypeOK, JobRow
<1>3. row.owner = h.owner /\ row.status = "running" /\ row.attempt = h.attempt
  BY DEF ActiveLease, Holds
<1>4. StagesInOrder(row, steps[h.job]) /\ StageFits(slots[s], row, steps[h.job])
  BY <1>1 DEF StageInv
<1>5. row.stage \in 0..IndexingStage
  BY <1>2, <1>3, <1>4, StageRange DEF StagesInOrder
<1> QED BY <1>1, <1>2, <1>3, <1>4, <1>5

LEMMA StartKeepsStages ==
    ASSUME Good, AttemptInv, StageInv, NEW s \in Slots, Start(s)
    PROVE  StageInv'
<1> DEFINE new == [slots[s] EXCEPT !.pc = "stage", !.at = 1]
           j == slots[s].h.job
<1>1. new.h = slots[s].h /\ new.pc = "stage" /\ new.at = 1
  BY SlotFacts DEF SlotOK, Slot
<1>2. /\ slots' = [slots EXCEPT ![s] = new] /\ jobs' = jobs /\ steps' = steps
      /\ slots[s].pc = "start"
  BY DEF Start, StartPipeline
<1>3. slots[s].h \in Handle /\ j \in Jobs
  BY <1>2, SlotFacts DEF Working, Handle
<1> HIDE DEF new
<1>4. StagesInOrder(jobs'[j], steps'[j]) /\ jobs[j].stage \in Nat
  BY <1>2, <1>3 DEF StageInv, Good, TypeOK, TablesTypeOK, JobRow
<1>5. StageFits(new, jobs'[j], steps'[j])
  BY <1>1, <1>2, <1>4 DEF StageFits
<1> HIDE DEF j
<1>6. j = slots[s].h.job
  BY DEF j
<1> QED BY <1>1, <1>2, <1>3, <1>4, <1>5, <1>6, HolderKeeps

LEMMA ReuseKeepsStages ==
    ASSUME Good, AttemptInv, StageInv, NEW s \in Slots, NEW d \in Lags, ReuseCheckpoint(s, d)
    PROVE  StageInv'
<1> DEFINE h == slots[s].h
           j == h.job
           at == slots[s].at
           new == NextStage(slots[s])
<1>1. /\ slots[s].pc = "stage" /\ ActiveLease(h, d) /\ steps[j][at] # 0
      /\ at = IndexingStage => steps[j][at] = h.attempt
      /\ slots' = [slots EXCEPT ![s] = new] /\ jobs' = jobs /\ steps' = steps
  BY DEF ReuseCheckpoint, PassesFence, CancelNotSeen, tables
<1>2. /\ j \in Jobs /\ h \in Handle /\ jobs[j].stage \in 0..IndexingStage
      /\ StagesInOrder(jobs[j], steps[j])
  BY <1>1, HolderFacts DEF Staged
<1>3. at \in 1..IndexingStage /\ slots[s] \in Slot
  BY <1>1, SlotFacts DEF SlotOK
<1>4. at <= jobs[j].stage
  BY <1>1, <1>2, <1>3, StageRange DEF StagesInOrder
<1>5. new.h = h /\ StageFits(new, jobs[j], steps[j])
  BY <1>1, <1>2, <1>3, <1>4, NextStageFits
<1> HIDE DEF new
<1> QED BY <1>1, <1>2, <1>5, HolderKeeps

LEMMA RunKeepsStages ==
    ASSUME Good, AttemptInv, StageInv, NEW s \in Slots, NEW d \in Lags, RunOperation(s, d)
    PROVE  StageInv'
<1> DEFINE h == slots[s].h
           j == h.job
           at == slots[s].at
           row == jobs[j]
<1>1. /\ slots[s].pc = "stage" /\ ActiveLease(h, d) /\ Goes(s, "work")
      /\ \/ steps[j][at] = 0 /\ jobs' = jobs /\ steps' = steps
         \/ steps[j][at] # 0 /\ ResetStepsFrom(h, at)
  BY DEF RunOperation, PassesFence, CancelNotSeen, tables
<1>2. /\ j \in Jobs /\ h \in Handle /\ row \in JobRow /\ row.stage \in 0..IndexingStage
      /\ row.status = "running" /\ row.owner = h.owner /\ steps[j] \in [Stages -> Nat]
      /\ StagesInOrder(row, steps[j]) /\ StageFits(slots[s], row, steps[j])
  BY <1>1, HolderFacts DEF Staged
<1>3. at \in 1..IndexingStage
  BY <1>1, SlotFacts DEF SlotOK
<1>4. PICK new \in Slot : /\ slots' = [slots EXCEPT ![s] = new]
                          /\ new.pc = "work" /\ new.h = h /\ new.at = at
  BY <1>1, GoesOn DEF Pc
<1>5. CASE steps[j][at] = 0 /\ jobs' = jobs /\ steps' = steps
  <2>1. at - 1 <= row.stage
    BY <1>1, <1>2 DEF StageFits, Staged
  <2>2. at \in Stages
    BY <1>3, StageRange
  <2>3. ~(at <= row.stage)
    BY <1>2, <1>5, <2>2, CheckpointsReach
  <2>4. row.stage = at - 1
    <3> HIDE DEF at, row
    <3> QED BY <1>2, <1>3, <2>1, <2>3, StageRange
  <2>5. StageFits(new, jobs'[j], steps'[j])
    BY <1>4, <1>5, <2>4 DEF StageFits
  <2> QED BY <1>2, <1>4, <1>5, <2>5, HolderKeeps
<1>6. CASE steps[j][at] # 0 /\ ResetStepsFrom(h, at)
  <2> DEFINE kept == [n \in Stages |-> IF n < at THEN steps[j][n] ELSE 0]
  <2>1. PICK m \in 0..NumStages : /\ IsLatestStage(m, kept)
                                 /\ jobs' = [jobs EXCEPT ![j].stage = m]
    BY <1>6 DEF ResetStepsFrom
  <2>2. steps' = [steps EXCEPT ![j] = kept]
    BY <1>6 DEF ResetStepsFrom
  <2>3. \A n \in Stages : kept[n] # 0 <=> n <= at - 1
    <3> SUFFICES ASSUME NEW n \in Stages PROVE kept[n] # 0 <=> n <= at - 1
      OBVIOUS
    <3>1. at \in Stages /\ at <= row.stage
      BY <1>2, <1>3, <1>6, StageRange, CheckpointsReach
    <3>2. steps[j][n] # 0 <=> n <= row.stage
      BY <1>2, CheckpointsReach
    <3>3. kept[n] = IF n < at THEN steps[j][n] ELSE 0
      OBVIOUS
    <3> HIDE DEF at, row, kept
    <3>4. n \in Int /\ at \in Int /\ row.stage \in Int
      BY <1>2, <1>3, StageRange
    <3> QED BY <3>1, <3>2, <3>3, <3>4
  <2>4. m = at - 1
    <3> HIDE DEF at, kept
    <3>1. m \in Int /\ at \in Int /\ (m \in Stages => m <= at - 1)
      BY <1>3, <2>1, <2>3, StageRange DEF IsLatestStage
    <3>2. at - 1 \in Stages => at - 1 <= m
      BY <2>1, <2>3, <3>1 DEF IsLatestStage
    <3> QED BY <1>3, <2>1, <3>1, <3>2, StageRange
  <2> DEFINE new2 == [row EXCEPT !.stage = m]
  <2>5. /\ new2.stage = m /\ new2.status = "running" /\ new2.owner = row.owner
        /\ new2.attempt = row.attempt /\ new2.cancel = row.cancel
    BY <1>2 DEF JobRow
  <2>6. /\ jobs'[j] = new2 /\ steps'[j] = kept
        /\ \A k \in Jobs \ {j} : jobs'[k] = jobs[k] /\ steps'[k] = steps[k]
    BY <1>2, <2>1, <2>2 DEF Good, TypeOK, TablesTypeOK
  <2> HIDE DEF kept, new2
  <2>7. KeepsClaim(row, jobs'[j])
    BY <2>5, <2>6 DEF KeepsClaim
  <2>8. StagesInOrder(jobs'[j], steps'[j])
    BY <1>3, <2>3, <2>4, <2>5, <2>6, StageRange DEF StagesInOrder
  <2>9. StageFits(new, jobs'[j], steps'[j])
    BY <1>4, <2>4, <2>5, <2>6 DEF StageFits
  <2> QED BY <1>2, <1>4, <2>6, <2>7, <2>8, <2>9, HolderKeeps
<1> QED BY <1>1, <1>5, <1>6

\* The operation returns, the bulk begins or is acknowledged: the row is read at most.
LEMMA AwaitsKeepStages ==
    ASSUME Good, AttemptInv, StageInv, NEW s \in Slots, NEW d \in Lags,
           OperationReturns(s, d) \/ Project(s, d) \/ BulkReturns(s)
    PROVE  StageInv'
<1> DEFINE j == slots[s].h.job
<1>1. PICK pc \in Pc : /\ Goes(s, pc) /\ jobs' = jobs /\ steps' = steps
                       /\ \/ slots[s].pc = "work" /\ pc = "save"
                          \/ slots[s].pc = "publish" /\ pc = "bulk"
                          \/ slots[s].pc = "bulk" /\ pc = "indexed"
  <2>1. {"save", "bulk", "indexed"} \subseteq Pc
    BY DEF Pc
  <2> QED BY <2>1 DEF OperationReturns, Project, BulkReturns, tables
<1>2. slots[s].h \in Handle /\ j \in Jobs
  BY <1>1, StagedHandle DEF Staged
<1>3. PICK new \in Slot : /\ slots' = [slots EXCEPT ![s] = new]
                          /\ new.pc = pc /\ new.h = slots[s].h /\ new.at = slots[s].at
  BY <1>1, GoesOn
<1>4. StageFits(slots[s], jobs[j], steps[j]) /\ StagesInOrder(jobs[j], steps[j])
  BY <1>2 DEF StageInv
<1>5. StageFits(new, jobs'[j], steps'[j])
  BY <1>1, <1>3, <1>4 DEF StageFits, Staged
<1> QED BY <1>1, <1>2, <1>3, <1>4, <1>5, HolderKeeps

LEMMA CheckpointKeepsStages ==
    ASSUME Good, AttemptInv, StageInv, NEW s \in Slots, Checkpoint(s)
    PROVE  StageInv'
<1> DEFINE h == slots[s].h
           j == h.job
           at == slots[s].at
           row == jobs[j]
           new == NextStage(slots[s])
<1>1. /\ slots[s].pc = "save" /\ ActiveLease(h, 0) /\ slots' = [slots EXCEPT ![s] = new]
      /\ steps' = [steps EXCEPT ![j][at] = h.attempt]
      /\ jobs' = [jobs EXCEPT ![j].stage = at]
  BY DEF Checkpoint, CheckpointStep
<1>2. 0 \in Lags
  BY TimeAssumption
<1>3. /\ j \in Jobs /\ h \in Handle /\ row \in JobRow /\ row.attempt = h.attempt
      /\ row.status = "running" /\ row.owner = h.owner /\ steps[j] \in [Stages -> Nat]
      /\ StagesInOrder(row, steps[j]) /\ StageFits(slots[s], row, steps[j])
  BY <1>1, <1>2, HolderFacts DEF Staged
<1>4. at \in 1..IndexingStage /\ at \in Stages /\ slots[s] \in Slot
  BY <1>1, SlotFacts, StageRange DEF SlotOK
<1>5. row.stage = at - 1 /\ h.attempt \in Nat /\ h.attempt # 0
  BY <1>1, <1>3 DEF StageFits, Staged, Handle, Good, RowsOK, RowOK
<1> DEFINE row2 == [row EXCEPT !.stage = at]
           made == [steps[j] EXCEPT ![at] = h.attempt]
<1>6. /\ row2.stage = at /\ row2.status = "running" /\ row2.owner = row.owner
      /\ row2.attempt = row.attempt /\ row2.cancel = row.cancel
  BY <1>3 DEF JobRow
<1>7. made[at] = h.attempt /\ \A n \in Stages \ {at} : made[n] = steps[j][n]
  BY <1>3, <1>4
<1>8. /\ jobs'[j] = row2 /\ steps'[j] = made
      /\ \A k \in Jobs \ {j} : jobs'[k] = jobs[k] /\ steps'[k] = steps[k]
  BY <1>1, <1>3 DEF Good, TypeOK, TablesTypeOK
<1> HIDE DEF row2, made
<1>9. KeepsClaim(row, jobs'[j])
  BY <1>6, <1>8 DEF KeepsClaim
<1>10. \A n \in Stages : made[n] # 0 <=> n <= at
  <2> SUFFICES ASSUME NEW n \in Stages PROVE made[n] # 0 <=> n <= at
    OBVIOUS
  <2>1. steps[j][n] # 0 <=> n <= row.stage
    BY <1>3, CheckpointsReach
  <2> HIDE DEF at, row
  <2>2. n \in Int /\ at \in Int
    BY <1>4, StageRange
  <2>3. CASE n = at
    BY <1>5, <1>7, <2>2, <2>3
  <2>4. CASE n # at
    BY <1>5, <1>7, <2>1, <2>2, <2>4
  <2> QED BY <2>3, <2>4
<1>11. StagesInOrder(jobs'[j], steps'[j])
  BY <1>4, <1>6, <1>8, <1>10, StageRange DEF StagesInOrder
<1>12. row2.stage \in 0..IndexingStage /\ at <= row2.stage
  BY <1>4, <1>6, StageRange
<1>13. new.h = h /\ StageFits(new, row2, made)
  BY <1>4, <1>7, <1>12, NextStageFits
<1> HIDE DEF new
<1> QED BY <1>1, <1>3, <1>8, <1>9, <1>11, <1>13, HolderKeeps

LEMMA PublishKeepsStages ==
    ASSUME Good, AttemptInv, StageInv, NEW s \in Slots, Publish(s)
    PROVE  StageInv'
<1> DEFINE h == slots[s].h
           j == h.job
           row == jobs[j]
<1>1. /\ slots[s].pc = "indexed" /\ ActiveLease(h, 0) /\ Goes(s, "committed")
      /\ steps' = [steps EXCEPT ![j][PublishStage] = h.attempt]
      /\ jobs' = [jobs EXCEPT ![j] = [Unleased(row) EXCEPT !.status = "completed",
                                                          !.stage = PublishStage]]
  BY DEF Publish, CompletePipeline, CancelNotSeen
<1>2. 0 \in Lags
  BY TimeAssumption
<1>3. /\ j \in Jobs /\ h \in Handle /\ row \in JobRow /\ row.attempt = h.attempt
      /\ row.status = "running" /\ row.owner = h.owner /\ steps[j] \in [Stages -> Nat]
      /\ StagesInOrder(row, steps[j]) /\ StageFits(slots[s], row, steps[j])
  BY <1>1, <1>2, HolderFacts DEF Staged
<1>4. /\ row.stage = IndexingStage /\ steps[j][IndexingStage] = h.attempt
      /\ h.attempt \in Nat /\ h.attempt # 0
  BY <1>1, <1>3 DEF StageFits, Staged, Handle, Good, RowsOK, RowOK
<1>5. PICK new \in Slot : /\ slots' = [slots EXCEPT ![s] = new]
                          /\ new.pc = "committed" /\ new.h = h
  BY <1>1, GoesOn DEF Pc
<1> DEFINE row2 == [Unleased(row) EXCEPT !.status = "completed", !.stage = PublishStage]
           made == [steps[j] EXCEPT ![PublishStage] = h.attempt]
<1>6. Unleased(row) \in JobRow /\ Unleased(row).attempt = row.attempt
      /\ Unleased(row).owner = NoOwner
  BY <1>3, UnleasedRests DEF Unleased, JobRow
<1>7. /\ row2.stage = PublishStage /\ row2.status = "completed" /\ row2.owner = NoOwner
      /\ row2.attempt = row.attempt
  BY <1>6 DEF JobRow
<1>8. made[PublishStage] = h.attempt
      /\ \A n \in Stages \ {PublishStage} : made[n] = steps[j][n]
  BY <1>3, StageRange
<1>9. /\ jobs'[j] = row2 /\ steps'[j] = made
      /\ \A k \in Jobs \ {j} : jobs'[k] = jobs[k] /\ steps'[k] = steps[k]
  BY <1>1, <1>3 DEF Good, TypeOK, TablesTypeOK
<1> HIDE DEF row2, made
<1>10. KeepsClaim(row, jobs'[j])
  BY <1>7, <1>9 DEF KeepsClaim
<1>11. \A n \in Stages : made[n] # 0 <=> n <= PublishStage
  BY <1>3, <1>4, <1>8, StageRange DEF StagesInOrder
<1>12. made[IndexingStage] = row2.attempt
  BY <1>3, <1>4, <1>7, <1>8, StageRange
<1>13. StagesInOrder(jobs'[j], steps'[j])
  BY <1>7, <1>9, <1>11, <1>12 DEF StagesInOrder
<1>14. StageFits(new, jobs'[j], steps'[j])
  BY <1>5 DEF StageFits, Staged
<1> QED BY <1>3, <1>5, <1>9, <1>10, <1>13, <1>14, HolderKeeps

-----------------------------------------------------------------------------
(* Every step *)

\* The transactions that leave stages and checkpoints alone, or none.
RestCall == \/ UNCHANGED tables
            \/ \E j \in Jobs, d \in Lags : JobCall(j, d)
            \/ \E h \in Held, d \in Lags : LeaseCall(h, d)
            \/ \E d \in Lags : ClaimFindsNothing(d)
            \/ TablesTick

LEMMA TablesRest ==
    ASSUME Good, StageInv, RestCall
    PROVE  RowsRest /\ RowsKept /\ steps' = steps
<1>1. 0 \in Lags /\ TablesTypeOK /\ RowsOK
  BY TimeAssumption DEF Good, TypeOK
<1>2. CASE UNCHANGED tables
  BY <1>1, <1>2, RowsStay DEF tables, RowsRest, RowRests
<1>3. ASSUME NEW j \in Jobs, NEW d \in Lags, JobCall(j, d)
      PROVE  RowsRest /\ RowsKept /\ steps' = steps
  BY <1>1, <1>3, JobCallRests, JobCallRows DEF StageInv
<1>4. ASSUME NEW h \in Held, NEW d \in Lags, LeaseCall(h, d)
      PROVE  RowsRest /\ RowsKept /\ steps' = steps
  <2>1. h \in Handle
    BY <1>4, SlotFacts DEF Held, SlotOK, Slot
  <2> QED BY <1>1, <1>4, <2>1, LeaseCallRests, LeaseCallRows
<1>5. ASSUME NEW d \in Lags, ClaimFindsNothing(d)
      PROVE  RowsRest /\ RowsKept /\ steps' = steps
  BY <1>1, <1>5, SweepsRest, RecoverRows
<1>6. CASE TablesTick
  BY <1>1, <1>6, SweepsRest, TickRows
<1> QED BY <1>2, <1>3, <1>4, <1>5, <1>6 DEF RestCall

LEMMA CallRests ==
    ASSUME Good, StageInv, SlotsRest, RestCall
    PROVE  StepRests
<1>1. RowsRest /\ RowsKept /\ steps' = steps
  BY TablesRest
<1>2. TokensStay
  <2> SUFFICES ASSUME NEW s \in Slots, slots[s].pc \in Staged,
                      jobs'[slots[s].h.job].owner = slots[s].h.owner
               PROVE  /\ jobs[slots[s].h.job].owner = slots[s].h.owner
                      /\ jobs[slots[s].h.job].attempt = jobs'[slots[s].h.job].attempt
    BY DEF TokensStay
  <2>1. slots[s].h.job \in Jobs /\ slots[s].h.owner # NoOwner
    BY StagedHandle, JobsAssumption
  <2> QED BY <1>1, <2>1 DEF RowsKept, KeepsClaim
<1> QED BY <1>1, <1>2 DEF StepRests

\* A claim, whose token is fresh.
LEMMA ClaimStepRests ==
    ASSUME Good, NEW s \in Slots, NEW j \in Jobs, NEW o \in Owners, NEW d \in Lags,
           ClaimJob(s, j, o, d)
    PROVE  StepRests
<1> DEFINE h == [job |-> j, owner |-> o, attempt |-> jobs'[j].attempt]
           new == [IdleSlot EXCEPT !.pc = "claimed", !.h = h]
<1>1. Fresh(o) /\ ClaimDueJob(j, o, d) /\ slots' = [slots EXCEPT ![s] = new]
  BY DEF ClaimJob
<1>2. new.pc \notin Staged
  BY DEF IdleSlot, Staged
<1> HIDE DEF new
<1>3. SlotsRest
  BY <1>1, <1>2, OneSlotRests DEF SlotRests
<1>4. TablesTypeOK /\ RowsOK
  BY DEF Good, TypeOK
<1>5. /\ RowsRest /\ steps' = steps /\ jobs'[j].owner = o
      /\ \A k \in Jobs \ {j} : KeepsClaim(jobs[k], jobs'[k])
  BY <1>1, <1>4, ClaimRests, ClaimRows
<1>6. TokensStay
  <2> SUFFICES ASSUME NEW t \in Slots, slots[t].pc \in Staged,
                      jobs'[slots[t].h.job].owner = slots[t].h.owner
               PROVE  /\ jobs[slots[t].h.job].owner = slots[t].h.owner
                      /\ jobs[slots[t].h.job].attempt = jobs'[slots[t].h.job].attempt
    BY DEF TokensStay
  <2>1. slots[t].h.job \in Jobs /\ slots[t].h.owner # NoOwner
    BY StagedHandle, JobsAssumption
  <2>2. slots[t].h.job # j
    BY <1>1, <1>5 DEF Fresh
  <2> QED BY <1>5, <2>1, <2>2 DEF KeepsClaim
<1> QED BY <1>3, <1>5, <1>6 DEF StepRests

\* What coroutines do outside their stages.
LEMMA OtherStepsCall ==
    ASSUME Good, StageInv, NEW s \in Slots, NEW d \in Lags,
           \/ FindNoJob(s, d) \/ BeginAttempt(s, d) \/ CheckAfterLoss(s, d)
           \/ RecordFailure(s, d) \/ FinishCancellation(s, d) \/ FenceSeesCancel(s, d)
           \/ FenceLosesLease(s, d) \/ CleanUp(s, d) \/ CleanUpLosesLease(s, d)
           \/ PipelineReturns(s) \/ RollBack(s) \/ Renew(s, d) \/ RenewCleanup(s, d)
           \/ RenewalRefused(s, d) \/ CheckFails(s) \/ PipelineFails(s) \/ CleanUpFails(s)
           \/ RenewalFails(s) \/ ReleaseOnStop(s, d)
    PROVE  StepRests
<1>1. SlotsRest
  BY OtherStepsRest
<1>2. CASE FindNoJob(s, d)
  BY <1>1, <1>2, CallRests DEF FindNoJob, RestCall
<1>3. CASE \/ RecordFailure(s, d) \/ FinishCancellation(s, d)
           \/ ReleaseOnStop(s, d) \/ Renew(s, d) \/ RenewCleanup(s, d)
  <2>1. \/ UNCHANGED tables
        \/ \E h \in Held : LeaseCall(h, d)
    BY <1>3, ClientCalls
  <2> QED BY <1>1, <2>1, CallRests DEF RestCall
<1>4. CASE \/ BeginAttempt(s, d) \/ CheckAfterLoss(s, d) \/ FenceSeesCancel(s, d)
           \/ FenceLosesLease(s, d) \/ CleanUp(s, d) \/ CleanUpLosesLease(s, d)
           \/ PipelineReturns(s) \/ RollBack(s)
           \/ RenewalRefused(s, d) \/ CheckFails(s) \/ PipelineFails(s) \/ CleanUpFails(s)
           \/ RenewalFails(s)
  <2>1. UNCHANGED tables
    BY <1>4 DEF BeginAttempt, CheckAfterLoss, FenceSeesCancel, FenceLosesLease, CleanUp,
                CleanUpLosesLease, PipelineReturns, RollBack, RenewalRefused, CheckFails,
                PipelineFails, CleanUpFails, RenewalFails
  <2> QED BY <1>1, <2>1, CallRests DEF RestCall
<1> QED BY <1>2, <1>3, <1>4

LEMMA OutsideRests ==
    ASSUME Good, StageInv,
           \/ \E u \in flight : ApplyUpdate(u)
           \/ \E j \in Jobs, d \in Lags : ApiCall(j, d)
           \/ Tick
           \/ UNCHANGED vars
    PROVE  StepRests
<1>1. SlotsRest
  BY DEF ApplyUpdate, ApiCall, Tick, vars, SlotsRest, SlotRests
<1>2. RestCall
  BY DEF ApplyUpdate, ApiCall, RetryByUser, JobCall, Tick, vars, RestCall
<1> QED BY <1>1, <1>2, CallRests

LEMMA StageCases ==
    ASSUME Good, StageInv, [Next]_vars
    PROVE  StepRests \/ \E s \in Slots, d \in Lags : StageStep(s, d)
<1>1. 0 \in Lags
  BY TimeAssumption
<1>2. ASSUME NEW s \in Slots, Claims(s) PROVE StepRests
  BY <1>2, OtherStepsCall, ClaimStepRests DEF Claims
<1>3. ASSUME NEW s \in Slots, Advances(s)
      PROVE  StepRests \/ \E d \in Lags : StageStep(s, d)
  <2>1. ASSUME NEW d \in Lags, FinishRefused(s, d) PROVE StepRests
    <3>1. SlotsRest
      BY <2>1, ManySlotsRest
    <3>2. RestCall
      BY <2>1 DEF FinishRefused, RestCall
    <3> QED BY <3>1, <3>2, CallRests
  <2> QED BY <1>1, <1>3, <2>1, OtherStepsCall DEF Advances, StageStep
<1>4. ASSUME NEW s \in Slots, Renews(s) \/ Fails(s) PROVE StepRests
  BY <1>1, <1>4, OtherStepsCall DEF Renews, Fails
<1>5. ASSUME NEW w \in Workers, NewRound(w) \/ Interrupt(w) \/ Crash(w) PROVE StepRests
  <2>1. RestCall
    BY <1>5 DEF NewRound, Interrupt, Crash, RestCall
  <2>2. SlotsRest
    BY <1>5, ManySlotsRest
  <2> QED BY <2>1, <2>2, CallRests
<1> QED BY <1>2, <1>3, <1>4, <1>5, OutsideRests DEF Next

LEMMA StagesStay ==
    ASSUME Good, AttemptInv, StageInv, [Next]_vars
    PROVE  StageInv'
BY StageCases, RestKeeps, StartKeepsStages, ReuseKeepsStages, RunKeepsStages,
   AwaitsKeepStages, CheckpointKeepsStages, PublishKeepsStages DEF StageStep

-----------------------------------------------------------------------------
(* Attempts, checkpoints and documents agree *)

LEMMA StagesInductive == Spec => []StageInv
<1>1. Init => StageInv
  <2> SUFFICES ASSUME Init PROVE StageInv
    OBVIOUS
  <2>1. \A s \in Slots : slots[s].pc \notin Staged
    BY DEF Init, IdleSlot, Staged
  <2>2. \A j \in Jobs : /\ jobs[j].stage = 0 /\ jobs[j].status = "absent"
                        /\ \A n \in Stages : steps[j][n] = 0
    BY DEF Init, TablesInit, AbsentJob, NoSteps
  <2>3. \A n \in Stages : ~(n <= 0)
    BY StageRange
  <2>4. PublishStage # 0
    BY StageRange
  <2> QED BY <2>1, <2>2, <2>3, <2>4 DEF StageInv, StagesInOrder, StageFits
<1>2. Good /\ AttemptInv /\ StageInv /\ [Next]_vars => StageInv'
  BY StagesStay
<1> QED BY <1>1, <1>2, InvInductive, PTL DEF Spec

\* The holder of the lease presents steps the repository takes.
LEMMA StagesAccepted ==
    ASSUME Good, StageInv
    PROVE  PipelineStepsAreAccepted
<1>1. 0 \in Lags
  BY TimeAssumption
<1> SUFFICES ASSUME NEW s \in Slots, CancelNotSeen(slots[s].h, 0),
                    slots[s].pc \in {"save", "publish", "bulk", "indexed"}
             PROVE  LET h == slots[s].h IN
                    /\ slots[s].pc = "save" => /\ steps[h.job][slots[s].at] = 0
                                              /\ slots[s].at >= jobs[h.job].stage
                    /\ slots[s].pc # "save" =>
                           /\ \A n \in Stages \ {PublishStage} : steps[h.job][n] # 0
                           /\ steps[h.job][PublishStage] = 0
  BY DEF PipelineStepsAreAccepted
<1> DEFINE h == slots[s].h
           at == slots[s].at
           row == jobs[h.job]
           made == steps[h.job]
<1>2. /\ row.owner = h.owner /\ row.stage \in 0..IndexingStage
      /\ StagesInOrder(row, made) /\ StageFits(slots[s], row, made)
  BY <1>1, HolderFacts DEF CancelNotSeen, Staged
<1>3. CASE slots[s].pc = "save"
  <2>1. row.stage = at - 1
    BY <1>2, <1>3 DEF StageFits, Staged
  <2>2. at \in 1..IndexingStage
    BY <1>3, SlotFacts DEF SlotOK
  <2>3. at \in Stages /\ ~(at <= row.stage) /\ at >= row.stage
    <3> HIDE DEF at, row
    <3> QED BY <2>1, <2>2, StageRange
  <2>4. made[at] = 0
    BY <1>2, <2>3, CheckpointsReach
  <2> QED BY <1>3, <2>3, <2>4
<1>4. CASE slots[s].pc # "save"
  <2>1. row.stage = IndexingStage
    BY <1>2, <1>4 DEF StageFits, Staged
  <2>2. /\ \A n \in Stages \ {PublishStage} : n <= IndexingStage
        /\ PublishStage \in Stages /\ ~(PublishStage <= IndexingStage)
    BY StageRange
  <2> QED BY <1>2, <1>4, <2>1, <2>2, CheckpointsReach
<1> QED BY <1>3, <1>4

\* Attempts, checkpoints and documents agree, and the pipeline only presents steps
\* that the holder of the lease may present (run_stage, checkpoint_step,
\* complete_pipeline), for any number of stages, workers and faults.
THEOREM AttemptsAlwaysAgree == Spec => []AttemptsAgree
<1>1. Good /\ StageInv => TypeOK /\ PipelineStepsAreAccepted /\ CompletedJobsIndexTheirOwn
  BY StagesAccepted DEF Good, StageInv, StagesInOrder, CompletedJobsIndexTheirOwn
<1>2. TypeOK /\ StepsComeFromAttempts /\ IndexIsNotAhead
         /\ PipelineStepsAreAccepted /\ CompletedJobsIndexTheirOwn => AttemptsAgree
  BY DEF AttemptsAgree
<1> QED BY <1>1, <1>2, InvInductive, StagesInductive, NumbersAreReached, PTL

-----------------------------------------------------------------------------
(* The documents of a publication *)

\* A coroutine whose token is still in the row has its documents in the index, or,
\* while it waits for Elasticsearch, on their way.
Acknowledged(slot, row, table, sent) ==
    /\ slot.pc \in {"bulk", "indexed"}
    /\ row.owner = slot.h.owner /\ row.attempt = slot.h.attempt
    => \A g \in Segments :
           \/ table[slot.h.job][g] = slot.h.attempt
           \/ /\ slot.pc = "bulk"
              /\ \E u \in sent : /\ u.job = slot.h.job /\ u.attempt = slot.h.attempt
                                 /\ u.segment = g

PublishInv == \A s \in Slots : Acknowledged(slots[s], jobs[slots[s].h.job], docs, flight)

\* A document is only written over by an attempt that is no older, and none is newer
\* than the job's.
LEMMA UpdatesAreFenced ==
    ASSUME Good, IndexIsNotAhead, NEW u \in flight, ApplyUpdate(u),
           NEW j \in Jobs, NEW g \in Segments
    PROVE  /\ flight' = flight \ {u}
           /\ docs[j][g] = jobs[j].attempt => docs'[j][g] = docs[j][g]
           /\ u.job = j /\ u.segment = g /\ u.attempt = jobs[j].attempt
                  => docs'[j][g] = u.attempt
<1>1. /\ docs \in [Jobs -> [Segments -> Nat]] /\ u \in Update
      /\ docs[j][g] \in Nat /\ jobs[j].attempt \in Nat /\ u.attempt \in Nat
  BY DEF Good, TypeOK, TablesTypeOK, JobRow, Update
<1>2. docs[j][g] <= jobs[j].attempt /\ u.attempt <= jobs[u.job].attempt
  BY DEF IndexIsNotAhead
<1>3. flight' = flight \ {u}
  BY DEF ApplyUpdate
<1>4. CASE docs[u.job][u.segment] <= u.attempt
  <2>1. docs' = [docs EXCEPT ![u.job][u.segment] = u.attempt]
    BY <1>4 DEF ApplyUpdate
  <2>2. docs'[j][g] = IF u.job = j /\ u.segment = g THEN u.attempt ELSE docs[j][g]
    BY <1>1, <2>1
  <2>3. CASE u.job = j /\ u.segment = g
    <3>1. docs[j][g] <= u.attempt /\ u.attempt <= jobs[j].attempt /\ docs'[j][g] = u.attempt
      BY <1>2, <1>4, <2>2, <2>3
    <3>2. docs[j][g] = jobs[j].attempt => u.attempt = docs[j][g]
      BY <1>1, <3>1
    <3> QED BY <1>3, <3>1, <3>2
  <2> QED BY <1>3, <2>2, <2>3
<1>5. CASE ~(docs[u.job][u.segment] <= u.attempt)
  <2>1. docs' = docs
    BY <1>5 DEF ApplyUpdate
  <2> QED BY <1>1, <1>2, <1>3, <1>5, <2>1
<1> QED BY <1>4, <1>5

\* A rollback or a cleanup takes away the documents of its own attempt only.
LEMMA ErasesItsOwn ==
    ASSUME Good, NEW s \in Slots, NEW d \in Lags, RollBack(s) \/ CleanUp(s, d),
           NEW j \in Jobs, slots[s].h.job # j \/ slots[s].h.attempt # jobs[j].attempt,
           NEW g \in Segments, docs[j][g] = jobs[j].attempt
    PROVE  docs'[j][g] = docs[j][g]
<1>1. docs \in [Jobs -> [Segments -> Nat]]
  BY DEF Good, TypeOK
<1>2. docs' \in {docs, ErasedDocs(slots[s].h)}
  BY DEF RollBack, CleanUp
<1>3. ErasedDocs(slots[s].h)[j][g] = docs[j][g]
  BY <1>1 DEF ErasedDocs
<1> QED BY <1>2, <1>3

\* The documents of a coroutine that holds the row stay, whatever the others do.
LEMMA DocumentsStay ==
    ASSUME Good, AttemptInv, PublishInv, [Next]_vars, NEW s \in Slots,
           slots[s].pc \in {"bulk", "indexed"}, slots'[s] = slots[s],
           jobs[slots[s].h.job].owner = slots[s].h.owner,
           jobs[slots[s].h.job].attempt = slots[s].h.attempt
    PROVE  Acknowledged(slots'[s], jobs[slots[s].h.job], docs', flight')
<1> DEFINE h == slots[s].h
           j == h.job
<1>1. j \in Jobs /\ h \in Handle
  BY StagedHandle DEF Staged
<1>2. Acknowledged(slots[s], jobs[j], docs, flight)
  BY DEF PublishInv
<1>3. CASE docs' = docs /\ flight' = flight
  BY <1>2, <1>3
<1>4. ASSUME NEW u \in flight, ApplyUpdate(u)
      PROVE  Acknowledged(slots'[s], jobs[j], docs', flight')
  <2>1. IndexIsNotAhead
    BY NumbersReached
  <2>2. ASSUME NEW g \in Segments
        PROVE  \/ docs'[j][g] = h.attempt
               \/ /\ slots[s].pc = "bulk"
                  /\ \E v \in flight' : v.job = j /\ v.attempt = h.attempt /\ v.segment = g
    <3>1. /\ flight' = flight \ {u}
          /\ docs[j][g] = jobs[j].attempt => docs'[j][g] = docs[j][g]
          /\ u.job = j /\ u.segment = g /\ u.attempt = jobs[j].attempt
                 => docs'[j][g] = u.attempt
      BY <1>1, <1>4, <2>1, UpdatesAreFenced
    <3> QED BY <1>2, <3>1 DEF Acknowledged
  <2> QED BY <2>2 DEF Acknowledged
<1>5. ASSUME NEW t \in Slots, NEW d \in Lags, Project(t, d)
      PROVE  Acknowledged(slots'[s], jobs[j], docs', flight')
  <2>1. docs' = docs /\ flight \subseteq flight'
    BY <1>5 DEF Project
  <2> QED BY <1>2, <2>1 DEF Acknowledged
<1>6. ASSUME NEW t \in Slots, NEW d \in Lags, RollBack(t) \/ CleanUp(t, d)
      PROVE  Acknowledged(slots'[s], jobs[j], docs', flight')
  <2>1. t # s
    BY <1>6 DEF RollBack, CleanUp
  <2>2. slots[t].h.job # j \/ slots[t].h.attempt # h.attempt
    <3>1. CASE RollBack(t)
      BY <2>1, <3>1 DEF RollBack, AttemptInv, AttemptsDiffer, Begun, InPipeline
    <3>2. CASE CleanUp(t, d)
      <4>1. jobs[slots[t].h.job].owner = slots[t].h.owner
        BY <3>2 DEF CleanUp, CleanupLease, Holds
      <4> QED BY <1>1, <2>1, <4>1 DEF AttemptInv, OwnersDiffer
    <3> QED BY <1>6, <3>1, <3>2
  <2>3. \A g \in Segments : docs[j][g] = h.attempt => docs'[j][g] = docs[j][g]
    BY <1>1, <1>6, <2>2, ErasesItsOwn
  <2>4. flight' = flight
    BY <1>6 DEF RollBack, CleanUp
  <2> QED BY <1>2, <2>3, <2>4 DEF Acknowledged
<1> QED BY <1>3, <1>4, <1>5, <1>6, IndexCases

\* The bulk is sent, or acknowledged.
LEMMA BulkKeepsPublication ==
    ASSUME Good, PublishInv, NEW s \in Slots, NEW d \in Lags,
           Project(s, d) \/ BulkReturns(s)
    PROVE  Acknowledged(slots'[s], jobs[slots[s].h.job], docs', flight')
<1> DEFINE h == slots[s].h
<1>1. h.job \in Jobs /\ h \in Handle
  BY StagedHandle DEF Staged, Project, BulkReturns
<1>2. CASE Project(s, d)
  <2>1. Goes(s, "bulk") /\ flight' = flight \cup
            [job : {h.job}, attempt : {h.attempt}, segment : Segments]
    BY <1>2 DEF Project
  <2>2. PICK new \in Slot : /\ slots' = [slots EXCEPT ![s] = new]
                            /\ new.pc = "bulk" /\ new.h = h
    BY <2>1, GoesOn DEF Pc
  <2>3. slots'[s] = new
    BY <2>2, Zenon DEF Good, SlotsOK
  <2>4. \A g \in Segments : \E u \in flight' :
            u.job = h.job /\ u.attempt = h.attempt /\ u.segment = g
    <3> SUFFICES ASSUME NEW g \in Segments
                 PROVE  \E u \in flight' :
                            u.job = h.job /\ u.attempt = h.attempt /\ u.segment = g
      OBVIOUS
    <3> DEFINE u == [job |-> h.job, attempt |-> h.attempt, segment |-> g]
    <3>1. u \in flight'
      BY <2>1
    <3>2. u.job = h.job /\ u.attempt = h.attempt /\ u.segment = g
      OBVIOUS
    <3> HIDE DEF u
    <3> QED BY <3>1, <3>2
  <2> QED BY <2>2, <2>3, <2>4 DEF Acknowledged
<1>3. CASE BulkReturns(s)
  <2>1. /\ Goes(s, "indexed") /\ docs' = docs /\ slots[s].pc = "bulk"
        /\ \A u \in flight : ~(u.job = h.job /\ u.attempt = h.attempt)
    BY <1>3 DEF BulkReturns, index
  <2>2. PICK new \in Slot : /\ slots' = [slots EXCEPT ![s] = new]
                            /\ new.pc = "indexed" /\ new.h = h
    BY <2>1, GoesOn DEF Pc
  <2>3. slots'[s] = new
    BY <2>2, Zenon DEF Good, SlotsOK
  <2>4. Acknowledged(slots[s], jobs[h.job], docs, flight)
    BY DEF PublishInv
  <2> QED BY <2>1, <2>2, <2>3, <2>4 DEF Acknowledged
<1> QED BY <1>2, <1>3

\* A stage writes its own job's row, while the coroutine holds it, and only
\* complete_pipeline makes it completed.
LEMMA StageStepRows ==
    ASSUME Good, NEW s \in Slots, NEW d \in Lags, StageStep(s, d)
    PROVE  /\ RowsKept
           /\ \A j \in Jobs : jobs[j].status = "completed" => jobs'[j] = jobs[j]
           /\ \A j \in Jobs :
                  jobs[j].status # "completed" /\ jobs'[j].status = "completed"
                      => Publish(s) /\ j = slots[s].h.job
<1> DEFINE h == slots[s].h
<1>1. TablesTypeOK /\ RowsOK
  BY DEF Good, TypeOK
<1>2. CASE UNCHANGED tables
  BY <1>1, <1>2, RowsStay DEF tables
<1>3. CASE Publish(s)
  <2> DEFINE row == [Unleased(jobs[h.job]) EXCEPT !.status = "completed",
                                                  !.stage = PublishStage]
  <2>1. h \in Handle /\ CompletePipeline(h)
    BY <1>3, StagedHandle DEF Publish, Staged
  <2>2. jobs' = [jobs EXCEPT ![h.job] = row] /\ jobs[h.job].status = "running"
    BY <2>1 DEF CompletePipeline, CancelNotSeen, ActiveLease, Holds
  <2>3. \A j \in Jobs \ {h.job} : jobs'[j] = jobs[j]
    BY <1>1, <2>2 DEF TablesTypeOK
  <2>4. RowsKept
    BY <1>1, <2>1, PipelineCallRows DEF PipelineCall
  <2> QED BY <1>3, <2>2, <2>3, <2>4
<1>4. ASSUME NEW n \in Stages, CheckpointStep(h, n) \/ ResetStepsFrom(h, n), h \in Handle
      PROVE  /\ RowsKept
             /\ \A j \in Jobs : jobs'[j].status = jobs[j].status
             /\ \A j \in Jobs : jobs[j].status = "completed" => jobs'[j] = jobs[j]
  <2>1. RowsKept
    BY <1>1, <1>4, PipelineCallRows DEF PipelineCall
  <2>2. jobs[h.job].status = "running" /\ h.job \in Jobs
    BY <1>4 DEF CheckpointStep, ResetStepsFrom, CancelNotSeen, ActiveLease, Holds, Handle
  <2>3. PICK m : jobs' = [jobs EXCEPT ![h.job].stage = m]
    BY <1>4 DEF CheckpointStep, ResetStepsFrom
  <2>4. jobs'[h.job].status = jobs[h.job].status
    BY <1>1, <2>2, <2>3 DEF TablesTypeOK, JobRow
  <2>5. \A j \in Jobs \ {h.job} : jobs'[j] = jobs[j]
    BY <1>1, <2>3 DEF TablesTypeOK
  <2> QED BY <2>1, <2>2, <2>4, <2>5
<1>5. CASE Checkpoint(s) \/ RunOperation(s, d)
  <2>1. h \in Handle /\ slots[s].at \in 1..IndexingStage
    BY <1>5, StagedHandle, SlotFacts DEF Checkpoint, RunOperation, Staged, SlotOK
  <2>2. slots[s].at \in Stages
    BY <2>1, StageRange
  <2>3. \/ UNCHANGED tables
        \/ CheckpointStep(h, slots[s].at) \/ ResetStepsFrom(h, slots[s].at)
    BY <1>5 DEF Checkpoint, RunOperation
  <2> QED BY <1>2, <1>4, <2>1, <2>2, <2>3
<1>6. CASE Start(s)
  <2>1. h \in Handle /\ StartPipeline(h)
    BY <1>6, SlotFacts DEF Start, Working
  <2>2. RowsKept
    BY <1>1, <2>1, PipelineCallRows DEF PipelineCall
  <2> QED BY <2>1, <2>2 DEF StartPipeline
<1>7. CASE ReuseCheckpoint(s, d) \/ OperationReturns(s, d) \/ Project(s, d) \/ BulkReturns(s)
  BY <1>2, <1>7 DEF ReuseCheckpoint, OperationReturns, Project, BulkReturns
<1> QED BY <1>3, <1>5, <1>6, <1>7 DEF StageStep

\* The other steps of a coroutine's stages leave it short of the projection, or past
\* the publication.
LEMMA OtherStagesPublishNothing ==
    ASSUME Good, NEW s \in Slots, NEW d \in Lags, StageStep(s, d)
    PROVE  \/ Project(s, d) \/ BulkReturns(s)
           \/ slots'[s].pc \notin {"bulk", "indexed"}
<1> DEFINE Short == slots'[s].pc \notin {"bulk", "indexed"}
<1>1. ASSUME NEW pc \in {"work", "save", "committed"}, Goes(s, pc) PROVE Short
  <2>1. slots'[s].pc = pc
    BY <1>1, GoesOn DEF Pc, Good, SlotsOK
  <2> QED BY <2>1
<1>2. CASE slots' = [slots EXCEPT ![s] = NextStage(@)]
  <2>1. slots'[s] = NextStage(slots[s]) /\ slots[s] \in Slot
    BY <1>2 DEF Good, SlotsOK
  <2>2. NextStage(slots[s]).pc \in {"publish", "stage"}
    BY <2>1 DEF NextStage, Slot
  <2> QED BY <2>1, <2>2
<1>3. CASE Start(s)
  <2>1. slots'[s].pc = "stage"
    BY <1>3 DEF Start, Good, SlotsOK, Slot
  <2> QED BY <2>1
<1>4. CASE ReuseCheckpoint(s, d) \/ Checkpoint(s)
  BY <1>2, <1>4 DEF ReuseCheckpoint, Checkpoint
<1>5. CASE RunOperation(s, d) \/ OperationReturns(s, d) \/ Publish(s)
  BY <1>1, <1>5 DEF RunOperation, OperationReturns, Publish
<1> QED BY <1>3, <1>4, <1>5 DEF StageStep

\* Only the coroutine's own step moves it on.
LEMMA OthersStay ==
    ASSUME Good, NEW s \in Slots, NEW d \in Lags, StageStep(s, d), NEW t \in Slots \ {s}
    PROVE  slots'[t] = slots[t]
<1>1. ASSUME NEW pc, Goes(s, pc) PROVE slots'[t] = slots[t]
  BY <1>1 DEF Goes, Good, SlotsOK
<1>2. CASE \/ RunOperation(s, d) \/ OperationReturns(s, d) \/ Project(s, d)
           \/ BulkReturns(s) \/ Publish(s)
  BY <1>1, <1>2 DEF RunOperation, OperationReturns, Project, BulkReturns, Publish
<1>3. CASE Start(s) \/ ReuseCheckpoint(s, d) \/ Checkpoint(s)
  BY <1>3 DEF Start, ReuseCheckpoint, Checkpoint, Good, SlotsOK
<1> QED BY <1>2, <1>3 DEF StageStep

LEMMA PublicationStays ==
    ASSUME Good, AttemptInv, StageInv, PublishInv, [Next]_vars
    PROVE  PublishInv'
<1> SUFFICES ASSUME NEW s \in Slots,
                    slots'[s].pc \in {"bulk", "indexed"},
                    jobs'[slots'[s].h.job].owner = slots'[s].h.owner,
                    jobs'[slots'[s].h.job].attempt = slots'[s].h.attempt
             PROVE  Acknowledged(slots'[s], jobs'[slots'[s].h.job], docs', flight')
  BY DEF PublishInv, Acknowledged
<1>1. ASSUME slots'[s] = slots[s],
             jobs[slots[s].h.job].owner = slots[s].h.owner,
             jobs[slots[s].h.job].attempt = slots[s].h.attempt
      PROVE  Acknowledged(slots'[s], jobs'[slots'[s].h.job], docs', flight')
  <2>1. Acknowledged(slots'[s], jobs[slots[s].h.job], docs', flight')
    BY <1>1, DocumentsStay
  <2> QED BY <1>1, <2>1 DEF Acknowledged
<1>2. CASE StepRests
  <2>1. slots'[s] = slots[s] /\ slots[s].pc \in Staged
    BY <1>2 DEF StepRests, SlotsRest, SlotRests, Staged
  <2>2. /\ jobs[slots[s].h.job].owner = slots[s].h.owner
        /\ jobs[slots[s].h.job].attempt = slots[s].h.attempt
    BY <1>2, <2>1 DEF StepRests, TokensStay
  <2> QED BY <1>1, <2>1, <2>2
<1>3. ASSUME NEW t \in Slots, NEW d \in Lags, StageStep(t, d)
      PROVE  Acknowledged(slots'[s], jobs'[slots'[s].h.job], docs', flight')
  <2>1. CASE t # s
    <3>1. slots'[s] = slots[s]
      BY <1>3, <2>1, OthersStay
    <3>2. slots[s].h.job \in Jobs /\ slots[s].h.owner # NoOwner
      BY <3>1, StagedHandle, JobsAssumption DEF Staged
    <3>3. /\ jobs[slots[s].h.job].owner = slots[s].h.owner
          /\ jobs[slots[s].h.job].attempt = slots[s].h.attempt
      BY <1>3, <3>1, <3>2, StageStepRows DEF RowsKept, KeepsClaim
    <3> QED BY <1>1, <3>1, <3>3
  <2>2. CASE t = s
    <3>1. Project(s, d) \/ BulkReturns(s)
      BY <1>3, <2>2, OtherStagesPublishNothing
    <3>2. jobs' = jobs
      BY <3>1 DEF Project, BulkReturns, tables
    <3>3. slots'[s].h = slots[s].h
      BY <3>1, GoesOn DEF Project, BulkReturns, Pc, Good, SlotsOK
    <3>4. Acknowledged(slots'[s], jobs[slots[s].h.job], docs', flight')
      BY <3>1, BulkKeepsPublication
    <3> QED BY <3>2, <3>3, <3>4
  <2> QED BY <2>1, <2>2
<1> QED BY <1>2, <1>3, StageCases

LEMMA PublishInductive == Spec => []PublishInv
<1>1. Init => PublishInv
  BY DEF Init, IdleSlot, PublishInv, Acknowledged
<1>2. Good /\ AttemptInv /\ StageInv /\ PublishInv /\ [Next]_vars => PublishInv'
  BY PublicationStays
<1> QED BY <1>1, <1>2, InvInductive, StagesInductive, PTL DEF Spec

-----------------------------------------------------------------------------
(* Publication is atomic against every other attempt *)

\* A step does not take away the documents of a completed job, unless the coroutine
\* that published them rolls back.
LEMMA PublishedStay ==
    ASSUME Good, AttemptInv, StageInv, [Next]_vars,
           NEW j \in Jobs, jobs[j].status = "completed", Indexed(j)
    PROVE  Indexed(j)' \/ PublisherRollsBack(j)
<1>1. jobs'[j].attempt = jobs[j].attempt
  <2>1. CASE StepRests
    BY <2>1 DEF StepRests, RowsRest, RowRests
  <2>2. ASSUME NEW s \in Slots, NEW d \in Lags, StageStep(s, d)
        PROVE  jobs'[j].attempt = jobs[j].attempt
    BY <2>2, StageStepRows
  <2> QED BY <2>1, <2>2, StageCases
<1>2. ASSUME \A g \in Segments : docs[j][g] = jobs[j].attempt => docs'[j][g] = docs[j][g]
      PROVE  Indexed(j)'
  BY <1>1, <1>2 DEF Indexed
<1>3. CASE docs' = docs
  BY <1>2, <1>3
<1>4. ASSUME NEW u \in flight, ApplyUpdate(u) PROVE Indexed(j)'
  BY <1>2, <1>4, NumbersReached, UpdatesAreFenced
<1>5. ASSUME NEW s \in Slots, NEW d \in Lags, RollBack(s),
             slots[s].h.job # j \/ slots[s].h.attempt # jobs[j].attempt
      PROVE  Indexed(j)'
  BY <1>2, <1>5, ErasesItsOwn
<1>6. ASSUME NEW s \in Slots, NEW d \in Lags, CleanUp(s, d) PROVE Indexed(j)'
  <2>1. jobs[slots[s].h.job].status = "running"
    BY <1>6 DEF CleanUp, CleanupLease, Holds
  <2>2. slots[s].h.job # j
    BY <2>1
  <2> QED BY <1>2, <1>6, <2>2, ErasesItsOwn
<1>7. ASSUME NEW s \in Slots, NEW d \in Lags, Project(s, d) PROVE docs' = docs
  BY <1>7 DEF Project
<1>8. ASSUME NEW s \in Slots, RollBack(s) PROVE slots[s].pc = "rollback"
  BY <1>8 DEF RollBack
<1> QED BY <1>3, <1>4, <1>5, <1>6, <1>7, <1>8, IndexCases DEF PublisherRollsBack

\* complete_pipeline finds every document of its attempt in the index.
LEMMA PublishesIndexed ==
    ASSUME Good, StageInv, PublishInv, [Next]_vars, NEW j \in Jobs,
           jobs[j].status # "completed", jobs'[j].status = "completed"
    PROVE  Indexed(j)'
<1>1. ~StepRests
  BY DEF StepRests, RowsRest, RowRests
<1>2. PICK s \in Slots : Publish(s) /\ j = slots[s].h.job
  BY <1>1, StageCases, StageStepRows
<1>3. /\ slots[s].pc = "indexed" /\ docs' = docs /\ CompletePipeline(slots[s].h)
  BY <1>2 DEF Publish, index
<1>4. jobs[j].owner = slots[s].h.owner /\ jobs[j].attempt = slots[s].h.attempt
  BY <1>2, <1>3 DEF CompletePipeline, CancelNotSeen, ActiveLease, Holds
<1>5. \A g \in Segments : docs[j][g] = jobs[j].attempt
  BY <1>2, <1>3, <1>4 DEF PublishInv, Acknowledged
<1>6. jobs'[j].attempt = jobs[j].attempt
  <2> DEFINE row == [Unleased(jobs[j]) EXCEPT !.status = "completed",
                                              !.stage = PublishStage]
  <2>1. jobs' = [jobs EXCEPT ![j] = row]
    BY <1>2, <1>3 DEF CompletePipeline
  <2>2. jobs' = [jobs EXCEPT ![j] = row] /\ jobs[j] \in JobRow /\ jobs \in [Jobs -> JobRow]
    BY <2>1 DEF Good, TypeOK, TablesTypeOK
  <2>3. row.attempt = jobs[j].attempt
    BY <2>2, Zenon DEF Unleased, JobRow
  <2> HIDE DEF row
  <2> QED BY <2>2, <2>3
<1> QED BY <1>3, <1>5, <1>6 DEF Indexed

\* A job becomes completed only with all its documents in the index, and from then on
\* only the coroutine that published them can take one away (es_index.py's fence and
\* delete_projection's filter by attempt).
THEOREM PublicationAlwaysSafe == Spec => PublicationIsSafe
<1>1. Good /\ AttemptInv /\ StageInv /\ PublishInv /\ [Next]_vars
          => [\A j \in Jobs :
                 jobs[j].status # "completed" /\ jobs'[j].status = "completed" =>
                     Indexed(j)']_vars
  BY PublishesIndexed
<1>2. Good /\ AttemptInv /\ StageInv /\ PublishInv /\ [Next]_vars
          => [\A j \in Jobs : jobs[j].status = "completed" /\ Indexed(j) =>
                 Indexed(j)' \/ PublisherRollsBack(j)]_vars
  BY PublishedStay
<1>3. Spec => PublishesOnlyWhatIsIndexed
  BY <1>1, InvInductive, StagesInductive, PublishInductive, PTL
  DEF Spec, PublishesOnlyWhatIsIndexed
<1>4. Spec => PublishedDocumentsAreSafe
  BY <1>2, InvInductive, StagesInductive, PublishInductive, PTL
  DEF Spec, PublishedDocumentsAreSafe
<1> QED BY <1>3, <1>4 DEF PublicationIsSafe

=============================================================================
