----------------------------- MODULE PictureQueue -----------------------------
(* The thumbnails of the streams grid: each card fetches one picture when it   *)
(* is mounted (StreamCard.tsx), a replay picture once the timelines are known  *)
(* (useStorageTimelines.ts), through a queue that runs a few requests at once  *)
(* and shares the one under way for the same URL (PictureFetchQueue).          *)
EXTENDS Naturals, Sequences, FiniteSets, SequencesExt

CONSTANTS
    Cards,          \* the streams of the page; every one has a picture of its own
    LiveCards,      \* the RTSP streams, whose picture needs no timeline
    MaxConcurrent,  \* NUM_PARALLEL_GET_PICTURES
    MaxLooks        \* how often a card looks for its timeline again

ASSUME PictureConstants ==
    /\ IsFiniteSet(Cards) /\ LiveCards \subseteq Cards
    /\ MaxConcurrent \in Nat \ {0} /\ MaxLooks \in Nat

VARIABLES
    timelines,    \* streams whose timeline is known
    card,         \* what each card shows
    looks,        \* its looks for a timeline that failed
    queue,        \* pictures that wait for a slot
    running,      \* pictures that are fetched
    activeCount,
    inFlight      \* pictures with a promise to share

cardVars == <<timelines, card, looks>>
queueVars == <<queue, running, activeCount, inFlight>>
pictureVars == <<cardVars, queueVars>>

PictureTypeOK ==
    /\ timelines \subseteq Cards
    /\ card \in [Cards -> {"unmounted", "retry", "waits", "shown", "error"}]
    /\ looks \in [Cards -> 0 .. MaxLooks]
    /\ queue \in Seq(Cards) /\ running \subseteq Cards /\ inFlight \subseteq Cards
    /\ activeCount \in 0 .. Cardinality(Cards)

PictureInit ==
    /\ timelines = {} /\ looks = [s \in Cards |-> 0]
    /\ card = [s \in Cards |-> "unmounted"]
    /\ queue = <<>> /\ running = {} /\ activeCount = 0 /\ inFlight = {}

-----------------------------------------------------------------------------
(* PictureFetchQueue.                                                        *)

\* processNext, called with the queue q, n active tasks and the set r of them.
ProcessNext(q, n, r) ==
    IF n >= MaxConcurrent \/ q = <<>>
    THEN queue' = q /\ activeCount' = n /\ running' = r
    ELSE queue' = Tail(q) /\ activeCount' = n + 1 /\ running' = r \cup {Head(q)}

Shared(s) == s \in inFlight

Asks(s) ==
    IF Shared(s)
    THEN UNCHANGED queueVars
    ELSE ProcessNext(Append(queue, s), activeCount, running) /\ inFlight' = inFlight \cup {s}

Freed(ok) == activeCount - 1

PictureAnswered(s) ==
    /\ s \in running
    /\ \E ok \in BOOLEAN :
           /\ ProcessNext(queue, Freed(ok), running \ {s})
           /\ card' = [card EXCEPT ![s] = IF @ # "waits" THEN @ ELSE IF ok THEN "shown" ELSE "error"]
    /\ inFlight' = inFlight \ {s}
    /\ UNCHANGED <<timelines, looks>>

-----------------------------------------------------------------------------
(* StreamCard: fetchThumbnail.                                               *)

Looks(s, n) ==
    IF s \in LiveCards \cup timelines
    THEN /\ Asks(s)
         /\ card' = [card EXCEPT ![s] = "waits"]
         /\ looks' = [looks EXCEPT ![s] = 0]
    ELSE /\ card' = [card EXCEPT ![s] = IF n < MaxLooks THEN "retry" ELSE "error"]
         /\ looks' = [looks EXCEPT ![s] = n]
         /\ UNCHANGED queueVars

CardMounts(s) ==
    /\ card[s] = "unmounted"
    /\ Looks(s, 0)
    /\ UNCHANGED timelines

RetryTimer(s) ==
    /\ card[s] = "retry"
    /\ Looks(s, looks[s] + 1)
    /\ UNCHANGED timelines

\* Another page, a filter, a reload of the list: the request goes on without its card.
CardUnmounts(s) ==
    /\ card[s] # "unmounted"
    /\ card' = [card EXCEPT ![s] = "unmounted"]
    /\ looks' = [looks EXCEPT ![s] = 0]
    /\ UNCHANGED <<timelines, queueVars>>

TimelinesAnswered ==
    /\ timelines' \in SUBSET Cards
    /\ UNCHANGED <<card, looks, queueVars>>

-----------------------------------------------------------------------------

PictureNext ==
    \/ \E s \in Cards : PictureAnswered(s) \/ CardMounts(s) \/ RetryTimer(s) \/ CardUnmounts(s)
    \/ TimelinesAnswered

\* Requests are answered or fail, timers fire.
PictureFairness ==
    \A s \in Cards : WF_pictureVars(PictureAnswered(s)) /\ WF_pictureVars(RetryTimer(s))

PictureSpec == PictureInit /\ [][PictureNext]_pictureVars
FairPictureSpec == PictureSpec /\ PictureFairness

-----------------------------------------------------------------------------

\* The queue keeps what it promises while cards come and go: at most MaxConcurrent
\* requests run, none waits while a slot is free, and no picture is asked for twice.
SlotsAreUsed ==
    /\ Cardinality(running) = activeCount /\ activeCount <= MaxConcurrent
    /\ queue # <<>> => activeCount = MaxConcurrent
    /\ Len(queue) + Cardinality(running) = Cardinality(ToSet(queue) \cup running)

\* No mounted card stays in its loading state: neither a failed request nor an
\* unmounted card keeps the pictures behind it waiting.
PicturesSettle == \A s \in Cards : card[s] \in {"waits", "retry"} ~> card[s] \notin {"waits", "retry"}
=============================================================================
