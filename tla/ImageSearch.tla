----------------------------- MODULE ImageSearch -----------------------------
(* Search by image in the player of the search tab (useSearchByImage.ts,         *)
(* SearchComponent.tsx, SearchVideoModal.tsx): a paused clip's frame and the      *)
(* objects in it are fetched, one of them is picked and searched for through the  *)
(* chat. Each look aborts the one before.                                         *)
EXTENDS Naturals, Sequences

CONSTANTS
    Results,      \* the clips of the result list
    Times,        \* the times a clip is paused at
    Objects,      \* ids of tracked objects
    MaxFrames     \* bound: looks at a frame

ASSUME ImageConstants == MaxFrames \in Nat

VARIABLES
    activeVideoData,  \* the result last clicked
    opening,          \* the result whose URL is asked for
    player,           \* what plays: the clip, whether paused, and where
    looks,            \* each look: the frame asked for and what it still waits for
    overlay,          \* the state of useSearchByImage
    selected,         \* searchByImageSelectedObjectId
    searched          \* object ids sent to the chat, with the frame on screen

imageVars == <<activeVideoData, opening, player, looks, overlay, selected, searched>>

NoResult == "none"
NoObject == "none"
Spots == [clip : Results, time : Times]
NoSpot == [clip |-> NoResult, time |-> 0]
NoFrame == [of |-> NoSpot, objects |-> {}]
Closed == [clip |-> NoResult, paused |-> FALSE, time |-> 0]
Inactive == [active |-> FALSE, loading |-> FALSE, error |-> FALSE, frame |-> NoFrame]
Loading == [active |-> TRUE, loading |-> TRUE, error |-> FALSE, frame |-> NoFrame]

ImageTypeOK ==
    /\ activeVideoData \in Results \cup {NoResult} /\ opening \in Results \cup {NoResult}
    /\ player \in [clip : Results \cup {NoResult}, paused : BOOLEAN, time : Times \cup {0}]
    /\ looks \in Seq([of : Spots, at : {"picture", "frames", "both", "done"}, aborted : BOOLEAN])
    /\ Len(looks) <= MaxFrames
    /\ overlay \in [active : BOOLEAN, loading : BOOLEAN, error : BOOLEAN,
                    frame : [of : Spots \cup {NoSpot}, objects : SUBSET Objects]]
    /\ selected \in Objects \cup {NoObject}
    /\ Len(searched) <= MaxFrames

ImageInit ==
    /\ activeVideoData = NoResult /\ opening = NoResult /\ player = Closed
    /\ looks = <<>> /\ overlay = Inactive /\ selected = NoObject /\ searched = <<>>

-----------------------------------------------------------------------------
\* The video modal.

\* A card's play button; the one before is aborted.
PlayVideo(c) ==
    /\ player.clip = NoResult
    /\ activeVideoData' = c /\ opening' = c
    /\ UNCHANGED <<player, looks, overlay, selected, searched>>

UrlAnswered(ok) ==
    /\ opening # NoResult
    /\ opening' = NoResult
    /\ player' = IF ok THEN [Closed EXCEPT !.clip = opening] ELSE player
    /\ UNCHANGED <<activeVideoData, looks, overlay, selected, searched>>

\* The controls of the video: it is hidden under the overlay.
Pause(t) ==
    /\ player.clip # NoResult /\ ~player.paused /\ ~overlay.active
    /\ player' = [player EXCEPT !.paused = TRUE, !.time = t]
    /\ UNCHANGED <<activeVideoData, opening, looks, overlay, selected, searched>>

Resume ==
    /\ player.paused /\ ~overlay.active
    /\ player' = [player EXCEPT !.paused = FALSE]
    /\ UNCHANGED <<activeVideoData, opening, looks, overlay, selected, searched>>

-----------------------------------------------------------------------------
\* The overlay.

AbortLooks == [q \in DOMAIN looks |-> [looks[q] EXCEPT !.aborted = TRUE]]

CancelSearchByImage == looks' = AbortLooks /\ overlay' = Inactive

\* The effect on the frame and on active: the pick is forgotten when either changes.
PickAfter ==
    selected' = IF overlay'.frame # overlay.frame \/ overlay'.active # overlay.active
                THEN NoObject ELSE selected

CancelOverlay ==
    /\ overlay.active
    /\ CancelSearchByImage /\ PickAfter
    /\ UNCHANGED <<activeVideoData, opening, player, searched>>

HandleCloseVideoModal ==
    /\ player.clip # NoResult
    /\ player' = Closed /\ activeVideoData' = NoResult
    /\ CancelSearchByImage /\ PickAfter
    /\ UNCHANGED <<opening, searched>>

\* The button shows on a paused video without overlay content.
StartSearchByImage ==
    /\ player.paused /\ ~overlay.active /\ activeVideoData # NoResult
    /\ Len(looks) < MaxFrames
    /\ looks' = Append(AbortLooks, [of |-> [clip |-> activeVideoData, time |-> player.time],
                                    at |-> "both", aborted |-> FALSE])
    /\ overlay' = Loading /\ PickAfter
    /\ UNCHANGED <<activeVideoData, opening, player, searched>>

\* The picture and the objects come in either order. Without the objects the frame
\* shows no boxes; without the picture there is an error. The picture's failure does
\* not wait for the objects, and nothing is taken from an aborted look.
LookAnswered(q, part, ok, objs) ==
    /\ looks[q].at \in {part, "both"}
    /\ LET last == looks[q].at = part
           other == IF part = "picture" THEN "frames" ELSE "picture"
           fails == part = "picture" /\ ~ok
       IN  /\ looks' = [looks EXCEPT ![q].at = IF last \/ fails THEN "done" ELSE other]
           /\ overlay' =
                IF looks[q].aborted THEN overlay
                ELSE IF fails THEN [overlay EXCEPT !.loading = FALSE, !.error = TRUE]
                ELSE IF last THEN [Loading EXCEPT !.loading = FALSE,
                                                  !.frame = [of |-> looks[q].of, objects |-> objs]]
                ELSE overlay
    /\ PickAfter
    /\ UNCHANGED <<activeVideoData, opening, player, searched>>

\* A click on a box, or on the picked one again.
SelectObject(o) ==
    /\ o \in overlay.frame.objects
    /\ selected' = IF selected = o THEN NoObject ELSE o
    /\ UNCHANGED <<activeVideoData, opening, player, looks, overlay, searched>>

\* The prompt carries the object id only.
HandleSearchByImageConfirm ==
    /\ overlay.active /\ selected # NoObject /\ Len(searched) < MaxFrames
    /\ searched' = Append(searched, [object |-> selected, frame |-> overlay.frame, at |->
                              [clip |-> player.clip, time |-> player.time]])
    /\ player' = Closed /\ activeVideoData' = NoResult
    /\ CancelSearchByImage /\ PickAfter
    /\ UNCHANGED opening

ImageNext ==
    \/ \E c \in Results : PlayVideo(c)
    \/ \E ok \in BOOLEAN : UrlAnswered(ok)
    \/ \E t \in Times : Pause(t)
    \/ Resume \/ CancelOverlay \/ HandleCloseVideoModal \/ StartSearchByImage
    \/ \E q \in DOMAIN looks, part \in {"picture", "frames"}, ok \in BOOLEAN, objs \in SUBSET Objects :
           LookAnswered(q, part, ok, objs)
    \/ \E o \in Objects : SelectObject(o)
    \/ HandleSearchByImageConfirm

ImageSpec == ImageInit /\ [][ImageNext]_imageVars

-----------------------------------------------------------------------------

\* Whatever order the answers of several looks come in, a frame on screen is the one
\* the open player is paused at, the picked object is one of its boxes, and every
\* object that was searched for was picked on the clip and at the time that showed.
ImageSearchIsCurrent ==
    /\ overlay.frame # NoFrame =>
           /\ overlay.frame.of = [clip |-> player.clip, time |-> player.time]
           /\ player.clip = activeVideoData
    /\ selected # NoObject => selected \in overlay.frame.objects
    /\ \A i \in DOMAIN searched : searched[i].frame.of = searched[i].at
                                  /\ searched[i].object \in searched[i].frame.objects
=============================================================================
