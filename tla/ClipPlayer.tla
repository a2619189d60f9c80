----------------------------- MODULE ClipPlayer -----------------------------
(* Playing a clip (useVideoModal.ts, videoModal.ts): the URL of the clip is     *)
(* checked or asked for while the user may ask for another one, close the       *)
(* modal or come back. The alerts tab and the video library use it differently: *)
(* the library keeps a spinner of its own (VideoManagementComponent.tsx).        *)
EXTENDS Naturals

CONSTANTS
    Clips,        \* what can be played
    ClipSources,  \* the alerts that name a video source of their own
    MaxAsks       \* bound: clips asked for

ASSUME PlayerConstants == ClipSources \subseteq Clips /\ MaxAsks \in Nat

VARIABLES
    playerTab,  \* "alerts" or "library", where the hook is used
    asked,     \* how many clips were asked for; the last one holds the controller
    calls,     \* what each call waits for
    spinner,   \* loadingAlertId, or loadingStreamId
    modal      \* the clip that plays

playerVars == <<playerTab, asked, calls, spinner, modal>>

NoClip == "none"
NotCalled == [clip |-> NoClip, at |-> "done"]

PlayerTypeOK ==
    /\ playerTab \in {"alerts", "library"} /\ asked \in 0 .. MaxAsks
    /\ calls \in [1 .. MaxAsks -> [clip : {NoClip} \cup Clips, at : {"check", "vst", "done"}]]
    /\ spinner \in {NoClip} \cup Clips /\ modal \in {NoClip} \cup Clips

PlayerInit ==
    /\ playerTab \in {"alerts", "library"} /\ asked = 0
    /\ calls = [n \in 1 .. MaxAsks |-> NotCalled]
    /\ spinner = NoClip /\ modal = NoClip

-----------------------------------------------------------------------------

\* Mutant: a call goes on after a newer one aborted it.
NeverAborted(n) == FALSE

\* Each call aborts the one before.
Aborted(n) == n < asked

\* The finally of openVideoModalFromAlert looks whether the controller is still its
\* own; that of handlePlayStream does not.
SpinnerAfter(n) == IF playerTab = "alerts" /\ Aborted(n) THEN spinner ELSE NoClip

Ends(n) ==
    /\ calls' = [calls EXCEPT ![n].at = "done"]
    /\ spinner' = SpinnerAfter(n)

\* A click on a thumbnail that is not loading. An alert without sensor or times,
\* or a stream without timeline, is given up at once.
Ask(c) ==
    /\ asked < MaxAsks /\ spinner # c
    /\ \/ /\ asked' = asked + 1
          /\ calls' = [calls EXCEPT ![asked'] =
                 [clip |-> c, at |-> IF playerTab = "alerts" /\ c \in ClipSources THEN "check" ELSE "vst"]]
          /\ spinner' = c
       \/ /\ playerTab = "alerts" /\ c \notin ClipSources
          /\ asked' = asked + 1 /\ spinner' = NoClip
          /\ UNCHANGED calls
    /\ UNCHANGED <<playerTab, modal>>

\* checkVideoUrl: loaded, failed, timed out, or aborted; a source that does not
\* play is asked from VST instead.
CheckAnswered(n) ==
    /\ calls[n].at = "check"
    /\ \/ /\ Aborted(n)
          /\ Ends(n) /\ UNCHANGED modal
       \/ /\ ~Aborted(n)
          /\ Ends(n) /\ modal' = calls[n].clip
       \/ /\ ~Aborted(n)
          /\ calls' = [calls EXCEPT ![n].at = "vst"] /\ UNCHANGED <<spinner, modal>>
    /\ UNCHANGED <<playerTab, asked>>

VstAnswered(n) ==
    /\ calls[n].at = "vst"
    /\ Ends(n)
    /\ modal' \in IF Aborted(n) THEN {modal} ELSE {modal, calls[n].clip}
    /\ UNCHANGED <<playerTab, asked>>

CloseVideoModal ==
    /\ modal # NoClip
    /\ modal' = NoClip
    /\ UNCHANGED <<playerTab, asked, calls, spinner>>

PlayerNext ==
    \/ \E c \in Clips : Ask(c)
    \/ \E n \in 1 .. MaxAsks : CheckAnswered(n) \/ VstAnswered(n)
    \/ CloseVideoModal

PlayerSpec == PlayerInit /\ [][PlayerNext]_playerVars

-----------------------------------------------------------------------------

\* Whatever order the answers come in, the modal opens only for the clip asked for
\* last, and the spinner, where there is one, is that clip's; in the alerts tab it
\* stays until that clip's own answer.
PlayerFollowsTheLastClick ==
    [][/\ modal' \notin {modal, NoClip} => modal' = calls[asked].clip
       /\ spinner' # NoClip => calls'[asked'].at # "done" /\ spinner' = calls'[asked'].clip
       /\ playerTab = "alerts" /\ asked' > 0 /\ calls'[asked'].at # "done" => spinner' = calls'[asked'].clip
      ]_playerVars
=============================================================================
