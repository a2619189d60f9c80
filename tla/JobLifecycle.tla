---------------------------- MODULE JobLifecycle ----------------------------
(***************************************************************************)
(* What the job table promises to its clients, with no clock, no assets    *)
(* and no checkpoints: a job waits, is executed under a lease by one       *)
(* holder at a time, and ends.  A lease that has lapsed may be taken over; *)
(* one that has not may only be given up by its holder.  Cancellation of a *)
(* job that is being executed is handed to a holder for cleanup, never     *)
(* skipped.                                                                *)
(*                                                                         *)
(* One transaction may move several jobs (a claim recovers every expired   *)
(* row, a deletion cancels every job of its asset), so Next lets each job  *)
(* take one of its steps or none.                                          *)
(***************************************************************************)
CONSTANTS Jobs, Owners, NoOwner

VARIABLES phase,   \* [Jobs -> Phase]
          holder,  \* [Jobs -> Owners \cup {NoOwner}]
          lapsed   \* [Jobs -> BOOLEAN]: the holder's lease has run out

vars == <<phase, holder, lapsed>>

Phase == {"absent", "waiting", "executing", "cancelling",
          "completed", "failed", "cancelled"}

Init == /\ phase = [j \in Jobs |-> "absent"]
        /\ holder = [j \in Jobs |-> NoOwner]
        /\ lapsed = [j \in Jobs |-> FALSE]

Unheld(j) == holder'[j] = NoOwner /\ lapsed'[j] = FALSE
HeldAnew(j) == holder'[j] \in Owners /\ lapsed'[j] = FALSE
SameHolder(j) == holder'[j] = holder[j] /\ lapsed'[j] = lapsed[j]
Becomes(j, p) == phase'[j] = p

\* Nobody can object when the job is taken: it has no holder or a lapsed one.
Free(j) == holder[j] = NoOwner \/ lapsed[j]

Submit(j) == phase[j] = "absent" /\ Becomes(j, "waiting") /\ Unheld(j)

Start(j) == /\ phase[j] \in {"waiting", "executing"}
            /\ Free(j)
            /\ Becomes(j, "executing") /\ HeldAnew(j)

Recover(j) == /\ phase[j] = "executing" /\ lapsed[j]
              /\ Becomes(j, "waiting") /\ Unheld(j)

\* The holder gives the job up: done, failed, or to be tried again.
GiveUp(j) == /\ phase[j] = "executing"
             /\ \E p \in {"waiting", "completed", "failed"} : Becomes(j, p)
             /\ Unheld(j)

Renew(j) == /\ holder[j] # NoOwner
            /\ Becomes(j, phase[j])
            /\ holder'[j] = holder[j] /\ lapsed'[j] = FALSE

Lapse(j) == /\ holder[j] # NoOwner
            /\ Becomes(j, phase[j])
            /\ holder'[j] = holder[j] /\ lapsed'[j] = TRUE

CancelWaiting(j) ==
    phase[j] = "waiting" /\ Becomes(j, "cancelled") /\ Unheld(j)

CancelExecuting(j) ==
    /\ phase[j] = "executing"
    /\ Becomes(j, "cancelling")
    /\ SameHolder(j) \/ (lapsed[j] /\ Unheld(j))

\* A cancelled execution changes hands only to be cleaned up.
AbandonCleanup(j) == /\ phase[j] = "cancelling" /\ Free(j)
                     /\ Becomes(j, "cancelling") /\ Unheld(j)

StartCleanup(j) == /\ phase[j] = "cancelling" /\ Free(j)
                   /\ Becomes(j, "cancelling") /\ HeldAnew(j)

FinishCleanup(j) == /\ phase[j] = "cancelling" /\ holder[j] # NoOwner
                    /\ Becomes(j, "cancelled") /\ Unheld(j)

Retry(j) == phase[j] = "failed" /\ Becomes(j, "waiting") /\ Unheld(j)

Purge(j) == /\ phase[j] \notin {"executing", "cancelling"}
            /\ Becomes(j, "absent") /\ Unheld(j)

JobStep(j) ==
    \/ Submit(j) \/ Start(j) \/ Recover(j) \/ GiveUp(j)
    \/ Renew(j) \/ Lapse(j)
    \/ CancelWaiting(j) \/ CancelExecuting(j)
    \/ AbandonCleanup(j) \/ StartCleanup(j) \/ FinishCleanup(j)
    \/ Retry(j) \/ Purge(j)

Stays(j) == Becomes(j, phase[j]) /\ SameHolder(j)

Next ==
    /\ phase' \in [Jobs -> Phase]
    /\ holder' \in [Jobs -> Owners \cup {NoOwner}]
    /\ lapsed' \in [Jobs -> BOOLEAN]
    /\ \A j \in Jobs : JobStep(j) \/ Stays(j)

Spec == Init /\ [][Next]_vars
=============================================================================
