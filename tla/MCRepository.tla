---------------------------- MODULE MCRepository ----------------------------
(* The two halves of repository.py side by side in one run: the job tables and  *)
(* an upload session.  They meet in complete_upload only, whose job is a new    *)
(* one: a behaviour is one of one part, the other stands still.                 *)
EXTENDS MCJobRepository, UploadSessions

CONSTANTS c1, c2, x1, y1, x2

\* The second client's file has a chunk more than the session may store.
SessionTotals == [c \in Clients |-> IF c = c1 THEN 2 ELSE 3]
SessionSenders == [x \in Contents |-> IF x = x2 THEN c2 ELSE c1]

VARIABLE part

repositoryVars == <<part, vars, uploadVars>>

\* A file sent in order, or anything by anybody.
PartsInit ==
    /\ part \in {"jobs", "session"}
    /\ RepositoryInit /\ SessionInit
    /\ offered \in IF part = "session" THEN {{x1}, Contents} ELSE {Contents}

PartsNext ==
    \/ part = "jobs" /\ Next /\ UNCHANGED <<part, uploadVars>>
    \/ part = "session" /\ SessionNext /\ UNCHANGED <<part, vars>>

\* Handlers go on, reservations run out, and the client sends until it is done.
Fairness ==
    /\ \A k \in Calls : WF_uploadVars(part = "session" /\ HandlerStep(k))
    /\ \A n \in Ordinals : WF_uploadVars(part = "session" /\ Lapses(n))
    /\ WF_uploadVars(part = "session" /\ \E k \in Calls : ClientSends(k))

PartsSpec == PartsInit /\ [][PartsNext]_repositoryVars /\ Fairness
=============================================================================
