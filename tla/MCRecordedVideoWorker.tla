----------------------- MODULE MCRecordedVideoWorker -----------------------
(***************************************************************************)
(* Small instances of RecordedVideoWorker.                                 *)
(***************************************************************************)
EXTENDS RecordedVideoWorker, TLC

CONSTANTS j1, j2, a1, w1, w2, s1, s2

\* Every job is a version of one asset.
OneAsset == [j \in Jobs |-> a1]

\* worker_concurrency coroutines in one process, or one in each of two.
OneProcess == [s \in Slots |-> w1]
TwoProcesses == [s \in Slots |-> IF s = s1 THEN w1 ELSE w2]

Backoffs == <<0, 1>>

OwnerSymmetry == Permutations(Owners)
Symmetry == Permutations(Owners) \cup Permutations(Slots)
=============================================================================
