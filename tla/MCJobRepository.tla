-------------------------- MODULE MCJobRepository --------------------------
(***************************************************************************)
(* Small instances of JobRepository.                                       *)
(***************************************************************************)
EXTENDS JobRepository, TLC

CONSTANTS j1, j2, a1

\* Every job is a version of one asset.
OneAsset == [j \in Jobs |-> a1]

\* Owner tokens are interchangeable.
OwnerSymmetry == Permutations(Owners)
=============================================================================
