-------------------------- MODULE MCAssetDeletion --------------------------
(***************************************************************************)
(* Small instances of AssetDeletion.                                       *)
(***************************************************************************)
EXTENDS AssetDeletion

CONSTANTS j1, a1, w1

OneAsset == [j \in Jobs |-> a1]
OneProcess == [s \in Slots |-> w1]
Backoffs == <<0, 1>>
=============================================================================
