---------------------------- MODULE MCCloudFolders ----------------------------
(***************************************************************************)
(* Small instances of CloudFolders for TLC.                                *)
(***************************************************************************)
EXTENDS CloudFolders, TLC

CONSTANTS a1, a2, f1, f2

MCFolders == {f1, f2}
MCSymmetry == Permutations(MCFolders)

MCAccounts == {a1, a2}
MCRemotes == 1..3
MCOwner == 1 :> a1
=============================================================================
