----------------------------- MODULE MCCloudSync -----------------------------
(***************************************************************************)
(* Small instances of CloudSync for TLC.                                   *)
(***************************************************************************)
EXTENDS CloudSync, TLC

CONSTANTS d1, d2, n1, n2, p1, p2, a1, a2, onedrive, google

MCOneDoc == {d1}
MCDocs == {d1, d2}
MCNames == {n1, n2}
MCPlaces == {p1, p2}
MCAccounts == {a1, a2}
MCProviders == {onedrive, google}
MCProviderOf == (a1 :> onedrive) @@ (a2 :> google)
MCJobs == 1..3
MCTwoJobs == 1..2
MCItems == 1..2
=============================================================================
