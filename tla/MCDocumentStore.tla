--------------------------- MODULE MCDocumentStore ---------------------------
(***************************************************************************)
(* Small instances of DocumentStore for TLC, sizes in megabytes: two       *)
(* documents of one content and one of another.                           *)
(***************************************************************************)
EXTENDS DocumentStore, TLC

CONSTANTS d1, d2, d3, report, picture

MCDocs == {d1, d2, d3}
MCContent == (d1 :> report) @@ (d2 :> report) @@ (d3 :> picture)
MCSize == (d1 :> 1) @@ (d2 :> 1) @@ (d3 :> 2)
MCPlans == {1, 2}
MCOps == 1..2
MCSymmetry == Permutations({d1, d2})
=============================================================================
