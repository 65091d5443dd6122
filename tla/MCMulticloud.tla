----------------------------- MODULE MCMulticloud -----------------------------
(***************************************************************************)
(* Small instances of Multicloud for TLC.                                  *)
(***************************************************************************)
EXTENDS Multicloud

CONSTANTS r1, r2, n1, n2, v1

MCRoots == {r1, r2}
MCNames == {n1, n2}
MCInitial == {<<r1, n1>>}
MCScanners == {v1}
=============================================================================
