------------------------ MODULE MCAdministrativeBackup ------------------------
(***************************************************************************)
(* Small instances of AdministrativeBackup for TLC.                        *)
(***************************************************************************)
EXTENDS AdministrativeBackup, TLC

CONSTANTS s1, s2, o1, d1

MCSigners == {s1, s2}
MCOutputs == {o1}
MCDocuments == {d1}
MCSymmetry == Permutations(MCSigners)
=============================================================================
