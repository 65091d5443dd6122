------------------------- MODULE AdministrativeBackup -------------------------
(***************************************************************************)
(* BackupService beside the operations it does not stop: a snapshot of the *)
(* database under its lock, then the lists of the managed files, then the  *)
(* files, while documents are imported and deleted for good and PDFs are   *)
(* signed, received and validated (DocumentValidation).                    *)
(***************************************************************************)
EXTENDS DocumentValidation, Sequences

CONSTANT Documents

ASSUME DocumentsAssumption == Documents \cap (Threads \cup {None}) = {}

VARIABLES
  row,     \* documents with a row
  file,    \* documents with a file in the storage
  work,    \* document -> the import or deletion under way
  moving,  \* documents without a file at the snapshot, or put aside before the list
  backup   \* the backup worker

storage == <<row, file, work>>
vars == <<validation, storage, moving, backup>>

NoBackup == [pc |-> "idle"]

Init ==
  /\ ValidationInit
  /\ row = {} /\ file = {} /\ work = [d \in Documents |-> "idle"]
  /\ moving = {} /\ backup = NoBackup
-----------------------------------------------------------------------------
(***************************************************************************)
(* import_document stores the file, then writes the row or removes the     *)
(* file; permanently_delete_document takes the lock, puts the file aside,  *)
(* then deletes the row, or puts the file back.                            *)
(***************************************************************************)
OnlyDocuments == UNCHANGED <<record, files, links, thread, backup>>

Store(d) ==
  /\ work[d] = "idle" /\ d \notin row
  /\ file' = file \cup {d}
  /\ work' = [work EXCEPT ![d] = "stored"]
  /\ UNCHANGED <<row, moving, lock>> /\ OnlyDocuments

CommitImport(d) ==
  /\ work[d] = "stored"
  /\ Free
  /\ row' = row \cup {d}
  /\ work' = [work EXCEPT ![d] = "idle"]
  /\ UNCHANGED <<file, moving, lock>> /\ OnlyDocuments

ImportFails(d) ==
  /\ work[d] = "stored"
  /\ file' = file \ {d}
  /\ work' = [work EXCEPT ![d] = "idle"]
  /\ UNCHANGED <<row, moving, lock>> /\ OnlyDocuments

Quarantine(d) ==
  /\ work[d] = "idle" /\ d \in row
  /\ Free
  /\ lock' = d
  /\ file' = file \ {d}
  /\ moving' = IF backup.pc = "list" /\ backup.tree = 1 THEN moving \cup {d} ELSE moving
  /\ work' = [work EXCEPT ![d] = "aside"]
  /\ UNCHANGED row /\ OnlyDocuments

DeleteRow(d) ==
  /\ work[d] = "aside"
  /\ row' = row \ {d}
  /\ lock' = None
  /\ work' = [work EXCEPT ![d] = "idle"]
  /\ UNCHANGED <<file, moving>> /\ OnlyDocuments

PutBack(d) ==
  /\ work[d] = "aside"
  /\ file' = file \cup {d}
  /\ lock' = None
  /\ work' = [work EXCEPT ![d] = "idle"]
  /\ UNCHANGED <<row, moving>> /\ OnlyDocuments

DocumentStep(d) ==
  Store(d) \/ CommitImport(d) \/ ImportFails(d) \/ Quarantine(d) \/ DeleteRow(d) \/ PutBack(d)
-----------------------------------------------------------------------------
(***************************************************************************)
(* _create_full_backup.  The copies of the listed files are one step: the  *)
(* archive holds what was listed, or there is none.                        *)
(***************************************************************************)
Trees == <<"storage", "artifacts", "receipts">>
Tree(n) ==
  CASE n = "storage" -> {<<n, d>> : d \in file}
    [] n = "artifacts" -> {<<n, r>> : r \in {q \in Records : artifact[q] # None}}
                            \cup {<<"part", r>> : r \in {q \in Records : part[q] # None}}
    [] n = "receipts" -> {<<n, r>> : r \in pdf}
Present == UNION {Tree(Trees[n]) : n \in DOMAIN Trees}
Contents == [final |-> {r \in Records : Finalized(r)}, receipt |-> receipt, row |-> row]
OnlyBackup == UNCHANGED <<validation, storage>>

\* create_backup: one at a time.
CreateBackup == backup.pc = "idle"

StartBackup ==
  /\ CreateBackup
  /\ Free
  /\ backup' = [pc |-> "snapshot"]
  /\ UNCHANGED moving /\ OnlyBackup

Snapshot ==
  /\ backup.pc = "snapshot"
  /\ Free
  /\ backup' = [pc |-> "list", db |-> Contents, listed |-> {}, tree |-> 1]
  /\ moving' = row \ file
  /\ OnlyBackup

ListTree ==
  /\ backup.pc = "list"
  /\ backup' = [backup EXCEPT !.pc = IF backup.tree = Len(Trees) THEN "copy" ELSE "list",
                             !.tree = @ + 1, !.listed = @ \cup Tree(Trees[backup.tree])]
  /\ UNCHANGED moving /\ OnlyBackup

\* Mutant: the database is copied after the files.
CopyAndPublishLate ==
  /\ backup.pc = "copy"
  /\ backup.listed \subseteq Present
  /\ backup' = [backup EXCEPT !.pc = "published", !.db = Contents]
  /\ UNCHANGED moving /\ OnlyBackup

CopyAndPublish ==
  /\ backup.pc = "copy"
  /\ backup.listed \subseteq Present
  /\ backup' = [backup EXCEPT !.pc = "published"]
  /\ UNCHANGED moving /\ OnlyBackup

Report ==
  /\ backup.pc = "published"
  /\ backup' = NoBackup
  /\ moving' = {} /\ OnlyBackup

\* A file has gone before it was copied, or the disk fails: nothing is kept.
BackupFails ==
  /\ backup.pc \in {"snapshot", "list", "copy"}
  /\ backup' = NoBackup
  /\ moving' = {} /\ OnlyBackup

Backup == StartBackup \/ Snapshot \/ ListTree \/ CopyAndPublish \/ Report \/ BackupFails

Crash ==
  /\ StopValidation
  /\ work' = [d \in Documents |-> "idle"]
  /\ backup' = NoBackup /\ moving' = {}
  /\ UNCHANGED <<row, file>>
-----------------------------------------------------------------------------
Next ==
  \/ ValidationNext /\ UNCHANGED <<storage, moving, backup>>
  \/ \E d \in Documents : DocumentStep(d)
  \/ Backup
  \/ Crash

Spec == Init /\ [][Next]_vars
-----------------------------------------------------------------------------
(***************************************************************************)
(* "Backup administrativo inclui validation_artifacts e delivery_receipts":*)
(* a backup that was published can be restored.  Every record its database *)
(* vouches for, and its receipt, has its file in it; and so has every      *)
(* document that had its file then and that no deletion, carried out or    *)
(* refused, put aside before the storage was listed.                       *)
(***************************************************************************)
BackupIsWhole ==
  backup.pc = "published" =>
    /\ \A r \in backup.db.final : <<"artifacts", r>> \in backup.listed
    /\ backup.db.receipt # None => <<"receipts", backup.db.receipt>> \in backup.listed
    /\ \A d \in backup.db.row \ moving : <<"storage", d>> \in backup.listed
=============================================================================
