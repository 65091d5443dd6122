---------------------------- MODULE DocumentStore ----------------------------
(***************************************************************************)
(* The documents of one organization: their rows, their managed files and  *)
(* the space the organization's plan grants.                               *)
(*                                                                         *)
(* Threads: importing threads, each with a file of its own                 *)
(* (FileOperationWorker, ScannerGedImportWorker), and the Qt thread, which *)
(* trashes, restores, copies, deletes, recalculates and changes the plan.  *)
(* An import is a chain of short transactions with the copying of the file *)
(* between them.  document_mutation wraps the whole of a copy and of a     *)
(* permanent deletion in one transaction: it holds the database's lock     *)
(* while it moves files, and files do not roll back.                       *)
(***************************************************************************)
EXTENDS Integers, FiniteSets

CONSTANTS
    Docs,       \* documents that may come to exist, each with its file
    Content,    \* the SHA-256 of a document's bytes
    Size,       \* their number; files of one content have one size
    Plans,      \* quota_bytes of the storage plans
    Ops,        \* operation ids of storage_reservations, a bound on the open ones
    MaxCrashes, \* bound: number of crashes
    NoDoc, NoOp, NoTx

ASSUME SizeAssumption == Size \in [Docs -> Nat]
ASSUME SameSizeAssumption ==
    \A d, e \in Docs : Content[d] = Content[e] => Size[d] = Size[e]
ASSUME PlansAssumption == Plans \subseteq Nat /\ Plans # {}
ASSUME StoreBoundAssumption == MaxCrashes \in Nat
ASSUME StoreNullAssumption == NoDoc \notin Docs /\ NoOp \notin Ops

VARIABLES
    db,           \* the committed database
    tx,           \* the interface thread's open transaction, or NoTx
    files,        \* where each managed file is
    importer,     \* where each importing thread stands in import_document
    importOp,     \* the reservation it holds
    expiring,     \* reservations whose expires_at has passed
    ui,           \* where the interface thread stands
    uiDoc,        \* the document it copies or deletes
    uiOp,         \* the reservation of its copy
    uiBytes,      \* the bytes recalculate_usage has counted, or the new quota
    crashes,      \* crashes so far
    drifted,      \* history: a recalculation has written a wrong total
    overplanned,  \* history: a plan was assigned below the space in use
    damaged,      \* history: rows a failed or interrupted deletion left fileless
    strays        \* history: files a failure or a crash left without a row

uiVars == <<ui, uiDoc, uiOp, uiBytes>>
history == <<drifted, overplanned, damaged, strays>>
storeVars == <<db, tx, files, importer, importOp, expiring, ui, uiDoc, uiOp, uiBytes,
          crashes, drifted, overplanned, damaged, strays>>

DocStatuses == {"NONE", "ACTIVE", "TRASHED", "DELETED"}
Places == {"none", "stored", "quarantined"}
ImporterSteps == {"idle", "checked", "reserved", "stored", "releasing", "removing"}
UiSteps == {"idle", "copying", "copied", "deleting", "deleted", "unlinked",
            "measuring", "planning"}

\* Where the interface thread is in the middle of permanently_delete_document.
InDeletion == ui \in {"deleting", "deleted", "unlinked"}

-----------------------------------------------------------------------------
(* The tables.  `quota`, `used` and `reserved` are organization_storage;   *)
(* `res` is storage_reservations: the document an open (RESERVED) row is   *)
(* for.  COMMITTED, RELEASED and EXPIRED rows are NoDoc like rows not      *)
(* inserted yet: no statement tells them apart.                            *)

HasRow(b, d) == b.docs[d] \in {"ACTIVE", "TRASHED"}

Rows(b) == {d \in Docs : HasRow(b, d)}

Reservations(b) == {o \in Ops : b.res[o] # NoDoc}

\* A sum of bytes is the number of the bytes, each with what it belongs to.
Bytes(xs, size) == UNION {{x} \X (1 .. size[x]) : x \in xs}

BytesOf(ds) == Cardinality(Bytes(ds, Size))

ReservedBytes(b, os) == Cardinality(Bytes(os, [o \in os |-> Size[b.res[o]]]))

\* _cleanup_expired_locked.  release_reserved leaves a total alone that is
\* smaller than the reservation, which ReservedAccounted excludes.
CleanupExpired(b) ==
    LET expired == Reservations(b) \cap expiring
    IN  [b EXCEPT !.reserved = @ - ReservedBytes(b, expired),
                  !.res = [o \in Ops |-> IF o \in expired THEN NoDoc ELSE b.res[o]]]

\* The condition of reserve_if_available.
Fits(b, d) == Size[d] <= b.quota - b.used - b.reserved

\* An operation id nobody has used yet; ids are uuids, so which one does not matter.
NewOp(b) ==
    CHOOSE o \in {NoOp} \cup Ops :
        LET unused == {p \in Ops : /\ b.res[p] = NoDoc
                                   /\ \A d \in Docs : importOp[d] # p}
        IN  IF unused = {} THEN o = NoOp ELSE o \in unused

Reserve(b, o, d) == [b EXCEPT !.reserved = @ + Size[d], !.res[o] = d]

IsOpen(b, o) == b.res[o] # NoDoc /\ b.reserved >= Size[b.res[o]]

CommitReservation(b, o) ==
    [b EXCEPT !.reserved = @ - Size[b.res[o]],
              !.used = @ + Size[b.res[o]],
              !.res[o] = NoDoc]

ReleaseReservation(b, o) ==
    IF IsOpen(b, o)
    THEN [b EXCEPT !.reserved = @ - Size[b.res[o]], !.res[o] = NoDoc]
    ELSE b

ReleaseUsed(b, d) ==
    [b EXCEPT !.used = IF @ >= Size[d] THEN @ - Size[d] ELSE 0]

WithRow(b, d, status) == [b EXCEPT !.docs[d] = status]

\* The expiry of a closed reservation is of no interest.
ForgetClosed == expiring' = expiring \cap Reservations(db')

-----------------------------------------------------------------------------
StoreInit ==
    /\ \E quota \in Plans :
           db = [docs |-> [d \in Docs |-> "NONE"],
                 res |-> [o \in Ops |-> NoDoc],
                 quota |-> quota, used |-> 0, reserved |-> 0]
    /\ tx = NoTx
    /\ files = [d \in Docs |-> "none"]
    /\ importer = [d \in Docs |-> "idle"]
    /\ importOp = [d \in Docs |-> NoOp]
    /\ expiring = {}
    /\ ui = "idle" /\ uiDoc = NoDoc /\ uiOp = NoOp /\ uiBytes = 0
    /\ crashes = 0
    /\ drifted = FALSE /\ overplanned = FALSE
    /\ damaged = {} /\ strays = {}

\* The connection's lock is free: a transaction that stays open while files move
\* keeps every other thread from reading and writing.
Unlocked == ui \notin {"copying", "copied", "deleting", "deleted", "unlinked"}

-----------------------------------------------------------------------------
(* import_document.                                                        *)

\* The identity of a new attempt: no row, no file, nobody working on it.
Fresh(d) == /\ db.docs[d] = "NONE"
            /\ files[d] = "none"
            /\ importer[d] = "idle"

\* exists_checksum: no row of the organization has this content.
ImportCheck(d) ==
    /\ Fresh(d) /\ Unlocked
    /\ \A e \in Rows(db) : Content[e] # Content[d]
    /\ importer' = [importer EXCEPT ![d] = "checked"]
    /\ UNCHANGED <<db, tx, files, importOp, expiring, uiVars, crashes, history>>

\* reserve.  The quota error rolls the clean-up back.  A thread whose audit entry
\* cannot be written ends with its reservation open, as a crash leaves it; only
\* the crash is modelled.
ImportReserve(d) ==
    /\ importer[d] = "checked" /\ Unlocked
    /\ LET clean == CleanupExpired(db)
       IN  \/ /\ Fits(clean, d)
              /\ NewOp(db) # NoOp
              /\ db' = Reserve(clean, NewOp(db), d)
              /\ importer' = [importer EXCEPT ![d] = "reserved"]
              /\ importOp' = [importOp EXCEPT ![d] = NewOp(db)]
           \/ /\ ~Fits(clean, d)
              /\ importer' = [importer EXCEPT ![d] = "idle"]
              /\ UNCHANGED <<db, importOp>>
    /\ ForgetClosed
    /\ UNCHANGED <<tx, files, uiVars, crashes, history>>

\* DocumentStorageService.store: copied, verified and published under a new name.
StoreFile(d) ==
    /\ importer[d] = "reserved"
    /\ files' = [files EXCEPT ![d] = "stored"]
    /\ importer' = [importer EXCEPT ![d] = "stored"]
    /\ UNCHANGED <<db, tx, importOp, expiring, uiVars, crashes, history>>

\* It fails or is cancelled and has cleaned up after itself.
StoreFails(d) ==
    /\ importer[d] = "reserved"
    /\ importer' = [importer EXCEPT ![d] = "releasing"]
    /\ UNCHANGED <<db, tx, files, importOp, expiring, uiVars, crashes, history>>

\* One transaction writes the row and commits the reservation, which another
\* thread may have expired meanwhile.
ImportRecord(d) ==
    /\ importer[d] = "stored" /\ Unlocked
    /\ IsOpen(db, importOp[d])
    /\ db' = CommitReservation(WithRow(db, d, "ACTIVE"), importOp[d])
    /\ importer' = [importer EXCEPT ![d] = "idle"]
    /\ importOp' = [importOp EXCEPT ![d] = NoOp]
    /\ ForgetClosed
    /\ UNCHANGED <<tx, files, uiVars, crashes, history>>

\* It fails, for that or another reason.
ImportRecordFails(d) ==
    /\ importer[d] = "stored" /\ Unlocked
    /\ importer' = [importer EXCEPT ![d] = "releasing"]
    /\ UNCHANGED <<db, tx, files, importOp, expiring, uiVars, crashes, history>>

\* Mutant: the thread ends without removing the file.
ReleaseKeepingFile(d) ==
    /\ importer[d] = "releasing" /\ Unlocked
    /\ db' = ReleaseReservation(db, importOp[d])
    /\ importOp' = [importOp EXCEPT ![d] = NoOp]
    /\ importer' = [importer EXCEPT ![d] = "idle"]
    /\ ForgetClosed
    /\ UNCHANGED <<tx, files, uiVars, crashes, history>>

ImportRelease(d) ==
    /\ importer[d] = "releasing" /\ Unlocked
    /\ db' = ReleaseReservation(db, importOp[d])
    /\ importOp' = [importOp EXCEPT ![d] = NoOp]
    /\ importer' = [importer EXCEPT ![d] =
                        IF files[d] = "stored" THEN "removing" ELSE "idle"]
    /\ ForgetClosed
    /\ UNCHANGED <<tx, files, uiVars, crashes, history>>

ImportRemove(d) ==
    /\ importer[d] = "removing"
    /\ files' = [files EXCEPT ![d] = "none"]
    /\ importer' = [importer EXCEPT ![d] = "idle"]
    /\ UNCHANGED <<db, tx, importOp, expiring, uiVars, crashes, history>>

\* The file cannot be unlinked; the error is only logged.
ImportRemoveFails(d) ==
    /\ importer[d] = "removing"
    /\ strays' = strays \cup {d}
    /\ importer' = [importer EXCEPT ![d] = "idle"]
    /\ UNCHANGED <<db, tx, files, importOp, expiring, uiVars, crashes,
                   drifted, overplanned, damaged>>

\* Half an hour passes since a reservation was made.
ReservationExpires(o) ==
    /\ o \in Reservations(db) \ expiring
    /\ expiring' = expiring \cup {o}
    /\ UNCHANGED <<db, tx, files, importer, importOp, uiVars, crashes, history>>

-----------------------------------------------------------------------------
(* Trash, on the interface thread.  Both leave space and file alone.       *)

TrashDocument(d) ==
    /\ ui = "idle" /\ db.docs[d] = "ACTIVE"
    /\ db' = WithRow(db, d, "TRASHED")
    /\ UNCHANGED <<tx, files, importer, importOp, expiring, uiVars, crashes, history>>

RestoreDocument(d) ==
    /\ ui = "idle" /\ db.docs[d] = "TRASHED"
    /\ db' = WithRow(db, d, "ACTIVE")
    /\ UNCHANGED <<tx, files, importer, importOp, expiring, uiVars, crashes, history>>

-----------------------------------------------------------------------------
(* copy_document, in one transaction with the lock held.                   *)

CopyBegin(source, d) ==
    /\ ui = "idle" /\ Fresh(d)
    /\ HasRow(db, source) /\ files[source] = "stored"
    /\ Content[d] = Content[source]
    /\ LET clean == CleanupExpired(db)
       IN  /\ Fits(clean, d)
           /\ NewOp(db) # NoOp
           /\ tx' = Reserve(clean, NewOp(db), d)
           /\ uiOp' = NewOp(db)
    /\ ui' = "copying" /\ uiDoc' = d
    /\ UNCHANGED <<db, files, importer, importOp, expiring, uiBytes,
                   crashes, history>>

CopyStore ==
    /\ ui = "copying"
    /\ files' = [files EXCEPT ![uiDoc] = "stored"]
    /\ ui' = "copied"
    /\ UNCHANGED <<db, tx, importer, importOp, expiring, uiDoc, uiOp,
                   uiBytes, crashes, history>>

\* The interface thread leaves its transaction.
EndTransaction ==
    /\ tx' = NoTx
    /\ ui' = "idle" /\ uiDoc' = NoDoc /\ uiOp' = NoOp
    /\ ForgetClosed
    /\ UNCHANGED <<importer, importOp, uiBytes, crashes, drifted,
                   overplanned>>

CopyCommit ==
    /\ ui = "copied"
    /\ IsOpen(tx, uiOp)
    /\ db' = CommitReservation(WithRow(tx, uiDoc, "ACTIVE"), uiOp)
    /\ EndTransaction
    /\ UNCHANGED <<files, damaged, strays>>

\* Before the row is written everything is undone, the file included if it can be.
CopyFails ==
    /\ ui \in {"copying", "copied"}
    /\ \/ /\ files' = [files EXCEPT ![uiDoc] = "none"]
          /\ UNCHANGED strays
       \/ /\ files[uiDoc] = "stored"
          /\ strays' = strays \cup {uiDoc}
          /\ UNCHANGED files
    /\ UNCHANGED <<db, damaged>>
    /\ EndTransaction

\* The outer COMMIT fails: `committed` is already set and the file stays.
CopyCommitFails ==
    /\ ui = "copied"
    /\ strays' = strays \cup {uiDoc}
    /\ UNCHANGED <<db, files, damaged>>
    /\ EndTransaction

-----------------------------------------------------------------------------
(* permanently_delete_document, in one transaction with the lock held.     *)

\* The file is moved out of the way; it may be missing already.
DeleteBegin(d) ==
    /\ ui = "idle" /\ db.docs[d] = "TRASHED"
    /\ tx' = db
    /\ files' = [files EXCEPT ![d] = IF @ = "stored" THEN "quarantined" ELSE @]
    /\ ui' = "deleting" /\ uiDoc' = d
    /\ UNCHANGED <<db, importer, importOp, expiring, uiOp, uiBytes,
                   crashes, history>>

\* Mutant: the space is not given back.
DeleteKeepingSpace ==
    /\ ui = "deleting"
    /\ tx' = WithRow(tx, uiDoc, "DELETED")
    /\ ui' = "deleted"
    /\ UNCHANGED <<db, files, importer, importOp, expiring, uiDoc, uiOp,
                   uiBytes, crashes, history>>

\* The row goes and its space is given back.  What prepare_document_delete and
\* hard_delete do to the queues is in CorporateTransport.
DeleteRecord ==
    /\ ui = "deleting"
    /\ tx' = ReleaseUsed(WithRow(tx, uiDoc, "DELETED"), uiDoc)
    /\ ui' = "deleted"
    /\ UNCHANGED <<db, files, importer, importOp, expiring, uiDoc, uiOp,
                   uiBytes, crashes, history>>

\* A statement fails: the file is put back, if it can be.
DeleteFails ==
    /\ ui = "deleting"
    /\ \/ /\ files' = [files EXCEPT ![uiDoc] = IF @ = "quarantined" THEN "stored" ELSE @]
          /\ UNCHANGED damaged
       \/ /\ files[uiDoc] = "quarantined"
          /\ damaged' = damaged \cup {uiDoc}
          /\ UNCHANGED files
    /\ UNCHANGED <<db, strays>>
    /\ EndTransaction

\* The quarantined file is removed before the outer COMMIT; when that fails too
\* it is left where it is.
DeleteUnlink ==
    /\ ui = "deleted"
    /\ \/ files' = [files EXCEPT ![uiDoc] = "none"]
       \/ UNCHANGED files
    /\ ui' = "unlinked"
    /\ UNCHANGED <<db, tx, importer, importOp, expiring, uiDoc, uiOp,
                   uiBytes, crashes, history>>

DeleteCommit ==
    /\ ui = "unlinked"
    /\ db' = tx
    /\ EndTransaction
    /\ UNCHANGED <<files, damaged, strays>>

DeleteCommitFails ==
    /\ ui = "unlinked"
    /\ damaged' = damaged \cup {uiDoc}
    /\ UNCHANGED <<db, files, strays>>
    /\ EndTransaction

-----------------------------------------------------------------------------
(* Space, on the interface thread but without the lock between statements. *)

\* recalculate_usage reads the rows and measures their files.  No other thread
\* changes a file that has a row, so the files are measured in one step.
RecalculateBegin ==
    /\ ui = "idle"
    /\ ui' = "measuring"
    /\ uiBytes' = BytesOf({d \in Rows(db) : files[d] = "stored"})
    /\ UNCHANGED <<db, tx, files, importer, importOp, expiring, uiDoc, uiOp,
                   crashes, history>>

\* set_used.
RecalculateWrite ==
    /\ ui = "measuring"
    /\ db' = [db EXCEPT !.used = uiBytes]
    /\ drifted' = (drifted \/ uiBytes # BytesOf(Rows(db)))
    /\ ui' = "idle" /\ uiBytes' = 0
    /\ UNCHANGED <<tx, files, importer, importOp, expiring, uiDoc, uiOp,
                   crashes, overplanned, damaged, strays>>

\* assign_plan reads and compares before it opens its transaction.
PlanCheck(plan) ==
    /\ ui = "idle" /\ plan # db.quota
    /\ db.used + db.reserved <= plan
    /\ ui' = "planning" /\ uiBytes' = plan
    /\ UNCHANGED <<db, tx, files, importer, importOp, expiring, uiDoc, uiOp,
                    crashes, history>>

PlanAssign ==
    /\ ui = "planning"
    /\ db' = [db EXCEPT !.quota = uiBytes]
    /\ overplanned' = (overplanned \/ db.used + db.reserved > uiBytes)
    /\ ui' = "idle" /\ uiBytes' = 0
    /\ UNCHANGED <<tx, files, importer, importOp, expiring, uiDoc, uiOp,
                   crashes, drifted, damaged, strays>>

-----------------------------------------------------------------------------
\* The process dies: the open transaction is rolled back, the files stay where
\* they are, and nothing at the next start looks for them.
CrashAndRestart ==
    /\ crashes < MaxCrashes
    /\ crashes' = crashes + 1
    /\ tx' = NoTx
    /\ importer' = [d \in Docs |-> "idle"]
    /\ importOp' = [d \in Docs |-> NoOp]
    /\ ui' = "idle" /\ uiDoc' = NoDoc /\ uiOp' = NoOp /\ uiBytes' = 0
    /\ strays' = strays \cup {d \in Docs : \/ importer[d] \in {"stored", "releasing", "removing"}
                                              /\ files[d] = "stored"
                                           \/ ui = "copied" /\ d = uiDoc}
    /\ damaged' = IF InDeletion THEN damaged \cup {uiDoc} ELSE damaged
    /\ UNCHANGED <<db, files, expiring, drifted, overplanned>>

Importer(d) ==
    \/ ImportCheck(d) \/ ImportReserve(d) \/ StoreFile(d) \/ StoreFails(d)
    \/ ImportRecord(d) \/ ImportRecordFails(d) \/ ImportRelease(d)
    \/ ImportRemove(d) \/ ImportRemoveFails(d)

Interface ==
    \/ \E d \in Docs : \/ TrashDocument(d) \/ RestoreDocument(d)
                       \/ \E source \in Docs : CopyBegin(source, d)
                       \/ DeleteBegin(d)
    \/ CopyStore \/ CopyCommit \/ CopyFails \/ CopyCommitFails
    \/ DeleteRecord \/ DeleteFails \/ DeleteUnlink
    \/ DeleteCommit \/ DeleteCommitFails
    \/ RecalculateBegin \/ RecalculateWrite
    \/ \E plan \in Plans : PlanCheck(plan)
    \/ PlanAssign

StoreNext ==
    \/ \E d \in Docs : Importer(d)
    \/ \E o \in Ops : ReservationExpires(o)
    \/ Interface
    \/ CrashAndRestart

StoreSpec == StoreInit /\ [][StoreNext]_storeVars

-----------------------------------------------------------------------------
(* Properties.                                                             *)

Database == [docs : [Docs -> DocStatuses],
             res : [Ops -> Docs \cup {NoDoc}],
             quota : Nat, used : Nat, reserved : Nat]

StoreTypeOK ==
    /\ db \in Database
    /\ tx \in Database \cup {NoTx}
    /\ files \in [Docs -> Places]
    /\ importer \in [Docs -> ImporterSteps]
    /\ importOp \in [Docs -> Ops \cup {NoOp}]
    /\ expiring \subseteq Ops
    /\ ui \in UiSteps
    /\ uiDoc \in Docs \cup {NoDoc} /\ uiOp \in Ops \cup {NoOp}
    /\ uiBytes \in Nat
    /\ crashes \in 0..MaxCrashes
    /\ drifted \in BOOLEAN /\ overplanned \in BOOLEAN
    /\ damaged \subseteq Docs /\ strays \subseteq Docs

\* reserved_bytes is what the open reservations add up to, however commits,
\* releases, expiry and crashes interleave: no reservation is given back twice.
ReservedAccounted == db.reserved = ReservedBytes(db, Reservations(db))

\* used_bytes is what the rows of the organization, trash included, add up to,
\* until a recalculation has overwritten it with a total that was already old.
UsedAccounted == ~drifted => db.used = BytesOf(Rows(db))

\* Importing threads, copies and expiry never take more than the plan grants, as
\* long as neither a recalculation nor a change of plan has overtaken them.
QuotaKept == ~drifted /\ ~overplanned => db.used + db.reserved <= db.quota

\* The books of the organization balance: types, reserved and used bytes, the plan
\* (OrganizationStorageService, its tables and every thread that writes them).
SpaceAccounted ==
    /\ StoreTypeOK
    /\ ReservedAccounted
    /\ UsedAccounted
    /\ QuotaKept

\* A document of the catalogue has its file, unless a deletion of it is under way
\* or has failed after the file was out of reach.
RowHasFile ==
    \A d \in Rows(db) :
        files[d] = "stored" \/ d \in damaged \/ (InDeletion /\ uiDoc = d)

\* A managed file belongs to a row or to the thread that is about to write one or
\* to remove it, unless a clean-up failed or the process died in between.
FileHasRow ==
    \A d \in Docs :
        files[d] = "stored" =>
            \/ HasRow(db, d)
            \/ importer[d] \in {"stored", "releasing", "removing"}
            \/ ui = "copied" /\ uiDoc = d
            \/ d \in strays

\* The catalogue and the managed files answer each other.
FilesMatchRows == RowHasFile /\ FileHasRow
=============================================================================
