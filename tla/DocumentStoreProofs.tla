------------------------ MODULE DocumentStoreProofs -------------------------
(***************************************************************************)
(* Proofs about what one machine keeps.                                    *)
(*                                                                         *)
(* Of DocumentStore, for any documents, contents, sizes, plans, number of  *)
(* reservations and crashes: rows and files stay together, and the space   *)
(* that is counted is the space of the documents and of the reservations.  *)
(*                                                                         *)
(* Of CaptureWorkspace, for any number of pages and commands: what was     *)
(* cleared stays cleared, what is saved was shown, and edges given by hand *)
(* stay.                                                                   *)
(***************************************************************************)
EXTENDS DocumentStore, CaptureWorkspace, SequenceTheorems, FiniteSetTheorems,
        WellFoundedInduction, TLAPS

HasDocs(b) == "docs" \in DOMAIN b /\ b.docs \in [Docs -> DocStatuses]

Copying == ui \in {"copying", "copied"}

\* What is known of the variables that the two properties speak of.
Shape ==
    /\ HasDocs(db)
    /\ Copying \/ InDeletion => HasDocs(tx)
    /\ files \in [Docs -> Places]
    /\ importer \in [Docs -> ImporterSteps]
    /\ ui \in UiSteps

\* A document being imported has no row, and its file follows its thread.
ImportsFresh ==
    \A d \in Docs :
        /\ importer[d] # "idle" => db.docs[d] = "NONE"
        /\ importer[d] \in {"checked", "reserved"} => files[d] = "none"
        /\ importer[d] = "stored" => files[d] = "stored"

\* Nobody else works on the copy, and the database has not moved below the
\* transaction that makes it.
CopyFresh ==
    Copying =>
        /\ uiDoc \in Docs
        /\ importer[uiDoc] = "idle"
        /\ db.docs[uiDoc] = "NONE" /\ tx.docs = db.docs
        /\ ui = "copying" => files[uiDoc] = "none"
        /\ ui = "copied" => files[uiDoc] = "stored"

\* The document being deleted is in the trash, its file out of the way, and the
\* transaction differs from the database in its row only.
DeletionApart ==
    InDeletion =>
        /\ uiDoc \in Docs
        /\ db.docs[uiDoc] = "TRASHED"
        /\ files[uiDoc] # "stored"
        /\ ui # "unlinked" => files[uiDoc] = "quarantined" \/ uiDoc \in damaged
        /\ tx.docs = IF ui = "deleting" THEN db.docs
                     ELSE [db.docs EXCEPT ![uiDoc] = "DELETED"]

FilesInv ==
    /\ Shape
    /\ ImportsFresh
    /\ CopyFresh
    /\ DeletionApart
    /\ RowHasFile
    /\ FileHasRow

-----------------------------------------------------------------------------
(* Statements that touch no document, and the one that does.               *)

\* The statements on space and reservations leave the documents alone.
LEMMA SpaceLeavesDocs ==
    ASSUME NEW b, HasDocs(b), NEW o, NEW d
    PROVE  /\ HasDocs(CleanupExpired(b)) /\ CleanupExpired(b).docs = b.docs
           /\ HasDocs(Reserve(b, o, d)) /\ Reserve(b, o, d).docs = b.docs
           /\ HasDocs(CommitReservation(b, o)) /\ CommitReservation(b, o).docs = b.docs
           /\ HasDocs(ReleaseReservation(b, o)) /\ ReleaseReservation(b, o).docs = b.docs
           /\ HasDocs(ReleaseUsed(b, d)) /\ ReleaseUsed(b, d).docs = b.docs
<1>1. HasDocs(CleanupExpired(b)) /\ CleanupExpired(b).docs = b.docs
  BY DEF HasDocs, CleanupExpired
<1>2. HasDocs(Reserve(b, o, d)) /\ Reserve(b, o, d).docs = b.docs
  BY DEF HasDocs, Reserve
<1>3. HasDocs(CommitReservation(b, o)) /\ CommitReservation(b, o).docs = b.docs
  BY DEF HasDocs, CommitReservation
<1>4. HasDocs(ReleaseReservation(b, o)) /\ ReleaseReservation(b, o).docs = b.docs
  BY DEF HasDocs, ReleaseReservation
<1>5. HasDocs(ReleaseUsed(b, d)) /\ ReleaseUsed(b, d).docs = b.docs
  BY DEF HasDocs, ReleaseUsed
<1> QED
  BY <1>1, <1>2, <1>3, <1>4, <1>5

\* Writing a document's row changes its status and no other.
LEMMA WithRowDocs ==
    ASSUME NEW b, HasDocs(b), NEW d \in Docs, NEW status
    PROVE  /\ WithRow(b, d, status).docs = [b.docs EXCEPT ![d] = status]
           /\ status \in DocStatuses => HasDocs(WithRow(b, d, status))
BY DEF HasDocs, WithRow

-----------------------------------------------------------------------------
(* The invariant.                                                          *)

USE DEF Shape, ImportsFresh, CopyFresh, DeletionApart, RowHasFile, FileHasRow,
        Copying, InDeletion, HasRow, Rows, DocStatuses, Places, ImporterSteps,
        UiSteps

\* At the start there are no rows, no files and no threads.
LEMMA FilesInitially == StoreInit => FilesInv
BY DEF StoreInit, FilesInv, HasDocs

\* An importing thread's step keeps rows and files together.
LEMMA ImportKeeps ==
    ASSUME FilesInv, NEW d \in Docs, Importer(d)
    PROVE  FilesInv'
<1> USE DEF FilesInv, uiVars, history
<1>1. CASE ImportCheck(d)
  BY <1>1 DEF ImportCheck, Fresh, Unlocked, HasDocs
<1>2. CASE ImportReserve(d)
  <2>1. HasDocs(db') /\ db'.docs = db.docs
    BY <1>2, SpaceLeavesDocs DEF ImportReserve
  <2> QED
    BY <1>2, <2>1 DEF ImportReserve, Unlocked, HasDocs
<1>3. CASE StoreFile(d)
  BY <1>3 DEF StoreFile, HasDocs
<1>4. CASE StoreFails(d)
  BY <1>4 DEF StoreFails, HasDocs
<1>5. CASE ImportRecord(d)
  <2>1. HasDocs(db') /\ db'.docs = [db.docs EXCEPT ![d] = "ACTIVE"]
    <3>1. /\ HasDocs(WithRow(db, d, "ACTIVE"))
          /\ WithRow(db, d, "ACTIVE").docs = [db.docs EXCEPT ![d] = "ACTIVE"]
      BY WithRowDocs
    <3> QED
      BY <1>5, <3>1, SpaceLeavesDocs DEF ImportRecord
  <2> QED
    BY <1>5, <2>1 DEF ImportRecord, Unlocked, HasDocs
<1>6. CASE ImportRecordFails(d)
  BY <1>6 DEF ImportRecordFails, HasDocs
<1>7. CASE ImportRelease(d)
  <2>1. HasDocs(db') /\ db'.docs = db.docs
    BY <1>7, SpaceLeavesDocs DEF ImportRelease
  <2> QED
    BY <1>7, <2>1 DEF ImportRelease, Unlocked, HasDocs
<1>8. CASE ImportRemove(d)
  BY <1>8 DEF ImportRemove, HasDocs
<1>9. CASE ImportRemoveFails(d)
  BY <1>9 DEF ImportRemoveFails, HasDocs
<1> QED
  BY <1>1, <1>2, <1>3, <1>4, <1>5, <1>6, <1>7, <1>8, <1>9 DEF Importer

\* So does a step of a copy.
LEMMA CopyKeeps ==
    ASSUME FilesInv,
           \/ \E source, d \in Docs : CopyBegin(source, d)
           \/ CopyStore \/ CopyCommit \/ CopyFails \/ CopyCommitFails
    PROVE  FilesInv'
<1> USE DEF FilesInv, history
<1>1. ASSUME NEW source \in Docs, NEW d \in Docs, CopyBegin(source, d)
      PROVE  FilesInv'
  <2>1. HasDocs(tx') /\ tx'.docs = db.docs
    BY <1>1, SpaceLeavesDocs DEF CopyBegin
  <2> QED
    BY <1>1, <2>1 DEF CopyBegin, Fresh, HasDocs
<1>2. CASE CopyStore
  BY <1>2 DEF CopyStore, HasDocs
<1>3. CASE CopyCommit
  <2>1. HasDocs(db') /\ db'.docs = [db.docs EXCEPT ![uiDoc] = "ACTIVE"]
    BY <1>3, WithRowDocs, SpaceLeavesDocs DEF CopyCommit
  <2> QED
    BY <1>3, <2>1 DEF CopyCommit, EndTransaction, HasDocs
<1>4. CASE CopyFails
  BY <1>4 DEF CopyFails, EndTransaction, HasDocs
<1>5. CASE CopyCommitFails
  BY <1>5 DEF CopyCommitFails, EndTransaction, HasDocs
<1> QED
  BY <1>1, <1>2, <1>3, <1>4, <1>5

\* So does a step of a permanent deletion.
LEMMA DeletionKeeps ==
    ASSUME FilesInv,
           \/ \E d \in Docs : DeleteBegin(d)
           \/ DeleteRecord \/ DeleteFails \/ DeleteUnlink
           \/ DeleteCommit \/ DeleteCommitFails
    PROVE  FilesInv'
<1> USE DEF FilesInv, history
<1>1. ASSUME NEW d \in Docs, DeleteBegin(d)
      PROVE  FilesInv'
  BY <1>1 DEF DeleteBegin, HasDocs
<1>2. CASE DeleteRecord
  <2>1. HasDocs(tx') /\ tx'.docs = [db.docs EXCEPT ![uiDoc] = "DELETED"]
    <3>1. HasDocs(tx) /\ uiDoc \in Docs /\ tx.docs = db.docs
      BY <1>2 DEF DeleteRecord
    <3>2. /\ HasDocs(WithRow(tx, uiDoc, "DELETED"))
          /\ WithRow(tx, uiDoc, "DELETED").docs = [db.docs EXCEPT ![uiDoc] = "DELETED"]
      BY <3>1, WithRowDocs
    <3> QED
      BY <1>2, <3>2, SpaceLeavesDocs DEF DeleteRecord
  <2> QED
    BY <1>2, <2>1 DEF DeleteRecord, HasDocs
<1>3. CASE DeleteFails
  BY <1>3 DEF DeleteFails, EndTransaction, HasDocs
<1>4. CASE DeleteUnlink
  BY <1>4 DEF DeleteUnlink, HasDocs
<1>5. CASE DeleteCommit
  BY <1>5 DEF DeleteCommit, EndTransaction, HasDocs
<1>6. CASE DeleteCommitFails
  BY <1>6 DEF DeleteCommitFails, EndTransaction, HasDocs
<1> QED
  BY <1>1, <1>2, <1>3, <1>4, <1>5, <1>6

\* Trash, recalculation and plan move no file; a document in the trash has a row.
LEMMA CatalogueKeeps ==
    ASSUME FilesInv,
           \/ \E d \in Docs : TrashDocument(d) \/ RestoreDocument(d)
           \/ RecalculateBegin \/ RecalculateWrite
           \/ \E plan \in Plans : PlanCheck(plan)
           \/ PlanAssign
    PROVE  FilesInv'
<1> USE DEF FilesInv, uiVars, history
<1>1. ASSUME NEW d \in Docs, TrashDocument(d)
      PROVE  FilesInv'
  <2>1. HasDocs(db') /\ db'.docs = [db.docs EXCEPT ![d] = "TRASHED"]
    BY <1>1, WithRowDocs DEF TrashDocument
  <2> QED
    BY <1>1, <2>1 DEF TrashDocument, HasDocs
<1>2. ASSUME NEW d \in Docs, RestoreDocument(d)
      PROVE  FilesInv'
  <2>1. HasDocs(db') /\ db'.docs = [db.docs EXCEPT ![d] = "ACTIVE"]
    BY <1>2, WithRowDocs DEF RestoreDocument
  <2> QED
    BY <1>2, <2>1 DEF RestoreDocument, HasDocs
<1>3. CASE RecalculateBegin
  BY <1>3 DEF RecalculateBegin, HasDocs
<1>4. CASE RecalculateWrite
  BY <1>4 DEF RecalculateWrite, HasDocs
<1>5. ASSUME NEW plan \in Plans, PlanCheck(plan)
      PROVE  FilesInv'
  BY <1>5 DEF PlanCheck, HasDocs
<1>6. CASE PlanAssign
  BY <1>6 DEF PlanAssign, HasDocs
<1> QED
  BY <1>1, <1>2, <1>3, <1>4, <1>5, <1>6

\* Every step keeps the invariant; a crash charges what it leaves behind to
\* `damaged` and `strays`.
LEMMA FilesInductive == FilesInv /\ [StoreNext]_storeVars => FilesInv'
<1> SUFFICES ASSUME FilesInv, [StoreNext]_storeVars
             PROVE  FilesInv'
  OBVIOUS
<1>1. ASSUME NEW d \in Docs, Importer(d)
      PROVE  FilesInv'
  BY <1>1, ImportKeeps
<1>2. ASSUME NEW o \in Ops, ReservationExpires(o)
      PROVE  FilesInv'
  BY <1>2 DEF ReservationExpires, FilesInv, uiVars, history, HasDocs
<1>3. CASE Interface
  BY <1>3, CopyKeeps, DeletionKeeps, CatalogueKeeps DEF Interface
<1>4. CASE CrashAndRestart
  BY <1>4 DEF CrashAndRestart, FilesInv, HasDocs
<1>5. CASE UNCHANGED storeVars
  BY <1>5 DEF storeVars, FilesInv, HasDocs
<1> QED
  BY <1>1, <1>2, <1>3, <1>4, <1>5 DEF StoreNext

-----------------------------------------------------------------------------
\* A document of the catalogue has its file and a managed file its row or a thread
\* that answers for it, however imports, copies, deletions and crashes interleave,
\* unless a deletion has failed past the file, a clean-up failed or the process
\* died in between (import_document, copy_document, permanently_delete_document).
THEOREM FilesAndRows == StoreSpec => []FilesMatchRows
<1>1. FilesInv => FilesMatchRows
  BY DEF FilesInv, FilesMatchRows
<1> QED
  BY <1>1, FilesInitially, FilesInductive, PTL DEF StoreSpec

-----------------------------------------------------------------------------
(* The books.  What the totals of a database, or of an open transaction,   *)
(* have to agree with.                                                     *)

Balanced(b) ==
    /\ b \in Database
    /\ IsFiniteSet(Rows(b)) /\ IsFiniteSet(Reservations(b))
    /\ b.reserved = ReservedBytes(b, Reservations(b))
    /\ ~drifted => b.used = BytesOf(Rows(b))
    /\ ~drifted /\ ~overplanned => b.used + b.reserved <= b.quota

\* A reservation a thread holds is open for its own document or closed.
Holds(b, d) == importOp[d] \in Ops /\ b.res[importOp[d]] \in {NoDoc, d}

ImportsHold ==
    \A d \in Docs :
        IF importer[d] \in {"reserved", "stored", "releasing"} THEN Holds(db, d)
        ELSE importOp[d] = NoOp

\* The open transaction of a copy balances, its own reservation included.
CopyBalanced ==
    Copying =>
        /\ Balanced(tx)
        /\ uiOp \in Ops /\ tx.res[uiOp] = uiDoc
        /\ \A d \in Docs : importOp[d] = NoOp \/ Holds(tx, d)

\* That of a deletion differs in the space it gives back.
DeletionBalanced ==
    InDeletion =>
        /\ tx \in Database
        /\ tx.res = db.res /\ tx.reserved = db.reserved /\ tx.quota = db.quota
        /\ tx.used = IF ui = "deleting" THEN db.used ELSE ReleaseUsed(db, uiDoc).used

SpaceInv ==
    /\ StoreTypeOK
    /\ Balanced(db)
    /\ ImportsHold
    /\ CopyBalanced
    /\ DeletionBalanced

-----------------------------------------------------------------------------
(* Sums of bytes.                                                          *)

\* The bytes of one thing.
LEMMA BytesOfOne ==
    ASSUME NEW x, NEW size, size[x] \in Nat
    PROVE  /\ IsFiniteSet({x} \X (1 .. size[x]))
           /\ Cardinality({x} \X (1 .. size[x])) = size[x]
<1>1. IsFiniteSet(1 .. size[x]) /\ Cardinality(1 .. size[x]) = size[x]
  <2>1. /\ IsFiniteSet(1 .. size[x])
        /\ Cardinality(1 .. size[x]) = IF 1 > size[x] THEN 0 ELSE size[x] - 1 + 1
    BY FS_Interval
  <2> QED
    BY <2>1
<1>2. IsFiniteSet({x}) /\ Cardinality({x}) = 1
  BY FS_Singleton
<1>3. /\ IsFiniteSet({x} \X (1 .. size[x]))
      /\ Cardinality({x} \X (1 .. size[x])) = 1 * size[x]
  BY <1>1, <1>2, FS_Product
<1> QED
  BY <1>3

\* Finitely many things have finitely many bytes.
LEMMA BytesFinite ==
    ASSUME NEW xs, IsFiniteSet(xs), NEW size, \A x \in xs : size[x] \in Nat
    PROVE  IsFiniteSet(Bytes(xs, size)) /\ Cardinality(Bytes(xs, size)) \in Nat
<1> DEFINE cells == [x \in xs |-> {x} \X (1 .. size[x])]
           all == {{x} \X (1 .. size[x]) : x \in xs}
<1>1. cells \in Surjection(xs, all)
  BY DEF Surjection
<1>2. IsFiniteSet(all)
  BY <1>1, FS_Surjection
<1>3. \A c \in all : IsFiniteSet(c)
  BY BytesOfOne
<1>4. IsFiniteSet(UNION all)
  BY <1>2, <1>3, FS_UNION
<1> QED
  BY <1>4, FS_CardinalityType DEF Bytes

\* Things apart add up.
LEMMA BytesAddUp ==
    ASSUME NEW xs, IsFiniteSet(xs), NEW ys, IsFiniteSet(ys), xs \cap ys = {},
           NEW size, \A x \in xs \cup ys : size[x] \in Nat
    PROVE  Cardinality(Bytes(xs \cup ys, size))
               = Cardinality(Bytes(xs, size)) + Cardinality(Bytes(ys, size))
<1>1. Bytes(xs \cup ys, size) = Bytes(xs, size) \cup Bytes(ys, size)
  BY DEF Bytes
<1>2. Bytes(xs, size) \cap Bytes(ys, size) = {}
  <2>1. \A c \in Bytes(xs, size) : c[1] \in xs
    BY DEF Bytes
  <2>2. \A c \in Bytes(ys, size) : c[1] \in ys
    BY DEF Bytes
  <2> QED
    BY <2>1, <2>2
<1>3. /\ IsFiniteSet(Bytes(xs, size)) /\ Cardinality(Bytes(xs, size)) \in Nat
      /\ IsFiniteSet(Bytes(ys, size)) /\ Cardinality(Bytes(ys, size)) \in Nat
  BY BytesFinite
<1>4. Cardinality(Bytes(xs, size) \cup Bytes(ys, size))
         = Cardinality(Bytes(xs, size)) + Cardinality(Bytes(ys, size))
               - Cardinality(Bytes(xs, size) \cap Bytes(ys, size))
  BY <1>3, FS_Union
<1>5. Cardinality(Bytes(xs, size) \cap Bytes(ys, size)) = 0
  BY <1>2, FS_EmptySet
<1>6. Cardinality(Bytes(xs, size) \cup Bytes(ys, size))
         = Cardinality(Bytes(xs, size)) + Cardinality(Bytes(ys, size))
  BY <1>3, <1>4, <1>5
<1> QED
  BY <1>1, <1>6

\* One thing more, one thing less.
LEMMA BytesWith ==
    ASSUME NEW xs, IsFiniteSet(xs), NEW y, y \notin xs,
           NEW size, \A x \in xs \cup {y} : size[x] \in Nat
    PROVE  Cardinality(Bytes(xs \cup {y}, size)) = Cardinality(Bytes(xs, size)) + size[y]
<1>1. IsFiniteSet({y})
  BY FS_Singleton
<1>2. Cardinality(Bytes(xs \cup {y}, size))
         = Cardinality(Bytes(xs, size)) + Cardinality(Bytes({y}, size))
  BY <1>1, BytesAddUp, xs \cap {y} = {}
<1>3. Bytes({y}, size) = {y} \X (1 .. size[y])
  BY DEF Bytes
<1> QED
  BY <1>2, <1>3, BytesOfOne

\* The bytes of documents.
LEMMA DocumentBytes ==
    ASSUME NEW ds \in SUBSET Docs, IsFiniteSet(ds)
    PROVE  /\ BytesOf(ds) \in Nat
           /\ \A d \in Docs \ ds : BytesOf(ds \cup {d}) = BytesOf(ds) + Size[d]
           /\ \A d \in ds : BytesOf(ds \ {d}) = BytesOf(ds) - Size[d] /\ BytesOf(ds) >= Size[d]
<1>1. \A d \in Docs : Size[d] \in Nat
  BY SizeAssumption
<1>2. BytesOf(ds) \in Nat
  BY <1>1, BytesFinite DEF BytesOf
<1>3. ASSUME NEW d \in Docs \ ds
      PROVE  BytesOf(ds \cup {d}) = BytesOf(ds) + Size[d]
  BY <1>1, BytesWith DEF BytesOf
<1>4. ASSUME NEW d \in ds
      PROVE  BytesOf(ds \ {d}) = BytesOf(ds) - Size[d] /\ BytesOf(ds) >= Size[d]
  <2>1. IsFiniteSet(ds \ {d})
    BY FS_Difference
  <2>2. BytesOf((ds \ {d}) \cup {d}) = BytesOf(ds \ {d}) + Size[d]
    <3>1. \A x \in (ds \ {d}) \cup {d} : Size[x] \in Nat
      BY <1>1
    <3>2. d \notin ds \ {d}
      OBVIOUS
    <3> QED
      BY <2>1, <3>1, <3>2, BytesWith DEF BytesOf
  <2>3. (ds \ {d}) \cup {d} = ds
    OBVIOUS
  <2>4. BytesOf(ds \ {d}) \in Nat
    <3>1. \A x \in ds \ {d} : Size[x] \in Nat
      BY <1>1
    <3> QED
      BY <2>1, <3>1, BytesFinite DEF BytesOf
  <2> QED
    BY <1>1, <1>2, <2>2, <2>3, <2>4
<1> QED
  BY <1>2, <1>3, <1>4

\* Reservations for the same documents take the same bytes.
LEMMA SameReserved ==
    ASSUME NEW b, NEW c, NEW os, \A o \in os : b.res[o] = c.res[o]
    PROVE  ReservedBytes(b, os) = ReservedBytes(c, os)
<1>1. [o \in os |-> Size[b.res[o]]] = [o \in os |-> Size[c.res[o]]]
  OBVIOUS
<1> QED
  BY <1>1 DEF ReservedBytes

\* The bytes of open reservations, split in two.
LEMMA ReservedAddUp ==
    ASSUME NEW b, NEW os, IsFiniteSet(os), NEW ps, IsFiniteSet(ps), os \cap ps = {},
           \A o \in os \cup ps : b.res[o] \in Docs
    PROVE  /\ ReservedBytes(b, os) \in Nat /\ ReservedBytes(b, ps) \in Nat
           /\ ReservedBytes(b, os \cup ps) = ReservedBytes(b, os) + ReservedBytes(b, ps)
<1> DEFINE whole == [o \in os \cup ps |-> Size[b.res[o]]]
<1>1. \A o \in os \cup ps : whole[o] \in Nat
  BY SizeAssumption
<1>2. ASSUME NEW qs \in SUBSET (os \cup ps)
      PROVE  ReservedBytes(b, qs) = Cardinality(Bytes(qs, whole))
  <2>1. Bytes(qs, [o \in qs |-> Size[b.res[o]]]) = Bytes(qs, whole)
    BY DEF Bytes
  <2> QED
    BY <2>1 DEF ReservedBytes
<1>3. Cardinality(Bytes(os \cup ps, whole))
          = Cardinality(Bytes(os, whole)) + Cardinality(Bytes(ps, whole))
  <2> HIDE DEF whole
  <2> QED
    BY <1>1, BytesAddUp
<1>4. Cardinality(Bytes(os, whole)) \in Nat /\ Cardinality(Bytes(ps, whole)) \in Nat
  <2> HIDE DEF whole
  <2> QED
    BY <1>1, BytesFinite
<1> HIDE DEF whole
<1> QED
  BY <1>2, <1>3, <1>4

\* The bytes of one.
LEMMA ReservedOne ==
    ASSUME NEW b, NEW o, b.res[o] \in Docs
    PROVE  ReservedBytes(b, {o}) = Size[b.res[o]]
<1> DEFINE one == [p \in {o} |-> Size[b.res[p]]]
<1>1. Bytes({o}, one) = {o} \X (1 .. one[o])
  BY DEF Bytes
<1>2. one[o] = Size[b.res[o]] /\ one[o] \in Nat
  BY SizeAssumption
<1>3. Cardinality({o} \X (1 .. one[o])) = one[o]
  <2> HIDE DEF one
  <2> QED
    BY <1>2, BytesOfOne
<1> QED
  BY <1>1, <1>2, <1>3 DEF ReservedBytes

-----------------------------------------------------------------------------
(* What the statements on space do to the books.                           *)

\* The parts of a database are of their types.
LEMMA DatabaseParts ==
    ASSUME NEW b \in Database
    PROVE  /\ b.docs \in [Docs -> DocStatuses] /\ b.res \in [Ops -> Docs \cup {NoDoc}]
           /\ b.quota \in Nat /\ b.used \in Nat /\ b.reserved \in Nat
           /\ Rows(b) \in SUBSET Docs /\ Reservations(b) \in SUBSET Ops
           /\ \A o \in Reservations(b) : b.res[o] \in Docs
BY DEF Database, Reservations

\* Writing totals and reservations of their types keeps it a database.
LEMMA ReservationsUpdate ==
    ASSUME NEW b \in Database, NEW res \in [Ops -> Docs \cup {NoDoc}], NEW reserved \in Nat
    PROVE  [b EXCEPT !.reserved = reserved, !.res = res] \in Database
BY DEF Database

LEMMA TotalsUpdate ==
    ASSUME NEW b \in Database, NEW res \in [Ops -> Docs \cup {NoDoc}],
           NEW used \in Nat, NEW reserved \in Nat
    PROVE  [b EXCEPT !.reserved = reserved, !.used = used, !.res = res] \in Database
BY DEF Database

\* Expired reservations are given back all at once.
LEMMA CleanupBalanced ==
    ASSUME NEW b, Balanced(b)
    PROVE  /\ Balanced(CleanupExpired(b))
           /\ \A o \in Ops : CleanupExpired(b).res[o] \in {NoDoc, b.res[o]}
<1> DEFINE gone == Reservations(b) \cap expiring
           staying == Reservations(b) \ gone
           c == CleanupExpired(b)
<1>1. b \in Database
  BY DEF Balanced
<1>2. /\ IsFiniteSet(gone) /\ IsFiniteSet(staying)
      /\ gone \cap staying = {} /\ Reservations(b) = staying \cup gone
  BY FS_Intersection, FS_Difference DEF Balanced
<1>3. \A o \in staying \cup gone : b.res[o] \in Docs
  BY <1>1, <1>2, DatabaseParts
<1>4. /\ ReservedBytes(b, staying) \in Nat /\ ReservedBytes(b, gone) \in Nat
      /\ b.reserved = ReservedBytes(b, staying) + ReservedBytes(b, gone)
  <2> HIDE DEF staying, gone
  <2>1. /\ ReservedBytes(b, staying) \in Nat /\ ReservedBytes(b, gone) \in Nat
        /\ ReservedBytes(b, staying \cup gone) = ReservedBytes(b, staying) + ReservedBytes(b, gone)
    BY <1>2, <1>3, ReservedAddUp
  <2> QED
    BY <1>2, <2>1 DEF Balanced
<1>5. /\ c.docs = b.docs /\ c.quota = b.quota /\ c.used = b.used
      /\ c.reserved = b.reserved - ReservedBytes(b, gone)
      /\ c.res = [o \in Ops |-> IF o \in gone THEN NoDoc ELSE b.res[o]]
  BY <1>1 DEF CleanupExpired, Database
<1>6. c.reserved = ReservedBytes(b, staying) /\ c.reserved \in Nat
  <2> HIDE DEF staying, gone, c
  <2> QED
    BY <1>4, <1>5
<1>7. c \in Database
  <2>1. c.res \in [Ops -> Docs \cup {NoDoc}]
    BY <1>1, <1>5, DatabaseParts
  <2>2. c = [b EXCEPT !.reserved = c.reserved, !.res = c.res]
    BY <1>5 DEF CleanupExpired
  <2> HIDE DEF c
  <2>3. [b EXCEPT !.reserved = c.reserved, !.res = c.res] \in Database
    BY <1>1, <1>6, <2>1, ReservationsUpdate
  <2> QED
    BY <2>2, <2>3, Zenon
<1>8. Rows(c) = Rows(b)
  BY <1>5 DEF Rows, HasRow
<1>9. Reservations(c) = staying /\ \A o \in staying : c.res[o] = b.res[o]
  BY <1>1, <1>5, DatabaseParts DEF Reservations
<1>10. ReservedBytes(c, staying) = ReservedBytes(b, staying)
  <2> HIDE DEF staying, c
  <2> QED
    BY <1>9, SameReserved
<1>11. c.used + c.reserved <= b.used + b.reserved
  <2> HIDE DEF staying, gone, c
  <2> QED
    BY <1>1, <1>4, <1>5, <1>6, DatabaseParts
<1>12. Balanced(c)
  <2> HIDE DEF staying, gone, c
  <2>1. IsFiniteSet(Rows(c)) /\ (~drifted => c.used = BytesOf(Rows(c)))
    BY <1>5, <1>8 DEF Balanced
  <2>2. IsFiniteSet(Reservations(c)) /\ c.reserved = ReservedBytes(c, Reservations(c))
    BY <1>2, <1>6, <1>9, <1>10
  <2>3. ~drifted /\ ~overplanned => c.used + c.reserved <= c.quota
    <3>1. ~drifted /\ ~overplanned => b.used + b.reserved <= b.quota
      BY DEF Balanced
    <3> QED
      BY <1>1, <1>5, <1>6, <1>7, <1>11, <3>1, DatabaseParts
  <2> QED
    BY <1>7, <2>1, <2>2, <2>3 DEF Balanced
<1>13. \A o \in Ops : c.res[o] \in {NoDoc, b.res[o]}
  BY <1>5
<1> QED
  BY <1>12, <1>13

\* A reservation that fits is within the plan.
LEMMA ReserveBalanced ==
    ASSUME NEW b, Balanced(b), NEW o \in Ops, b.res[o] = NoDoc, NEW d \in Docs, Fits(b, d)
    PROVE  Balanced(Reserve(b, o, d))
<1> DEFINE c == Reserve(b, o, d)
<1>1. b \in Database
  BY DEF Balanced
<1>2. Size[d] \in Nat
  BY SizeAssumption
<1>3. c.docs = b.docs /\ c.quota = b.quota /\ c.used = b.used
      /\ c.reserved = b.reserved + Size[d] /\ c.res = [b.res EXCEPT ![o] = d]
      /\ c \in Database
  <2>1. b.reserved + Size[d] \in Nat /\ [b.res EXCEPT ![o] = d] \in [Ops -> Docs \cup {NoDoc}]
    BY <1>1, <1>2, DatabaseParts
  <2>2. c = [b EXCEPT !.reserved = b.reserved + Size[d], !.res = [b.res EXCEPT ![o] = d]]
    BY DEF Reserve
  <2>3. c \in Database
    <3>1. [b EXCEPT !.reserved = b.reserved + Size[d], !.res = [b.res EXCEPT ![o] = d]]
              \in Database
      BY <1>1, <2>1, ReservationsUpdate
    <3> QED
      BY <2>2, <3>1, Zenon
  <2> QED
    BY <1>1, <2>3 DEF Reserve, Database
<1>4. Rows(c) = Rows(b)
  BY <1>3 DEF Rows, HasRow
<1>5. /\ Reservations(c) = Reservations(b) \cup {o} /\ o \notin Reservations(b)
      /\ \A p \in Reservations(b) : c.res[p] = b.res[p]
      /\ c.res[o] = d /\ \A p \in Reservations(c) : c.res[p] \in Docs
  BY <1>1, <1>3, DatabaseParts, StoreNullAssumption DEF Reservations
<1> HIDE DEF c
<1>6. IsFiniteSet(Reservations(b)) /\ IsFiniteSet({o}) /\ IsFiniteSet(Reservations(c))
  <2>1. IsFiniteSet(Reservations(b))
    BY DEF Balanced
  <2>2. IsFiniteSet(Reservations(b) \cup {o})
    BY <2>1, FS_AddElement
  <2> QED
    BY <1>5, <2>1, <2>2, FS_Singleton
<1>7. /\ ReservedBytes(c, Reservations(b)) = b.reserved
      /\ ReservedBytes(c, {o}) = Size[d]
  BY <1>5, SameReserved, ReservedOne DEF Balanced
<1>8. ReservedBytes(c, Reservations(c)) = b.reserved + Size[d]
  <2>1. Reservations(b) \cap {o} = {}
    BY <1>5
  <2>2. \A p \in Reservations(b) \cup {o} : c.res[p] \in Docs
    BY <1>5
  <2>3. ReservedBytes(c, Reservations(b) \cup {o})
            = ReservedBytes(c, Reservations(b)) + ReservedBytes(c, {o})
    BY <1>6, <2>1, <2>2, ReservedAddUp
  <2> QED
    BY <1>5, <1>7, <2>3
<1>9. c.used + c.reserved <= c.quota
  BY <1>1, <1>2, <1>3, DatabaseParts DEF Fits
<1> QED
  BY <1>3, <1>4, <1>6, <1>8, <1>9 DEF Balanced, c

\* Closing an open reservation takes its bytes off the reserved ones.
LEMMA CloseBalanced ==
    ASSUME NEW b, Balanced(b), NEW o \in Ops, b.res[o] # NoDoc,
           NEW c \in Database, c.res = [b.res EXCEPT ![o] = NoDoc]
    PROVE  /\ IsFiniteSet(Reservations(c))
           /\ Size[b.res[o]] \in Nat /\ b.reserved \in Nat /\ b.reserved >= Size[b.res[o]]
           /\ ReservedBytes(c, Reservations(c)) = b.reserved - Size[b.res[o]]
<1>1. b \in Database
  BY DEF Balanced
<1>2. /\ Reservations(b) = Reservations(c) \cup {o} /\ o \notin Reservations(c)
      /\ \A p \in Reservations(c) : c.res[p] = b.res[p]
      /\ \A p \in Reservations(c) \cup {o} : b.res[p] \in Docs
  BY <1>1, DatabaseParts DEF Reservations
<1>3. IsFiniteSet(Reservations(c)) /\ IsFiniteSet({o})
  <2>1. Reservations(c) \in SUBSET Reservations(b)
    BY <1>2
  <2> QED
    BY <2>1, FS_Subset, FS_Singleton DEF Balanced
<1>4. /\ ReservedBytes(b, Reservations(c)) \in Nat /\ ReservedBytes(b, {o}) \in Nat
      /\ ReservedBytes(b, Reservations(c) \cup {o})
             = ReservedBytes(b, Reservations(c)) + ReservedBytes(b, {o})
  <2>1. Reservations(c) \cap {o} = {}
    BY <1>2
  <2> QED
    BY <1>2, <1>3, <2>1, ReservedAddUp
<1>5. b.reserved = ReservedBytes(b, Reservations(c)) + Size[b.res[o]]
  BY <1>2, <1>4, ReservedOne DEF Balanced
<1>6. ReservedBytes(c, Reservations(c)) = ReservedBytes(b, Reservations(c))
  <2> DEFINE open == Reservations(c)
  <2>1. \A p \in open : c.res[p] = b.res[p]
    BY <1>2
  <2> HIDE DEF open
  <2>2. ReservedBytes(c, open) = ReservedBytes(b, open)
    BY <2>1, SameReserved
  <2> QED
    BY <2>2 DEF open
<1>7. Size[b.res[o]] \in Nat
  BY <1>2, SizeAssumption
<1> QED
  BY <1>3, <1>4, <1>5, <1>6, <1>7

\* Giving a reservation back.
LEMMA ReleaseBalanced ==
    ASSUME NEW b, Balanced(b), NEW o \in Ops
    PROVE  /\ Balanced(ReleaseReservation(b, o))
           /\ \A p \in Ops : ReleaseReservation(b, o).res[p] \in {NoDoc, b.res[p]}
<1>1. CASE ~IsOpen(b, o)
  BY <1>1 DEF ReleaseReservation
<1>2. CASE IsOpen(b, o)
  <2> DEFINE c == ReleaseReservation(b, o)
  <2>1. b \in Database /\ b.res[o] # NoDoc
    BY <1>2 DEF Balanced, IsOpen
  <2>2. Size[b.res[o]] \in Nat /\ b.reserved >= Size[b.res[o]]
    BY <1>2, <2>1, DatabaseParts, SizeAssumption DEF IsOpen
  <2>3. /\ c \in Database /\ c.docs = b.docs /\ c.quota = b.quota /\ c.used = b.used
        /\ c.reserved = b.reserved - Size[b.res[o]]
        /\ c.res = [b.res EXCEPT ![o] = NoDoc]
    <3> DEFINE n == b.reserved - Size[b.res[o]]
               res == [b.res EXCEPT ![o] = NoDoc]
    <3>1. n \in Nat /\ res \in [Ops -> Docs \cup {NoDoc}]
      BY <2>1, <2>2, DatabaseParts
    <3>2. c = [b EXCEPT !.reserved = n, !.res = res]
      BY <1>2 DEF ReleaseReservation
    <3>3. c \in Database
      <4> HIDE DEF n, res, c
      <4> QED
        BY <2>1, <3>1, <3>2, ReservationsUpdate
    <3> QED
      BY <2>1, <3>2, <3>3 DEF Database
  <2>4. Rows(c) = Rows(b)
    BY <2>3 DEF Rows, HasRow
  <2>5. \A p \in Ops : c.res[p] \in {NoDoc, b.res[p]}
    BY <2>1, <2>3, DatabaseParts
  <2> HIDE DEF c
  <2>6. /\ IsFiniteSet(Reservations(c))
        /\ ReservedBytes(c, Reservations(c)) = b.reserved - Size[b.res[o]]
    BY <2>1, <2>3, CloseBalanced
  <2>7. ~drifted /\ ~overplanned => c.used + c.reserved <= c.quota
    <3>1. ~drifted /\ ~overplanned => b.used + b.reserved <= b.quota
      BY DEF Balanced
    <3> QED
      BY <2>1, <2>2, <2>3, <3>1, DatabaseParts
  <2> QED
    BY <2>3, <2>4, <2>5, <2>6, <2>7 DEF Balanced, c
<1> QED
  BY <1>1, <1>2

\* A new document takes the bytes that were reserved for it.
LEMMA CommitBalanced ==
    ASSUME NEW b, Balanced(b), NEW d \in Docs, b.docs[d] = "NONE",
           NEW o \in Ops, b.res[o] = d
    PROVE  LET c == CommitReservation(WithRow(b, d, "ACTIVE"), o)
           IN  Balanced(c) /\ \A p \in Ops : c.res[p] \in {NoDoc, b.res[p]}
<1> DEFINE c == CommitReservation(WithRow(b, d, "ACTIVE"), o)
<1>1. b \in Database /\ b.res[o] # NoDoc /\ Size[d] \in Nat
  BY StoreNullAssumption, SizeAssumption DEF Balanced
<1>2. b.reserved >= Size[d]
  <2>1. [b EXCEPT !.res[o] = NoDoc] \in Database
        /\ [b EXCEPT !.res[o] = NoDoc].res = [b.res EXCEPT ![o] = NoDoc]
    BY <1>1, DatabaseParts DEF Database
  <2> QED
    BY <1>1, <2>1, CloseBalanced
<1>3. /\ c \in Database /\ c.docs = [b.docs EXCEPT ![d] = "ACTIVE"] /\ c.quota = b.quota
      /\ c.used = b.used + Size[d] /\ c.reserved = b.reserved - Size[d]
      /\ c.res = [b.res EXCEPT ![o] = NoDoc]
  <2> DEFINE e == [b EXCEPT !.docs[d] = "ACTIVE"]
             n == b.reserved - Size[d]
             m == b.used + Size[d]
             res == [b.res EXCEPT ![o] = NoDoc]
  <2>1. /\ e \in Database /\ e.docs = [b.docs EXCEPT ![d] = "ACTIVE"]
        /\ e.res = b.res /\ e.quota = b.quota /\ e.used = b.used /\ e.reserved = b.reserved
    BY <1>1 DEF Database
  <2>2. n \in Nat /\ m \in Nat /\ res \in [Ops -> Docs \cup {NoDoc}]
    BY <1>1, <1>2, DatabaseParts
  <2>3. c = [e EXCEPT !.reserved = n, !.used = m, !.res = res]
    <3>1. e = WithRow(b, d, "ACTIVE")
      BY DEF WithRow
    <3>2. c = [e EXCEPT !.reserved = e.reserved - Size[e.res[o]],
                        !.used = e.used + Size[e.res[o]],
                        !.res = [e.res EXCEPT ![o] = NoDoc]]
      BY <3>1 DEF CommitReservation
    <3>3. n = e.reserved - Size[e.res[o]] /\ m = e.used + Size[e.res[o]]
          /\ res = [e.res EXCEPT ![o] = NoDoc]
      BY <2>1
    <3> HIDE DEF c, e, n, m, res
    <3> QED
      BY <3>2, <3>3
  <2>4. c \in Database
    <3> HIDE DEF c, e, n, m, res
    <3> QED
      BY <2>1, <2>2, <2>3, TotalsUpdate
  <2>5. /\ c.docs = e.docs /\ c.quota = e.quota /\ c.used = m /\ c.reserved = n
        /\ c.res = res
    <3> HIDE DEF c, e, n, m, res
    <3> QED
      BY <2>1, <2>3 DEF Database
  <2> QED
    BY <2>1, <2>4, <2>5
<1>4. Rows(c) = Rows(b) \cup {d} /\ d \notin Rows(b)
  BY <1>1, <1>3, DatabaseParts DEF Rows, HasRow
<1>5. \A p \in Ops : c.res[p] \in {NoDoc, b.res[p]}
  BY <1>1, <1>3, DatabaseParts
<1> HIDE DEF c
<1>6. IsFiniteSet(Rows(b)) /\ IsFiniteSet(Rows(c)) /\ Rows(b) \in SUBSET Docs
  <2>1. IsFiniteSet(Rows(b)) /\ Rows(b) \in SUBSET Docs
    BY <1>1, DatabaseParts DEF Balanced
  <2> HIDE DEF Rows
  <2>2. IsFiniteSet(Rows(b) \cup {d})
    BY <2>1, FS_AddElement
  <2> QED
    BY <1>4, <2>1, <2>2
<1>7. BytesOf(Rows(c)) = BytesOf(Rows(b)) + Size[d]
  BY <1>4, <1>6, DocumentBytes
<1>8. /\ IsFiniteSet(Reservations(c))
      /\ ReservedBytes(c, Reservations(c)) = b.reserved - Size[d]
  BY <1>1, <1>3, CloseBalanced
<1>9. ~drifted => c.used = BytesOf(Rows(c))
  BY <1>3, <1>7 DEF Balanced
<1>10. c.used + c.reserved = b.used + b.reserved
  BY <1>1, <1>2, <1>3, DatabaseParts
<1>11. ~drifted /\ ~overplanned => c.used + c.reserved <= c.quota
  BY <1>3, <1>10 DEF Balanced
<1> QED
  BY <1>3, <1>5, <1>6, <1>8, <1>9, <1>11 DEF Balanced, c

-----------------------------------------------------------------------------
(* The steps.                                                              *)

\* A database that balances still does when nobody blames a total since.
LEMMA BalancedNext ==
    ASSUME NEW c, Balanced(c), UNCHANGED <<drifted, overplanned>>
    PROVE  /\ db' = c => Balanced(db)'
           /\ tx' = c => Balanced(tx)'
<1>1. ASSUME db' = c PROVE Balanced(db)'
  BY <1>1 DEF Balanced
<1>2. ASSUME tx' = c PROVE Balanced(tx)'
  BY <1>2 DEF Balanced
<1> QED
  BY <1>1, <1>2

\* A new reservation has an id no row and no thread uses.
LEMMA NewOpUnused ==
    ASSUME NEW b, NewOp(b) # NoOp
    PROVE  /\ NewOp(b) \in Ops /\ b.res[NewOp(b)] = NoDoc
           /\ \A d \in Docs : importOp[d] # NewOp(b)
<1> DEFINE unused == {p \in Ops : b.res[p] = NoDoc /\ \A d \in Docs : importOp[d] # p}
<1>1. NewOp(b) = CHOOSE o \in {NoOp} \cup Ops : IF unused = {} THEN o = NoOp ELSE o \in unused
  BY DEF NewOp
<1>2. \E o \in {NoOp} \cup Ops : IF unused = {} THEN o = NoOp ELSE o \in unused
  OBVIOUS
<1>3. IF unused = {} THEN NewOp(b) = NoOp ELSE NewOp(b) \in unused
  BY <1>1, <1>2
<1> QED
  BY <1>3

\* At the start nothing is stored and nothing reserved.
LEMMA BooksInitially == StoreInit => SpaceInv
<1> SUFFICES ASSUME StoreInit PROVE SpaceInv
  OBVIOUS
<1>1. db \in Database
  BY PlansAssumption DEF StoreInit, Database
<1>2. Rows(db) = {} /\ Reservations(db) = {}
  BY DEF StoreInit, Reservations
<1>3. BytesOf({}) = 0 /\ ReservedBytes(db, {}) = 0 /\ IsFiniteSet({})
  BY FS_EmptySet DEF BytesOf, ReservedBytes, Bytes
<1>4. Balanced(db)
  <2>1. db.used = 0 /\ db.reserved = 0 /\ db.quota \in Nat
    BY <1>1 DEF StoreInit, Database
  <2> QED
    BY <1>1, <1>2, <1>3, <2>1 DEF Balanced
<1>5. StoreTypeOK
  BY <1>1, StoreBoundAssumption, 0 \in 0 .. MaxCrashes DEF StoreInit, StoreTypeOK
<1>6. ImportsHold /\ CopyBalanced /\ DeletionBalanced
  BY DEF StoreInit, ImportsHold, CopyBalanced, DeletionBalanced
<1> QED
  BY <1>4, <1>5, <1>6 DEF SpaceInv

\* An importing thread's step.
LEMMA ImportBooks ==
    ASSUME FilesInv, SpaceInv, NEW d \in Docs, Importer(d)
    PROVE  SpaceInv'
<1> USE DEF SpaceInv, StoreTypeOK, ImportsHold, Holds, CopyBalanced, DeletionBalanced,
            uiVars, history
<1>0. db \in Database /\ Balanced(db)
  OBVIOUS
<1>1. CASE ImportCheck(d)
  <2>1. Balanced(db)' /\ (Copying => Balanced(tx)')
    BY <1>1, BalancedNext DEF ImportCheck
  <2> QED
    BY <1>1, <2>1 DEF ImportCheck, Fresh, ReleaseUsed
<1>2. CASE ImportReserve(d)
  <2> DEFINE clean == CleanupExpired(db)
  <2>1. /\ Balanced(clean) /\ \A o \in Ops : clean.res[o] \in {NoDoc, db.res[o]}
    BY <1>0, CleanupBalanced
  <2>2. /\ ~Copying /\ ~InDeletion /\ UNCHANGED <<tx, files, uiVars, crashes, history>>
        /\ expiring' \subseteq Ops
    BY <1>2 DEF ImportReserve, Unlocked, ForgetClosed
  <2>3. CASE /\ Fits(clean, d) /\ NewOp(db) # NoOp
             /\ db' = Reserve(clean, NewOp(db), d)
             /\ importer' = [importer EXCEPT ![d] = "reserved"]
             /\ importOp' = [importOp EXCEPT ![d] = NewOp(db)]
    <3> DEFINE o == NewOp(db)
    <3>1. o \in Ops /\ db.res[o] = NoDoc /\ \A e \in Docs : importOp[e] # o
      BY <2>3, NewOpUnused
    <3> HIDE DEF o, clean
    <3>2. clean.res[o] = NoDoc
      BY <2>1, <3>1
    <3>3. Balanced(db)'
      <4>1. Balanced(Reserve(clean, o, d))
        BY <2>1, <2>3, <3>1, <3>2, ReserveBalanced DEF o, clean
      <4> QED
        BY <2>2, <2>3, <4>1, BalancedNext DEF o, clean
    <3>4. clean \in Database /\ db'.res = [clean.res EXCEPT ![o] = d]
      BY <2>1, <2>3 DEF Balanced, Reserve, Database, o, clean
    <3>5. ImportsHold'
      <4> SUFFICES ASSUME NEW e \in Docs
                   PROVE  IF importer'[e] \in {"reserved", "stored", "releasing"}
                          THEN importOp'[e] \in Ops /\ db'.res[importOp'[e]] \in {NoDoc, e}
                          ELSE importOp'[e] = NoOp
        OBVIOUS
      <4>0. /\ importer' = [importer EXCEPT ![d] = "reserved"]
            /\ importOp' = [importOp EXCEPT ![d] = o]
        BY <2>3 DEF o
      <4>1. CASE e = d
        BY <4>0, <4>1, <3>1, <3>4, DatabaseParts
      <4>2. CASE e # d
        BY <4>0, <4>2, <3>1, <3>4, <2>1, DatabaseParts
      <4> QED
        BY <4>1, <4>2
    <3>6. /\ importer' \in [Docs -> ImporterSteps] /\ importOp' \in [Docs -> Ops \cup {NoOp}]
      BY <2>3, <3>1 DEF o
    <3>7. db' \in Database
      BY <3>3 DEF Balanced
    <3> QED
      BY <2>2, <3>3, <3>5, <3>6, <3>7
  <2>4. CASE importer' = [importer EXCEPT ![d] = "idle"] /\ UNCHANGED <<db, importOp>>
    <3>1. Balanced(db)'
      BY <1>0, <2>2, <2>4, BalancedNext
    <3>2. importOp[d] = NoOp
      BY <1>2 DEF ImportReserve
    <3> QED
      BY <2>2, <2>4, <3>1, <3>2
  <2> QED
    BY <1>2, <2>3, <2>4 DEF ImportReserve
<1>3. CASE StoreFile(d) \/ StoreFails(d) \/ ImportRecordFails(d)
  <2>1. Balanced(db)' /\ (Copying => Balanced(tx)')
    BY <1>3, BalancedNext DEF StoreFile, StoreFails, ImportRecordFails
  <2>2. /\ UNCHANGED <<db, tx, importOp, expiring, uiVars, crashes, history>>
        /\ files' \in [Docs -> Places]
        /\ importer[d] \in {"reserved", "stored"}
        /\ \E s \in {"stored", "releasing"} : importer' = [importer EXCEPT ![d] = s]
    BY <1>3 DEF StoreFile, StoreFails, ImportRecordFails
  <2> QED
    BY <2>1, <2>2 DEF ReleaseUsed
<1>4. CASE ImportRecord(d)
  <2> DEFINE o == importOp[d]
             c == CommitReservation(WithRow(db, d, "ACTIVE"), o)
  <2>1. /\ o \in Ops /\ db.res[o] = d /\ db.docs[d] = "NONE"
    BY <1>4 DEF ImportRecord, IsOpen, FilesInv
  <2>2. Balanced(c) /\ \A p \in Ops : c.res[p] \in {NoDoc, db.res[p]}
    BY <1>0, <2>1, CommitBalanced
  <2>3. /\ ~Copying /\ ~InDeletion /\ UNCHANGED <<tx, files, uiVars, crashes, history>>
        /\ expiring' \subseteq Ops /\ db' = c
        /\ importer' = [importer EXCEPT ![d] = "idle"]
        /\ importOp' = [importOp EXCEPT ![d] = NoOp]
    BY <1>4 DEF ImportRecord, Unlocked, ForgetClosed
  <2> HIDE DEF c
  <2>4. Balanced(db)' /\ db' \in Database
    BY <2>2, <2>3, BalancedNext DEF Balanced
  <2> QED
    BY <2>2, <2>3, <2>4
<1>5. CASE ImportRelease(d)
  <2> DEFINE o == importOp[d]
             c == ReleaseReservation(db, o)
  <2>1. o \in Ops
    BY <1>5 DEF ImportRelease
  <2>2. Balanced(c) /\ \A p \in Ops : c.res[p] \in {NoDoc, db.res[p]}
    BY <1>0, <2>1, ReleaseBalanced
  <2>3. /\ ~Copying /\ ~InDeletion /\ UNCHANGED <<tx, files, uiVars, crashes, history>>
        /\ expiring' \subseteq Ops /\ db' = c
        /\ \E s \in {"idle", "removing"} : importer' = [importer EXCEPT ![d] = s]
        /\ importOp' = [importOp EXCEPT ![d] = NoOp]
    BY <1>5 DEF ImportRelease, Unlocked, ForgetClosed
  <2> HIDE DEF c
  <2>4. Balanced(db)' /\ db' \in Database
    BY <2>2, <2>3, BalancedNext DEF Balanced
  <2> QED
    BY <2>2, <2>3, <2>4
<1>6. CASE ImportRemove(d) \/ ImportRemoveFails(d)
  <2>1. Balanced(db)' /\ (Copying => Balanced(tx)')
    BY <1>6, BalancedNext DEF ImportRemove, ImportRemoveFails
  <2>2. /\ UNCHANGED <<db, tx, importOp, expiring, uiVars, crashes, drifted, overplanned, damaged>>
        /\ files' \in [Docs -> Places] /\ strays' \subseteq Docs
        /\ importer[d] = "removing" /\ importer' = [importer EXCEPT ![d] = "idle"]
    BY <1>6 DEF ImportRemove, ImportRemoveFails
  <2> QED
    BY <2>1, <2>2 DEF ReleaseUsed
<1> QED
  BY <1>1, <1>2, <1>3, <1>4, <1>5, <1>6 DEF Importer

\* A step of a copy: its transaction balances on its own, then replaces the database.
LEMMA CopyBooks ==
    ASSUME FilesInv, SpaceInv,
           \/ \E source, d \in Docs : CopyBegin(source, d)
           \/ CopyStore \/ CopyCommit \/ CopyFails \/ CopyCommitFails
    PROVE  SpaceInv'
<1> USE DEF SpaceInv, StoreTypeOK, ImportsHold, Holds, CopyBalanced, DeletionBalanced, history
<1>0. db \in Database /\ Balanced(db)
  OBVIOUS
<1>1. ASSUME NEW source \in Docs, NEW d \in Docs, CopyBegin(source, d)
      PROVE  SpaceInv'
  <2> DEFINE clean == CleanupExpired(db)
             o == NewOp(db)
             c == Reserve(clean, o, d)
  <2>1. /\ Balanced(clean) /\ \A p \in Ops : clean.res[p] \in {NoDoc, db.res[p]}
    BY <1>0, CleanupBalanced
  <2>2. /\ ui = "idle" /\ Fits(clean, d) /\ o # NoOp /\ tx' = c /\ uiOp' = o
        /\ ui' = "copying" /\ uiDoc' = d
        /\ UNCHANGED <<db, files, importer, importOp, expiring, uiBytes, crashes, history>>
    BY <1>1 DEF CopyBegin
  <2>3. o \in Ops /\ db.res[o] = NoDoc /\ \A e \in Docs : importOp[e] # o
    BY <2>2, NewOpUnused
  <2> HIDE DEF o, clean, c
  <2>4. Balanced(c)
    <3>1. clean.res[o] = NoDoc
      BY <2>1, <2>3
    <3> QED
      BY <2>1, <2>2, <2>3, <3>1, ReserveBalanced DEF c
  <2>5. clean \in Database /\ c \in Database /\ c.res = [clean.res EXCEPT ![o] = d]
    BY <2>1, <2>4 DEF Balanced, Reserve, Database, c
  <2>6. Balanced(db)' /\ Balanced(tx)'
    BY <1>0, <2>2, <2>4, BalancedNext
  <2>7. tx'.res[o] = d /\ \A e \in Docs : importOp[e] = NoOp \/ tx'.res[importOp[e]] \in {NoDoc, e}
    <3>1. clean.res \in [Ops -> Docs \cup {NoDoc}]
      BY <2>5, DatabaseParts
    <3>2. \A e \in Docs : importOp[e] = NoOp \/ db.res[importOp[e]] \in {NoDoc, e}
      OBVIOUS
    <3> QED
      BY <2>1, <2>2, <2>3, <2>5, <3>1, <3>2
  <2>8. \A e \in Docs : importOp[e] = NoOp \/ importOp[e] \in Ops
    OBVIOUS
  <2> QED
    BY <2>2, <2>3, <2>5, <2>6, <2>7, <2>8
<1>2. CASE CopyStore
  <2>1. Copying /\ uiDoc \in Docs
    BY <1>2 DEF CopyStore, FilesInv
  <2>2. Balanced(db)' /\ Balanced(tx)'
    BY <1>2, <2>1, BalancedNext DEF CopyStore
  <2> QED
    BY <1>2, <2>1, <2>2 DEF CopyStore
<1>3. CASE CopyCommit
  <2> DEFINE c == CommitReservation(WithRow(tx, uiDoc, "ACTIVE"), uiOp)
  <2>1. /\ Balanced(tx) /\ uiDoc \in Docs /\ uiOp \in Ops /\ tx.res[uiOp] = uiDoc
        /\ tx.docs[uiDoc] = "NONE"
    BY <1>3 DEF CopyCommit, FilesInv
  <2>2. Balanced(c) /\ \A p \in Ops : c.res[p] \in {NoDoc, tx.res[p]}
    BY <2>1, CommitBalanced
  <2>3. /\ db' = c /\ tx' = NoTx /\ ui' = "idle" /\ uiDoc' = NoDoc /\ uiOp' = NoOp
        /\ expiring' \subseteq Ops
        /\ UNCHANGED <<files, importer, importOp, uiBytes, crashes, history>>
    BY <1>3 DEF CopyCommit, EndTransaction, ForgetClosed
  <2> HIDE DEF c
  <2>4. Balanced(db)' /\ db' \in Database
    BY <2>2, <2>3, BalancedNext DEF Balanced
  <2>5. \A d \in Docs : importOp[d] = NoOp \/ Holds(tx, d)
    BY <1>3 DEF CopyCommit
  <2> QED
    BY <2>2, <2>3, <2>4, <2>5, StoreNullAssumption
<1>4. CASE CopyFails \/ CopyCommitFails
  <2>1. uiDoc \in Docs
    BY <1>4 DEF CopyFails, CopyCommitFails, FilesInv
  <2>2. /\ tx' = NoTx /\ ui' = "idle" /\ uiDoc' = NoDoc /\ uiOp' = NoOp
        /\ expiring' \subseteq Ops /\ files' \in [Docs -> Places] /\ strays' \subseteq Docs
        /\ UNCHANGED <<db, importer, importOp, uiBytes, crashes, drifted, overplanned, damaged>>
    BY <1>4, <2>1 DEF CopyFails, CopyCommitFails, EndTransaction, ForgetClosed
  <2>3. Balanced(db)'
    BY <1>0, <2>2, BalancedNext
  <2> QED
    BY <2>2, <2>3
<1> QED
  BY <1>1, <1>2, <1>3, <1>4

\* A row that goes takes its bytes with it, as long as the total is not blamed.
LEMMA DeleteBalanced ==
    ASSUME NEW b, Balanced(b), NEW d \in Docs, HasRow(b, d), NEW c \in Database,
           c.docs = [b.docs EXCEPT ![d] = "DELETED"], c.res = b.res,
           c.quota = b.quota, c.reserved = b.reserved, c.used = ReleaseUsed(b, d).used
    PROVE  Balanced(c)
<1>1. b \in Database /\ Size[d] \in Nat
  BY SizeAssumption DEF Balanced
<1>2. Rows(c) = Rows(b) \ {d} /\ d \in Rows(b)
  BY <1>1, DatabaseParts DEF Rows, HasRow
<1>3. Reservations(c) = Reservations(b)
  BY DEF Reservations
<1>4. ReservedBytes(c, Reservations(c)) = ReservedBytes(b, Reservations(b))
  BY <1>3 DEF ReservedBytes
<1>5. c.used = IF b.used >= Size[d] THEN b.used - Size[d] ELSE 0
  BY <1>1 DEF ReleaseUsed, Database
<1> HIDE DEF Rows, HasRow
<1>6. IsFiniteSet(Rows(b)) /\ Rows(b) \in SUBSET Docs /\ IsFiniteSet(Rows(c))
  <2>1. IsFiniteSet(Rows(b)) /\ Rows(b) \in SUBSET Docs
    BY <1>1, DatabaseParts DEF Balanced
  <2>2. IsFiniteSet(Rows(b) \ {d})
    BY <2>1, FS_Difference
  <2> QED
    BY <1>2, <2>1, <2>2
<1>7. BytesOf(Rows(c)) = BytesOf(Rows(b)) - Size[d] /\ BytesOf(Rows(b)) >= Size[d]
  BY <1>2, <1>6, DocumentBytes
<1>8. ~drifted => c.used = BytesOf(Rows(c))
  BY <1>5, <1>7 DEF Balanced
<1>9. c.used <= b.used
  BY <1>1, <1>5, DatabaseParts
<1>10. ~drifted /\ ~overplanned => c.used + c.reserved <= c.quota
  <2>1. ~drifted /\ ~overplanned => b.used + b.reserved <= b.quota
    BY DEF Balanced
  <2>2. c.used \in Nat
    BY DatabaseParts
  <2> QED
    BY <1>1, <1>9, <2>1, <2>2, DatabaseParts
<1> QED
  BY <1>3, <1>4, <1>6, <1>8, <1>10 DEF Balanced

\* A step of a permanent deletion.
LEMMA DeletionBooks ==
    ASSUME FilesInv, SpaceInv,
           \/ \E d \in Docs : DeleteBegin(d)
           \/ DeleteRecord \/ DeleteFails \/ DeleteUnlink
           \/ DeleteCommit \/ DeleteCommitFails
    PROVE  SpaceInv'
<1> USE DEF SpaceInv, StoreTypeOK, ImportsHold, Holds, CopyBalanced, DeletionBalanced, history
<1>0. db \in Database /\ Balanced(db)
  OBVIOUS
<1>1. ASSUME NEW d \in Docs, DeleteBegin(d)
      PROVE  SpaceInv'
  <2>1. Balanced(db)'
    BY <1>0, <1>1, BalancedNext DEF DeleteBegin
  <2> QED
    BY <1>1, <2>1 DEF DeleteBegin
<1>2. CASE DeleteRecord
  <2>1. /\ ui = "deleting" /\ ui' = "deleted" /\ uiDoc \in Docs
        /\ UNCHANGED <<db, files, importer, importOp, expiring, uiDoc, uiOp, uiBytes,
                       crashes, history>>
        /\ tx' = ReleaseUsed(WithRow(tx, uiDoc, "DELETED"), uiDoc)
    BY <1>2 DEF DeleteRecord, FilesInv
  <2>2. tx \in Database /\ tx.used = db.used /\ tx.res = db.res /\ tx.reserved = db.reserved
        /\ tx.quota = db.quota
    BY <2>1
  <2>3. Size[uiDoc] \in Nat
    BY <2>1, SizeAssumption
  <2>4. /\ tx' \in Database /\ tx'.res = tx.res /\ tx'.reserved = tx.reserved
        /\ tx'.quota = tx.quota
        /\ tx'.used = IF tx.used >= Size[uiDoc] THEN tx.used - Size[uiDoc] ELSE 0
    <3> DEFINE e == WithRow(tx, uiDoc, "DELETED")
    <3>1. e \in Database /\ e.res = tx.res /\ e.reserved = tx.reserved /\ e.quota = tx.quota
          /\ e.used = tx.used
      BY <2>1, <2>2 DEF WithRow, Database
    <3> HIDE DEF e
    <3>2. ReleaseUsed(e, uiDoc) \in Database
      <4>1. (IF e.used >= Size[uiDoc] THEN e.used - Size[uiDoc] ELSE 0) \in Nat
        BY <2>3, <3>1, DatabaseParts
      <4> QED
        BY <3>1, <4>1 DEF ReleaseUsed, Database
    <3> QED
      BY <2>1, <3>1, <3>2 DEF ReleaseUsed, Database, e
  <2>5. ReleaseUsed(db, uiDoc).used = IF db.used >= Size[uiDoc] THEN db.used - Size[uiDoc] ELSE 0
    BY <1>0 DEF ReleaseUsed, Database
  <2>6. Balanced(db)'
    BY <1>0, <2>1, BalancedNext
  <2>7. (ReleaseUsed(db, uiDoc).used)' = ReleaseUsed(db, uiDoc).used
    BY <2>1
  <2> QED
    BY <2>1, <2>2, <2>4, <2>5, <2>6, <2>7
<1>3. CASE DeleteFails \/ DeleteCommitFails
  <2>1. uiDoc \in Docs
    BY <1>3 DEF DeleteFails, DeleteCommitFails, FilesInv
  <2>2. /\ tx' = NoTx /\ ui' = "idle" /\ uiDoc' = NoDoc /\ uiOp' = NoOp
        /\ expiring' \subseteq Ops /\ files' \in [Docs -> Places] /\ damaged' \subseteq Docs
        /\ UNCHANGED <<db, importer, importOp, uiBytes, crashes, drifted, overplanned, strays>>
    BY <1>3, <2>1 DEF DeleteFails, DeleteCommitFails, EndTransaction, ForgetClosed
  <2>3. Balanced(db)'
    BY <1>0, <2>2, BalancedNext
  <2> QED
    BY <2>2, <2>3
<1>4. CASE DeleteUnlink
  <2>1. Balanced(db)'
    BY <1>0, <1>4, BalancedNext DEF DeleteUnlink
  <2>2. (ReleaseUsed(db, uiDoc).used)' = ReleaseUsed(db, uiDoc).used
    BY <1>4 DEF DeleteUnlink
  <2> QED
    BY <1>4, <2>1, <2>2 DEF DeleteUnlink
<1>5. CASE DeleteCommit
  <2>1. /\ db' = tx /\ tx' = NoTx /\ ui' = "idle" /\ uiDoc' = NoDoc /\ uiOp' = NoOp
        /\ expiring' \subseteq Ops
        /\ UNCHANGED <<files, importer, importOp, uiBytes, crashes, history>>
    BY <1>5 DEF DeleteCommit, EndTransaction, ForgetClosed
  <2>2. Balanced(tx)
    <3>1. /\ uiDoc \in Docs /\ HasRow(db, uiDoc) /\ tx \in Database
          /\ tx.docs = [db.docs EXCEPT ![uiDoc] = "DELETED"] /\ tx.res = db.res
          /\ tx.quota = db.quota /\ tx.reserved = db.reserved
          /\ tx.used = ReleaseUsed(db, uiDoc).used
      BY <1>5 DEF DeleteCommit, FilesInv
    <3> QED
      BY <1>0, <3>1, DeleteBalanced
  <2>3. Balanced(db)' /\ db' \in Database /\ db'.res = db.res
    BY <1>5, <2>1, <2>2, BalancedNext DEF Balanced, DeleteCommit
  <2> QED
    BY <2>1, <2>3
<1> QED
  BY <1>1, <1>2, <1>3, <1>4, <1>5

\* Trash keeps the bytes; a recalculation and a change of plan are blamed when
\* they write what no longer holds.
LEMMA CatalogueBooks ==
    ASSUME SpaceInv,
           \/ \E d \in Docs : TrashDocument(d) \/ RestoreDocument(d)
           \/ RecalculateBegin \/ RecalculateWrite
           \/ \E plan \in Plans : PlanCheck(plan)
           \/ PlanAssign
    PROVE  SpaceInv'
<1> USE DEF SpaceInv, StoreTypeOK, ImportsHold, Holds, CopyBalanced, DeletionBalanced,
            uiVars, history
<1>0. db \in Database /\ Balanced(db)
  OBVIOUS
<1>1. ASSUME NEW d \in Docs, TrashDocument(d) \/ RestoreDocument(d)
      PROVE  SpaceInv'
  <2>1. PICK s \in {"ACTIVE", "TRASHED"} : db' = WithRow(db, d, s)
    BY <1>1 DEF TrashDocument, RestoreDocument
  <2>2. /\ ui = "idle" /\ HasRow(db, d)
        /\ UNCHANGED <<tx, files, importer, importOp, expiring, uiVars, crashes, history>>
    BY <1>1 DEF TrashDocument, RestoreDocument
  <2> DEFINE c == WithRow(db, d, s)
  <2>3. c \in Database /\ c.docs = [db.docs EXCEPT ![d] = s] /\ c.res = db.res
        /\ c.quota = db.quota /\ c.used = db.used /\ c.reserved = db.reserved
    BY <1>0 DEF WithRow, Database
  <2>4. Rows(c) = Rows(db)
    BY <1>0, <2>2, <2>3, DatabaseParts
  <2>5. Reservations(c) = Reservations(db)
        /\ ReservedBytes(c, Reservations(c)) = ReservedBytes(db, Reservations(db))
    BY <2>3 DEF Reservations, ReservedBytes
  <2> HIDE DEF c
  <2>6. Balanced(c)
    BY <1>0, <2>3, <2>4, <2>5 DEF Balanced
  <2>7. Balanced(db)' /\ db' = c
    BY <2>1, <2>2, <2>6, BalancedNext DEF c
  <2> QED
    BY <2>2, <2>3, <2>7
<1>2. CASE RecalculateBegin
  <2> DEFINE kept == {d \in Rows(db) : files[d] = "stored"}
  <2>1. BytesOf(kept) \in Nat
    <3>1. kept \in SUBSET Rows(db) /\ Rows(db) \in SUBSET Docs /\ IsFiniteSet(Rows(db))
      BY <1>0, DatabaseParts DEF Balanced
    <3>2. kept \in SUBSET Docs /\ IsFiniteSet(kept)
      <4> HIDE DEF kept, Rows
      <4> QED
        BY <3>1, FS_Subset
    <3> HIDE DEF kept
    <3> QED
      BY <3>2, DocumentBytes
  <2>2. /\ ui' = "measuring" /\ uiBytes' = BytesOf(kept)
        /\ UNCHANGED <<db, tx, files, importer, importOp, expiring, uiDoc, uiOp, crashes, history>>
    BY <1>2 DEF RecalculateBegin
  <2>3. Balanced(db)'
    BY <1>0, <2>2, BalancedNext
  <2> HIDE DEF kept
  <2> QED
    BY <2>1, <2>2, <2>3
<1>3. CASE RecalculateWrite
  <2> DEFINE c == [db EXCEPT !.used = uiBytes]
  <2>1. /\ db' = c /\ ui' = "idle" /\ uiBytes' = 0
        /\ drifted' = (drifted \/ uiBytes # BytesOf(Rows(db)))
        /\ UNCHANGED <<tx, files, importer, importOp, expiring, uiDoc, uiOp, crashes,
                       overplanned, damaged, strays>>
    BY <1>3 DEF RecalculateWrite
  <2>2. c \in Database /\ c.docs = db.docs /\ c.res = db.res /\ c.quota = db.quota
        /\ c.used = uiBytes /\ c.reserved = db.reserved
    BY <1>0 DEF Database
  <2>3. Rows(c) = Rows(db) /\ Reservations(c) = Reservations(db)
        /\ ReservedBytes(c, Reservations(c)) = ReservedBytes(db, Reservations(db))
    BY <2>2 DEF Reservations, ReservedBytes
  <2> HIDE DEF c, Rows
  <2>4. ~drifted' => c.used = BytesOf(Rows(c)) /\ c.used = db.used
    BY <1>0, <2>1, <2>2, <2>3 DEF Balanced
  <2>5. Balanced(db)'
    BY <1>0, <2>1, <2>2, <2>3, <2>4 DEF Balanced
  <2>6. drifted' \in BOOLEAN
    BY <2>1
  <2> QED
    BY <2>1, <2>2, <2>5, <2>6
<1>4. ASSUME NEW plan \in Plans, PlanCheck(plan)
      PROVE  SpaceInv'
  <2>1. Balanced(db)'
    BY <1>0, <1>4, BalancedNext DEF PlanCheck
  <2> QED
    BY <1>4, <2>1, PlansAssumption DEF PlanCheck
<1>5. CASE PlanAssign
  <2> DEFINE c == [db EXCEPT !.quota = uiBytes]
  <2>1. /\ db' = c /\ ui' = "idle" /\ uiBytes' = 0
        /\ overplanned' = (overplanned \/ db.used + db.reserved > uiBytes)
        /\ UNCHANGED <<tx, files, importer, importOp, expiring, uiDoc, uiOp, crashes,
                       drifted, damaged, strays>>
    BY <1>5 DEF PlanAssign
  <2>2. c \in Database /\ c.docs = db.docs /\ c.res = db.res /\ c.quota = uiBytes
        /\ c.used = db.used /\ c.reserved = db.reserved
    BY <1>0 DEF Database
  <2>3. Rows(c) = Rows(db) /\ Reservations(c) = Reservations(db)
        /\ ReservedBytes(c, Reservations(c)) = ReservedBytes(db, Reservations(db))
    BY <2>2 DEF Reservations, ReservedBytes
  <2> HIDE DEF c, Rows
  <2>4. ~overplanned' => c.used + c.reserved <= c.quota
    <3>1. uiBytes \in Nat /\ db.used \in Nat /\ db.reserved \in Nat
      BY <1>0, DatabaseParts
    <3>2. ~overplanned' => ~(db.used + db.reserved > uiBytes)
      BY <2>1
    <3> QED
      BY <2>2, <3>1, <3>2
  <2>5. Balanced(db)'
    BY <1>0, <2>1, <2>2, <2>3, <2>4 DEF Balanced
  <2>6. overplanned' \in BOOLEAN
    BY <2>1
  <2> QED
    BY <2>1, <2>2, <2>5, <2>6
<1> QED
  BY <1>1, <1>2, <1>3, <1>4, <1>5

\* Every step keeps the books.
LEMMA BooksInductive == FilesInv /\ SpaceInv /\ [StoreNext]_storeVars => SpaceInv'
<1> SUFFICES ASSUME FilesInv, SpaceInv, [StoreNext]_storeVars
             PROVE  SpaceInv'
  OBVIOUS
<1> USE DEF SpaceInv, StoreTypeOK, ImportsHold, Holds, CopyBalanced, DeletionBalanced,
            uiVars, history
<1>1. ASSUME NEW d \in Docs, Importer(d)
      PROVE  SpaceInv'
  BY <1>1, ImportBooks
<1>2. ASSUME NEW o \in Ops, ReservationExpires(o)
      PROVE  SpaceInv'
  <2>1. Balanced(db)' /\ (Copying => Balanced(tx)')
    BY <1>2, BalancedNext DEF ReservationExpires
  <2> QED
    BY <1>2, <2>1 DEF ReservationExpires, ReleaseUsed
<1>3. CASE Interface
  BY <1>3, CopyBooks, DeletionBooks, CatalogueBooks DEF Interface
<1>4. CASE CrashAndRestart
  <2>1. Balanced(db)'
    BY <1>4, BalancedNext DEF CrashAndRestart
  <2>2. /\ tx' = NoTx /\ ui' = "idle" /\ uiDoc' = NoDoc /\ uiOp' = NoOp /\ uiBytes' = 0
        /\ importer' = [d \in Docs |-> "idle"] /\ importOp' = [d \in Docs |-> NoOp]
        /\ UNCHANGED <<db, files, expiring, drifted, overplanned>>
    BY <1>4 DEF CrashAndRestart
  <2>3. crashes' \in 0 .. MaxCrashes
    BY <1>4, StoreBoundAssumption DEF CrashAndRestart
  <2>4. damaged' \subseteq Docs /\ strays' \subseteq Docs
    BY <1>4 DEF CrashAndRestart, FilesInv
  <2> QED
    BY <2>1, <2>2, <2>3, <2>4
<1>5. CASE UNCHANGED storeVars
  <2>1. Balanced(db)' /\ (Copying => Balanced(tx)')
    BY <1>5, BalancedNext DEF storeVars
  <2> QED
    BY <1>5, <2>1 DEF storeVars, ReleaseUsed
<1> QED
  BY <1>1, <1>2, <1>3, <1>4, <1>5 DEF StoreNext

\* The totals of the organization are what its open reservations and its rows add
\* up to, and stay within the plan, for any documents, sizes, plans, reservations
\* and crashes: no commit, release, expiry or deletion counts anything twice,
\* until a recalculation or a change of plan writes what another thread has
\* overtaken (StorageQuotaService, organization_storage, storage_reservations).
THEOREM SpaceIsAccounted == StoreSpec => []SpaceAccounted
<1>1. StoreInit => FilesInv /\ SpaceInv
  BY FilesInitially, BooksInitially
<1>2. FilesInv /\ SpaceInv /\ [StoreNext]_storeVars => (FilesInv /\ SpaceInv)'
  BY FilesInductive, BooksInductive
<1>3. SpaceInv => SpaceAccounted
  BY DEF SpaceInv, Balanced, SpaceAccounted, ReservedAccounted, UsedAccounted, QuotaKept
<1> QED
  BY <1>1, <1>2, <1>3, PTL DEF StoreSpec

HIDE DEF Shape, ImportsFresh, CopyFresh, DeletionApart, RowHasFile, FileHasRow,
         Copying, InDeletion, HasRow, Rows, DocStatuses, Places, ImporterSteps,
         UiSteps

-----------------------------------------------------------------------------
(* CaptureWorkspace: lists of pages                                        *)

Edges == {"none", "sure", "unsure", "manual", "reset"}
Page == [id: Nat, image: BOOLEAN, edges: Edges, turn: 0 .. 3]

\* The numbers up to n that are chosen can be put in order.
Ordered(n) ==
  \A S \in SUBSET (1 .. n) :
    \E f \in [1 .. Cardinality(S) -> S] :
      \A i, j \in 1 .. Cardinality(S) : i < j => f[i] < f[j]

LEMMA OrderedNone == Ordered(0)
<1> SUFFICES ASSUME NEW S \in SUBSET (1 .. 0)
             PROVE  \E f \in [1 .. Cardinality(S) -> S] :
                      \A i, j \in 1 .. Cardinality(S) : i < j => f[i] < f[j]
  BY DEF Ordered
<1>1. S = {}
  OBVIOUS
<1>2. Cardinality(S) = 0
  BY <1>1, FS_EmptySet
<1>3. 1 .. Cardinality(S) = {}
  BY <1>2
<1> DEFINE f == [k \in {} |-> k]
<1>4. f \in [1 .. Cardinality(S) -> S]
  BY <1>1, <1>3
<1> QED
  BY <1>3, <1>4

LEMMA OrderedOneMore ==
  ASSUME NEW n \in Nat, Ordered(n)
  PROVE  Ordered(n + 1)
<1> SUFFICES ASSUME NEW S \in SUBSET (1 .. n + 1)
             PROVE  \E f \in [1 .. Cardinality(S) -> S] :
                      \A i, j \in 1 .. Cardinality(S) : i < j => f[i] < f[j]
  BY DEF Ordered
<1>1. CASE n + 1 \notin S
  <2>1. S \in SUBSET (1 .. n)
    BY <1>1
  <2> QED
    BY <2>1 DEF Ordered
<1>2. CASE n + 1 \in S
  <2> DEFINE T == S \ {n + 1}
             c == Cardinality(T)
  <2>1. T \in SUBSET (1 .. n)
    OBVIOUS
  <2>2. IsFiniteSet(1 .. n) /\ IsFiniteSet(1 .. n + 1)
    BY FS_Interval
  <2>3. IsFiniteSet(S) /\ IsFiniteSet(T)
    BY <2>1, <2>2, FS_Subset
  <2>4. Cardinality(S) \in Nat /\ c \in Nat
    BY <2>3, FS_CardinalityType
  <2>5. c = Cardinality(S) - 1
    BY <1>2, <2>3, FS_RemoveElement
  <2>6. PICK f \in [1 .. c -> T] : \A i, j \in 1 .. c : i < j => f[i] < f[j]
    BY <2>1 DEF Ordered
  <2> HIDE DEF c
  <2> DEFINE g == [k \in 1 .. Cardinality(S) |->
                     IF k = c + 1 THEN n + 1 ELSE f[k]]
  <2>7. \A k \in 1 .. Cardinality(S) : k # c + 1 => k \in 1 .. c
    BY <2>4, <2>5
  <2>8. g \in [1 .. Cardinality(S) -> S]
    BY <1>2, <2>6, <2>7
  <2>9. ASSUME NEW i \in 1 .. Cardinality(S), NEW j \in 1 .. Cardinality(S),
               i < j
        PROVE  g[i] < g[j]
    <3>1. i \in 1 .. c
      BY <2>4, <2>5, <2>9
    <3>2. CASE j = c + 1
      <4>1. f[i] \in T
        BY <2>6, <3>1
      <4>2. f[i] \in 1 .. n
        BY <2>1, <4>1
      <4>3. g[i] = f[i] /\ g[j] = n + 1
        BY <2>4, <3>1, <3>2
      <4> QED
        BY <4>2, <4>3
    <3>3. CASE j # c + 1
      <4>1. j \in 1 .. c
        BY <2>7, <3>3
      <4>2. g[i] = f[i] /\ g[j] = f[j]
        BY <2>4, <3>1, <4>1
      <4> QED
        BY <2>6, <2>9, <3>1, <4>1, <4>2
    <3> QED
      BY <3>2, <3>3
  <2> QED
    BY <2>8, <2>9
<1> QED
  BY <1>1, <1>2

\* By contradiction, from the smallest n for which it fails.
LEMMA OrderedAll == \A n \in Nat : Ordered(n)
<1> DEFINE Bad == {n \in Nat : ~Ordered(n)}
           Less == OpToRel(<, Nat)
<1>1. \A x, y \in Nat : x < y => <<x, y>> \in Less
  BY DEF OpToRel
<1>2. IsWellFoundedOn(Less, Nat)
  BY NatLessThanWellFounded
<1> HIDE DEF Less
<1> SUFFICES ASSUME Bad # {} PROVE FALSE
  OBVIOUS
<1>3. PICK n \in Bad : \A m \in Bad : ~(<<m, n>> \in Less)
  BY <1>2, WFMin
<1>4. n # 0
  BY OrderedNone
<1>5. n - 1 \in Nat /\ n - 1 < n
  BY <1>4
<1>6. n - 1 \notin Bad
  BY <1>1, <1>3, <1>5
<1>7. Ordered(n - 1 + 1)
  BY <1>5, <1>6, OrderedOneMore
<1>8. n - 1 + 1 = n
  OBVIOUS
<1> QED
  BY <1>7, <1>8

\* The rows of a list that are kept come from it, each once.
LEMMA KeepIsPart ==
  ASSUME NEW ps \in Seq(Page), NEW chosen
  PROVE  LET S == chosen \cap DOMAIN ps
         IN  /\ Cardinality(S) \in Nat
             /\ InOrder(S) \in [1 .. Cardinality(S) -> S]
             /\ \A i, j \in 1 .. Cardinality(S) :
                  InOrder(S)[i] = InOrder(S)[j] => i = j
             /\ Keep(ps, chosen) \in Seq(Page)
             /\ DOMAIN Keep(ps, chosen) = 1 .. Cardinality(S)
             /\ \A k \in 1 .. Cardinality(S) :
                  Keep(ps, chosen)[k] = ps[InOrder(S)[k]]
<1> DEFINE S == chosen \cap DOMAIN ps
           c == Cardinality(S)
           f == InOrder(S)
<1>1. Len(ps) \in Nat /\ DOMAIN ps = 1 .. Len(ps)
  BY LenProperties
<1>2. S \in SUBSET (1 .. Len(ps))
  BY <1>1
<1>3. IsFiniteSet(1 .. Len(ps))
  BY <1>1, FS_Interval
<1>4. c \in Nat
  BY <1>2, <1>3, FS_Subset, FS_CardinalityType
<1>5. Ordered(Len(ps))
  BY <1>1, OrderedAll
<1>6. /\ f \in [1 .. c -> S]
      /\ \A i, j \in 1 .. c : i < j => f[i] < f[j]
  BY <1>2, <1>5 DEF Ordered, InOrder
<1>7. Keep(ps, chosen) = [k \in 1 .. c |-> ps[f[k]]]
  BY DEF Keep
<1> HIDE DEF f, c
<1>8. \A k \in 1 .. c : f[k] \in S
  BY <1>6
<1>9. \A k \in 1 .. c : f[k] \in Nat
  BY <1>2, <1>8
<1>10. \A i, j \in 1 .. c : f[i] = f[j] => i = j
  <2> SUFFICES ASSUME NEW i \in 1 .. c, NEW j \in 1 .. c, f[i] = f[j]
               PROVE  i = j
    OBVIOUS
  <2>1. ~(i < j) /\ ~(j < i)
    BY <1>6, <1>9
  <2> QED
    BY <1>4, <2>1
<1>11. \A k \in 1 .. c : ps[f[k]] \in Page
  BY <1>1, <1>8, ElementOfSeq
<1>12. [k \in 1 .. c |-> ps[f[k]]] \in Seq(Page)
  BY <1>4, <1>11
<1>13. DOMAIN [k \in 1 .. c |-> ps[f[k]]] = 1 .. c
  OBVIOUS
<1> QED
  BY <1>4, <1>6, <1>7, <1>10, <1>12, <1>13 DEF f, c

-----------------------------------------------------------------------------
(* The invariant of the workspace                                          *)

Preview == [kind: {"render"}, pages: Seq(Page), crop: BOOLEAN,
            fresh: BOOLEAN, ended: BOOLEAN]
Scan == [kind: {"scan"}, page: Nat, fresh: BOOLEAN, ended: BOOLEAN]
EdgeSearch == [page: Nat, from: Edges, fresh: BOOLEAN, ended: BOOLEAN]

CaptureShape ==
  /\ pages \in Seq(Page)
  /\ shown \in [pages: Seq(Page), crop: BOOLEAN]
  /\ made \in Nat /\ floor \in Nat /\ floor <= made
  /\ crop \in BOOLEAN /\ pending \in BOOLEAN
  /\ blind \in BOOLEAN /\ closing \in BOOLEAN
  /\ render \in Preview \cup {NoWorker}
  /\ scan \in Scan \cup {NoWorker}
  /\ detections \in Seq(EdgeSearch)

\* No two pages have the same id, and ids are given in order.
PagesApart ==
  /\ \A i \in DOMAIN pages : pages[i].id <= made
  /\ \A i, j \in DOMAIN pages : pages[i].id = pages[j].id => i = j

\* The id of the page being read is nobody else's.
ScanApart ==
  scan # NoWorker /\ ~scan.ended =>
    /\ scan.page <= made
    /\ \A i \in DOMAIN pages : pages[i].id # scan.page
    /\ \A k \in DOMAIN detections : detections[k].page # scan.page
    /\ scan.fresh => scan.page > floor

Awaited(d) == d.fresh /\ ~d.ended

\* Of a page one detection at most is awaited, and its edges are those that
\* this detection found.
DetectionsApart ==
  /\ \A k \in DOMAIN detections : detections[k].page <= made
  /\ \A j, k \in DOMAIN detections :
       /\ Awaited(detections[j]) /\ Awaited(detections[k])
       /\ detections[j].page = detections[k].page
       => j = k
  /\ \A k \in DOMAIN detections, i \in DOMAIN pages :
       Awaited(detections[k]) /\ pages[i].id = detections[k].page
         => pages[i].edges = detections[k].from

\* A preview that counts is of the pages as they are, and one that does not is
\* followed by another.
PreviewFollows ==
  /\ render # NoWorker /\ render.fresh /\ ~render.ended =>
       render.pages = pages /\ render.crop = crop
  /\ render # NoWorker /\ ~render.fresh => pending \/ closing \/ pages = <<>>
  /\ /\ render = NoWorker \/ (render.fresh /\ render.ended)
     /\ ~pending /\ ~blind /\ ~closing /\ pages # <<>>
     => Shows(shown, pages)

CaptureInv ==
  /\ CaptureShape
  /\ PagesApart
  /\ ScanApart
  /\ DetectionsApart
  /\ PreviewFollows
  /\ ClearedStaysCleared

-----------------------------------------------------------------------------
(* What commands do to the pages                                           *)

\* The pages are some of those there were, with the same edges, each once.
Rearranged ==
  /\ pages' \in Seq(Page)
  /\ \A j \in DOMAIN pages' : \E i \in DOMAIN pages :
       pages'[j].id = pages[i].id /\ pages'[j].edges = pages[i].edges
  /\ \A i, j \in DOMAIN pages' : pages'[i].id = pages'[j].id => i = j

LEMMA PageTyped == \A ps \in Seq(Page) :
  /\ DOMAIN ps = 1 .. Len(ps) /\ Len(ps) \in Nat
  /\ \A k \in DOMAIN ps :
       /\ ps[k] \in Page /\ ps[k].id \in Nat /\ ps[k].edges \in Edges
       /\ ps[k].image \in BOOLEAN /\ ps[k].turn \in 0 .. 3
<1> TAKE ps \in Seq(Page)
<1>1. DOMAIN ps = 1 .. Len(ps) /\ Len(ps) \in Nat
  BY LenProperties
<1>2. \A k \in DOMAIN ps : ps[k] \in Page
  BY <1>1, ElementOfSeq
<1> QED
  BY <1>1, <1>2 DEF Page

LEMMA RemovingRearranges ==
  ASSUME CaptureInv, NEW chosen, RemovePages(chosen)
  PROVE  Rearranged
<1> DEFINE S == (DOMAIN pages \ chosen) \cap DOMAIN pages
           f == InOrder(S)
           c == Cardinality(S)
<1>1. pages \in Seq(Page)
  BY DEF CaptureInv, CaptureShape
<1>2. pages' = Keep(pages, DOMAIN pages \ chosen)
  BY DEF RemovePages
<1>3. /\ f \in [1 .. c -> S]
      /\ \A i, j \in 1 .. c : f[i] = f[j] => i = j
      /\ pages' \in Seq(Page)
      /\ DOMAIN pages' = 1 .. c
      /\ \A k \in 1 .. c : pages'[k] = pages[f[k]]
  BY <1>1, <1>2, KeepIsPart
<1> HIDE DEF f, c
<1>4. \A k \in 1 .. c : f[k] \in DOMAIN pages
  BY <1>3
<1> QED
  BY <1>3, <1>4 DEF Rearranged, CaptureInv, PagesApart

LEMMA TurningRearranges ==
  ASSUME CaptureInv, NEW chosen, Rotate(chosen)
  PROVE  Rearranged
<1>1. pages \in Seq(Page)
  BY DEF CaptureInv, CaptureShape
<1>2. ASSUME NEW p \in Page
      PROVE  /\ [p EXCEPT !.turn = (@ + 1) % 4] \in Page
             /\ [p EXCEPT !.turn = (@ + 1) % 4].id = p.id
             /\ [p EXCEPT !.turn = (@ + 1) % 4].edges = p.edges
  <2>1. (p.turn + 1) % 4 \in 0 .. 3
    BY DEF Page
  <2> QED
    BY <2>1 DEF Page
<1> DEFINE new(k) == IF k \in chosen
                     THEN [pages[k] EXCEPT !.turn = (@ + 1) % 4] ELSE pages[k]
<1>3. \A k \in DOMAIN pages :
        /\ new(k) \in Page /\ new(k).id = pages[k].id
        /\ new(k).edges = pages[k].edges
  BY <1>1, <1>2, PageTyped
<1>4. pages' = [k \in DOMAIN pages |-> new(k)]
  BY DEF Rotate
<1> HIDE DEF new
<1>5. pages' \in Seq(Page) /\ DOMAIN pages' = DOMAIN pages
  BY <1>1, <1>3, <1>4, PageTyped
<1> QED
  BY <1>3, <1>4, <1>5 DEF Rearranged, CaptureInv, PagesApart

\* As many ids as there are pages, and none forgotten: none comes twice.
LEMMA MovingRearranges ==
  ASSUME CaptureInv, NEW ids \in Seq(Nat), Reorder(ids)
  PROVE  Rearranged
<1> DEFINE n == Len(pages)
           ofPage == [k \in 1 .. n |-> pages[k].id]
           ofRow == [k \in 1 .. n |-> ids[k]]
<1>1. /\ n \in Nat /\ DOMAIN pages = 1 .. n
      /\ \A k \in 1 .. n : pages[k] \in Page
  BY PageTyped DEF CaptureInv, CaptureShape
<1>2. Len(ids) = n /\ DOMAIN ids = 1 .. n /\ ToSet(ids) = Ids(pages)
  BY LenProperties DEF Reorder
<1>3. IsFiniteSet(1 .. n)
  BY <1>1, FS_Interval
<1>4. ofPage \in Surjection(1 .. n, Ids(pages))
  BY <1>1 DEF Ids, Surjection
<1>5. ofPage \in Injection(1 .. n, Ids(pages))
  BY <1>1, <1>4 DEF Injection, IsInjective, Surjection, CaptureInv, PagesApart
<1>6. Cardinality(Ids(pages)) = Cardinality(1 .. n)
  BY <1>3, <1>4, <1>5, FS_Surjection
<1>7. ofRow \in Surjection(1 .. n, Ids(pages))
  <2>1. Ids(pages) = {ids[k] : k \in 1 .. n}
    BY <1>2 DEF ToSet
  <2> QED
    BY <2>1 DEF Surjection
<1>8. ofRow \in Injection(1 .. n, Ids(pages))
  BY <1>3, <1>6, <1>7, FS_SurjSameCardinalityImpliesInj
<1>9. \A i, j \in 1 .. n : ids[i] = ids[j] => i = j
  BY <1>8 DEF Injection, IsInjective
<1>10. \A k \in 1 .. n : ids[k] \in Ids(pages)
  BY <1>2 DEF ToSet
<1> DEFINE at(k) == IndexOf(pages, ids[k])
<1>11. \A k \in 1 .. n : at(k) \in 1 .. n /\ pages[at(k)].id = ids[k]
  <2> TAKE k \in 1 .. n
  <2>1. \E m \in DOMAIN pages : pages[m].id = ids[k]
    BY <1>10 DEF Ids
  <2>2. at(k) = CHOOSE m \in DOMAIN pages : pages[m].id = ids[k]
    BY <1>10 DEF IndexOf
  <2> QED
    BY <1>1, <2>1, <2>2
<1>12. pages' = [k \in 1 .. n |-> pages[at(k)]]
  BY <1>2 DEF Reorder
<1> HIDE DEF at
<1>13. pages' \in Seq(Page) /\ DOMAIN pages' = 1 .. n
  BY <1>1, <1>11, <1>12
<1>14. \A k \in 1 .. n : pages'[k] = pages[at(k)]
  BY <1>12
<1> QED
  BY <1>1, <1>9, <1>11, <1>13, <1>14 DEF Rearranged

-----------------------------------------------------------------------------
(* What the parts of a step keep                                           *)

\* Pages go, or stay in some order, or come with new ids.
IdsContinue ==
  /\ pages' \in Seq(Page) /\ made' \in Nat /\ made <= made'
  /\ \A j \in DOMAIN pages' :
       /\ pages'[j].id <= made'
       /\ pages'[j].id > made \/ \E i \in DOMAIN pages : pages'[j].id = pages[i].id
  /\ \A i, j \in DOMAIN pages' : pages'[i].id = pages'[j].id => i = j

\* Those that stay keep their edges.
EdgesContinue ==
  \A j \in DOMAIN pages' :
    \/ pages'[j].id > made
    \/ \E i \in DOMAIN pages :
         pages'[j].id = pages[i].id /\ pages'[j].edges = pages[i].edges

\* Searches are for pages searched before, or that are there.
SearchesContinue ==
  /\ detections' \in Seq(EdgeSearch)
  /\ \A k \in DOMAIN detections' :
       \/ \E m \in DOMAIN detections : detections'[k].page = detections[m].page
       \/ \E i \in DOMAIN pages : detections'[k].page = pages[i].id

LEMMA SearchTyped == \A ds \in Seq(EdgeSearch) :
  /\ DOMAIN ds = 1 .. Len(ds) /\ Len(ds) \in Nat
  /\ \A k \in DOMAIN ds :
       /\ ds[k] \in EdgeSearch /\ ds[k].page \in Nat
       /\ ds[k].fresh \in BOOLEAN /\ ds[k].ended \in BOOLEAN
<1> TAKE ds \in Seq(EdgeSearch)
<1>1. DOMAIN ds = 1 .. Len(ds) /\ Len(ds) \in Nat
  BY LenProperties
<1>2. \A k \in DOMAIN ds : ds[k] \in EdgeSearch
  BY <1>1, ElementOfSeq
<1> QED
  BY <1>1, <1>2 DEF EdgeSearch

LEMMA SamePagesContinue ==
  ASSUME CaptureInv, UNCHANGED pages, made' \in Nat, made <= made'
  PROVE  IdsContinue /\ EdgesContinue
<1>1. \A k \in DOMAIN pages : pages[k].id \in Nat /\ pages[k].id <= made
  BY PageTyped DEF CaptureInv, CaptureShape, PagesApart
<1>2. made \in Nat
  BY DEF CaptureInv, CaptureShape
<1>3. \A k \in DOMAIN pages : pages[k].id <= made'
  BY <1>1, <1>2
<1> QED
  BY <1>3 DEF CaptureInv, CaptureShape, PagesApart, IdsContinue, EdgesContinue

LEMMA RearrangedContinue ==
  ASSUME CaptureInv, Rearranged, UNCHANGED made
  PROVE  IdsContinue /\ EdgesContinue
  BY DEF CaptureInv, CaptureShape, PagesApart, Rearranged, IdsContinue,
         EdgesContinue

LEMMA SameSearchesContinue ==
  ASSUME CaptureInv, UNCHANGED detections
  PROVE  SearchesContinue
  BY DEF CaptureInv, CaptureShape, SearchesContinue

LEMMA PagesStand ==
  ASSUME CaptureInv, IdsContinue, UNCHANGED <<floor, shown>>
  PROVE  PagesApart' /\ ClearedStaysCleared' /\ floor' <= made'
<1>1. floor \in Nat /\ made \in Nat /\ made' \in Nat /\ floor <= made
  BY DEF CaptureInv, CaptureShape, IdsContinue
<1>2. floor' <= made'
  BY <1>1 DEF IdsContinue
<1>3. PagesApart'
  BY DEF IdsContinue, PagesApart
<1>4. \A j \in DOMAIN pages' : pages'[j].id > floor
  <2> TAKE j \in DOMAIN pages'
  <2>1. pages'[j].id \in Nat
    BY PageTyped DEF IdsContinue
  <2>2. CASE pages'[j].id > made
    BY <1>1, <2>1, <2>2
  <2>3. CASE \E i \in DOMAIN pages : pages'[j].id = pages[i].id
    BY <2>3 DEF CaptureInv, ClearedStaysCleared, Ids
  <2> QED
    BY <2>2, <2>3 DEF IdsContinue
<1>5. \A id \in Ids(shown.pages) : id > floor
  BY DEF CaptureInv, ClearedStaysCleared
<1> QED
  BY <1>2, <1>3, <1>4, <1>5 DEF ClearedStaysCleared, Ids

LEMMA ScanStands ==
  ASSUME CaptureInv, IdsContinue, SearchesContinue, UNCHANGED <<scan, floor>>
  PROVE  ScanApart'
<1> SUFFICES ASSUME scan # NoWorker, ~scan.ended
             PROVE  /\ scan.page <= made'
                    /\ \A i \in DOMAIN pages' : pages'[i].id # scan.page
                    /\ \A k \in DOMAIN detections' :
                         detections'[k].page # scan.page
                    /\ scan.fresh => scan.page > floor
  BY DEF ScanApart
<1>1. made \in Nat /\ made' \in Nat /\ made <= made' /\ scan.page \in Nat
  BY DEF CaptureInv, CaptureShape, IdsContinue, Scan
<1>2. /\ scan.page <= made
      /\ \A i \in DOMAIN pages : pages[i].id # scan.page
      /\ \A k \in DOMAIN detections : detections[k].page # scan.page
      /\ scan.fresh => scan.page > floor
  BY DEF CaptureInv, ScanApart
<1>3. \A i \in DOMAIN pages' : pages'[i].id # scan.page
  <2> TAKE i \in DOMAIN pages'
  <2>1. pages'[i].id \in Nat
    BY PageTyped DEF IdsContinue
  <2> QED
    BY <1>1, <1>2, <2>1 DEF IdsContinue
<1> QED
  BY <1>1, <1>2, <1>3 DEF SearchesContinue

LEMMA SearchesStand ==
  ASSUME CaptureInv, IdsContinue, EdgesContinue, UNCHANGED detections
  PROVE  DetectionsApart'
<1>1. made \in Nat /\ made' \in Nat /\ made <= made'
  BY DEF CaptureInv, CaptureShape, IdsContinue
<1>2. \A k \in DOMAIN detections :
        detections[k].page \in Nat /\ detections[k].page <= made
  BY SearchTyped DEF CaptureInv, CaptureShape, DetectionsApart
<1>3. \A k \in DOMAIN detections, i \in DOMAIN pages' :
        Awaited(detections[k]) /\ pages'[i].id = detections[k].page
          => pages'[i].edges = detections[k].from
  <2> TAKE k \in DOMAIN detections, i \in DOMAIN pages'
  <2>1. pages'[i].id \in Nat
    BY PageTyped DEF IdsContinue
  <2>2. CASE pages'[i].id > made
    BY <1>1, <1>2, <2>1, <2>2
  <2>3. CASE ~(pages'[i].id > made)
    BY <2>3 DEF EdgesContinue, CaptureInv, DetectionsApart
  <2> QED
    BY <2>2, <2>3
<1>4. \A k \in DOMAIN detections : detections[k].page <= made'
  BY <1>1, <1>2
<1>5. \A j, k \in DOMAIN detections :
       /\ Awaited(detections[j]) /\ Awaited(detections[k])
       /\ detections[j].page = detections[k].page
       => j = k
  BY DEF CaptureInv, DetectionsApart
<1> QED
  BY <1>3, <1>4, <1>5 DEF DetectionsApart, Awaited

\* Searches given up are awaited no more.
LEMMA GivenUp ==
  ASSUME CaptureInv, NEW ds, ds = InvalidateGeometry
  PROVE  /\ ds \in Seq(EdgeSearch)
         /\ DOMAIN ds = DOMAIN detections
         /\ \A k \in DOMAIN ds :
              ds[k].page = detections[k].page /\ ~Awaited(ds[k])
<1>1. detections \in Seq(EdgeSearch)
  BY DEF CaptureInv, CaptureShape
<1> DEFINE old(d) == [d EXCEPT !.fresh = FALSE]
<1>2. ASSUME NEW d \in EdgeSearch
      PROVE  /\ old(d) \in EdgeSearch
             /\ old(d).page = d.page /\ ~Awaited(old(d))
  BY DEF EdgeSearch, Awaited
<1>3. ds = [k \in DOMAIN detections |-> old(detections[k])]
  BY DEF InvalidateGeometry
<1> HIDE DEF old
<1>4. \A k \in DOMAIN detections :
        /\ old(detections[k]) \in EdgeSearch
        /\ old(detections[k]).page = detections[k].page
        /\ ~Awaited(old(detections[k]))
  BY <1>1, <1>2, SearchTyped
<1>5. ds \in Seq(EdgeSearch) /\ DOMAIN ds = DOMAIN detections
  BY <1>1, <1>3, <1>4, SearchTyped
<1> QED
  BY <1>3, <1>4, <1>5

LEMMA GivingUp ==
  ASSUME CaptureInv, detections' = InvalidateGeometry,
         made' \in Nat, made <= made'
  PROVE  SearchesContinue /\ DetectionsApart'
<1>1. /\ detections' \in Seq(EdgeSearch)
      /\ DOMAIN detections' = DOMAIN detections
      /\ \A k \in DOMAIN detections' :
           detections'[k].page = detections[k].page /\ ~Awaited(detections'[k])
  BY GivenUp
<1>2. SearchesContinue
  BY <1>1 DEF SearchesContinue
<1>3. \A k \in DOMAIN detections :
        detections[k].page \in Nat /\ detections[k].page <= made
  BY SearchTyped DEF CaptureInv, CaptureShape, DetectionsApart
<1>4. made \in Nat
  BY DEF CaptureInv, CaptureShape
<1>5. \A k \in DOMAIN detections' : detections'[k].page <= made'
  BY <1>1, <1>3, <1>4
<1> QED
  BY <1>1, <1>2, <1>5 DEF DetectionsApart, Awaited

LEMMA PreviewAsked ==
  ASSUME CaptureInv, ScheduleRender, pages' \in Seq(Page), crop' \in BOOLEAN,
         UNCHANGED <<blind, closing, shown>>
  PROVE  /\ render' \in Preview \cup {NoWorker} /\ pending' \in BOOLEAN
         /\ PreviewFollows'
<1>1. CASE render = NoWorker
  <2>1. render' = [kind |-> "render", pages |-> pages', crop |-> crop',
                   fresh |-> TRUE, ended |-> FALSE]
    BY <1>1 DEF ScheduleRender, StartRender
  <2>2. pending' = pending /\ pending \in BOOLEAN
    BY <1>1 DEF ScheduleRender, CaptureInv, CaptureShape
  <2> QED
    BY <2>1, <2>2 DEF Preview, PreviewFollows, NoWorker
<1>2. CASE render # NoWorker
  <2>1. render \in Preview
    BY <1>2 DEF CaptureInv, CaptureShape
  <2>2. pending' = TRUE /\ render' = [render EXCEPT !.fresh = FALSE]
    BY <1>2 DEF ScheduleRender
  <2>3. render' \in Preview /\ ~render'.fresh
    BY <2>1, <2>2 DEF Preview
  <2>4. render' # NoWorker
    BY <2>3 DEF Preview, NoWorker
  <2> QED
    BY <2>2, <2>3, <2>4 DEF PreviewFollows
<1> QED
  BY <1>1, <1>2

LEMMA PreviewStands ==
  ASSUME CaptureInv,
         UNCHANGED <<pages, crop, render, pending, blind, closing, shown>>
  PROVE  /\ render' \in Preview \cup {NoWorker} /\ pending' \in BOOLEAN
         /\ PreviewFollows'
  BY DEF CaptureInv, CaptureShape, PreviewFollows, Shows, Cut

-----------------------------------------------------------------------------
(* The steps                                                               *)

\* What is left to show of a step that shows nothing new.
LEMMA StepStands ==
  ASSUME CaptureInv, IdsContinue, SearchesContinue, DetectionsApart',
         UNCHANGED <<scan, floor, shown, blind, closing>>, crop' \in BOOLEAN,
         \/ ScheduleRender
         \/ UNCHANGED <<pages, crop, render, pending>>
  PROVE  CaptureInv'
<1>1. PagesApart' /\ ClearedStaysCleared' /\ floor' <= made'
  BY PagesStand
<1>2. ScanApart'
  BY ScanStands
<1>3. pages' \in Seq(Page) /\ made' \in Nat /\ detections' \in Seq(EdgeSearch)
  BY DEF IdsContinue, SearchesContinue
<1>4. /\ render' \in Preview \cup {NoWorker} /\ pending' \in BOOLEAN
      /\ PreviewFollows'
  BY <1>3, PreviewAsked, PreviewStands
<1>5. /\ shown' \in [pages: Seq(Page), crop: BOOLEAN]
      /\ floor' \in Nat /\ blind' \in BOOLEAN /\ closing' \in BOOLEAN
      /\ scan' \in Scan \cup {NoWorker}
  BY DEF CaptureInv, CaptureShape
<1>6. CaptureShape'
  BY <1>1, <1>3, <1>4, <1>5 DEF CaptureShape
<1> QED
  BY <1>1, <1>2, <1>4, <1>6 DEF CaptureInv

\* Nothing but the workers that play no part here, and the page looked at.
Aside ==
  /\ UNCHANGED <<pages, made, shown, crop, blind, floor, render, pending>>
  /\ UNCHANGED <<detections, scan, closing>>

LEMMA AsideStands ==
  ASSUME CaptureInv, Aside
  PROVE  CaptureInv'
<1>1. made' \in Nat /\ made <= made' /\ crop' \in BOOLEAN
  BY DEF CaptureInv, CaptureShape, Aside
<1>2. IdsContinue /\ EdgesContinue /\ SearchesContinue
  BY <1>1, SamePagesContinue, SameSearchesContinue DEF Aside
<1>3. DetectionsApart'
  BY <1>2, SearchesStand DEF Aside
<1> QED
  BY <1>1, <1>2, <1>3, StepStands DEF Aside

LEMMA OperationsAside ==
  ASSUME \/ OnImportImages \/ OnOpenPdf \/ OnAddPdfs
         \/ OnSavePdf \/ OnExtractPages \/ OnSplitPdf \/ OnAddToGed
         \/ GedAnswered \/ OperationEnds \/ CleanupOperation
         \/ SetCurrentPage \/ UNCHANGED captureVars
  PROVE  Aside
  BY DEF OnImportImages, OnOpenPdf, OnAddPdfs, OnImport, OnSavePdf,
         OnExtractPages, OnSplitPdf, OnAddToGed, GedAnswered, OperationEnds,
         CleanupOperation, SetCurrentPage, captureVars, MaterializeTo,
         StartOperation, Delivers, Gesture, workspace, preview, Aside

LEMMA ScanBegins ==
  ASSUME CaptureInv, OnScanRequested
  PROVE  CaptureInv'
<1>1. /\ UNCHANGED <<pages, shown, crop, blind, floor, render, pending, closing>>
      /\ detections' = InvalidateGeometry
      /\ made' = made + 1
      /\ scan' = [kind |-> "scan", page |-> made + 1, fresh |-> TRUE,
                  ended |-> FALSE]
  BY DEF OnScanRequested, preview
<1>2. /\ made \in Nat /\ made' \in Nat /\ made <= made' /\ crop' \in BOOLEAN
      /\ floor \in Nat /\ floor <= made
  BY <1>1 DEF CaptureInv, CaptureShape
<1>3. IdsContinue
  BY <1>1, <1>2, SamePagesContinue
<1>4. SearchesContinue /\ DetectionsApart'
  BY <1>1, <1>2, GivingUp
<1>5. PagesApart' /\ ClearedStaysCleared' /\ floor' <= made'
  BY <1>1, <1>3, PagesStand
<1>6. ScanApart'
  <2>1. scan'.page = made + 1 /\ ~scan'.ended
    BY <1>1
  <2>2. \A i \in DOMAIN pages' : pages'[i].id # made + 1
    BY <1>1, <1>2, PageTyped DEF CaptureInv, CaptureShape, PagesApart
  <2>3. \A k \in DOMAIN detections' : detections'[k].page # made + 1
    <3>1. \A k \in DOMAIN detections :
            detections[k].page \in Nat /\ detections[k].page <= made
      BY SearchTyped DEF CaptureInv, CaptureShape, DetectionsApart
    <3>2. /\ DOMAIN detections' = DOMAIN detections
          /\ \A k \in DOMAIN detections' :
               detections'[k].page = detections[k].page
      BY <1>1, GivenUp
    <3> QED
      BY <1>2, <3>1, <3>2
  <2>4. made + 1 <= made' /\ made + 1 > floor'
    BY <1>1, <1>2
  <2> QED
    BY <2>1, <2>2, <2>3, <2>4 DEF ScanApart
<1>7. /\ render' \in Preview \cup {NoWorker} /\ pending' \in BOOLEAN
      /\ PreviewFollows'
  BY <1>1, PreviewStands
<1>8. scan' \in Scan \cup {NoWorker}
  BY <1>1, <1>2 DEF Scan
<1>9. /\ pages' \in Seq(Page) /\ shown' \in [pages: Seq(Page), crop: BOOLEAN]
      /\ floor' \in Nat /\ blind' \in BOOLEAN /\ closing' \in BOOLEAN
      /\ detections' \in Seq(EdgeSearch)
  BY <1>1, <1>4 DEF CaptureInv, CaptureShape, SearchesContinue
<1>10. CaptureShape'
  BY <1>2, <1>5, <1>7, <1>8, <1>9 DEF CaptureShape
<1> QED
  BY <1>4, <1>5, <1>6, <1>7, <1>10 DEF CaptureInv

LEMMA ScanGoes ==
  ASSUME CaptureInv, ScanFails \/ CleanupScanWorker
  PROVE  CaptureInv'
<1>1. UNCHANGED <<pages, made, shown, crop, blind, floor, render, pending,
                  detections, closing>>
  BY DEF ScanFails, CleanupScanWorker, workspace, preview
<1>2. made' \in Nat /\ made <= made' /\ crop' \in BOOLEAN
  BY <1>1 DEF CaptureInv, CaptureShape
<1>3. IdsContinue /\ EdgesContinue
  BY <1>1, <1>2, SamePagesContinue
<1>4. DetectionsApart'
  BY <1>1, <1>3, SearchesStand
<1>5. PagesApart' /\ ClearedStaysCleared'
  BY <1>1, <1>3, PagesStand
<1>6. scan' \in Scan \cup {NoWorker} /\ (scan' = NoWorker \/ scan'.ended)
  BY DEF ScanFails, CleanupScanWorker, CaptureInv, CaptureShape, Scan
<1>7. PreviewFollows'
  BY <1>1, PreviewStands
<1>8. CaptureShape'
  BY <1>1, <1>6 DEF CaptureInv, CaptureShape
<1> QED
  BY <1>4, <1>5, <1>6, <1>7, <1>8 DEF CaptureInv, ScanApart

LEMMA Appended ==
  ASSUME NEW ds \in Seq(EdgeSearch), NEW d \in EdgeSearch
  PROVE  /\ Append(ds, d) \in Seq(EdgeSearch)
         /\ Len(ds) \in Nat /\ DOMAIN ds = 1 .. Len(ds)
         /\ DOMAIN Append(ds, d) = 1 .. Len(ds) + 1
         /\ \A k \in 1 .. Len(ds) : Append(ds, d)[k] = ds[k]
         /\ Append(ds, d)[Len(ds) + 1] = d
<1>1. Append(ds, d) \in Seq(EdgeSearch) /\ Len(Append(ds, d)) = Len(ds) + 1
  BY AppendProperties
<1>2. Len(ds) \in Nat /\ DOMAIN ds = 1 .. Len(ds)
  BY LenProperties
<1>3. DOMAIN Append(ds, d) = 1 .. Len(ds) + 1
  BY <1>1, LenProperties
<1> QED
  BY <1>1, <1>2, <1>3, AppendProperties

LEMMA OnePageMore ==
  ASSUME NEW ps \in Seq(Page), NEW p \in Page
  PROVE  /\ ps \o <<p>> \in Seq(Page)
         /\ Len(ps) \in Nat /\ DOMAIN ps = 1 .. Len(ps)
         /\ DOMAIN (ps \o <<p>>) = 1 .. Len(ps) + 1
         /\ \A k \in 1 .. Len(ps) : (ps \o <<p>>)[k] = ps[k]
         /\ (ps \o <<p>>)[Len(ps) + 1] = p
<1> DEFINE more == ps \o <<p>>
           n == Len(ps)
<1>1. n \in Nat /\ DOMAIN ps = 1 .. n
  BY LenProperties
<1>2. <<p>> \in Seq(Page) /\ Len(<<p>>) = 1 /\ <<p>>[1] = p
  OBVIOUS
<1>3. /\ more \in Seq(Page) /\ Len(more) = n + 1
      /\ \A i \in 1 .. n + 1 : more[i] = IF i <= n THEN ps[i] ELSE <<p>>[i - n]
  BY <1>2, ConcatProperties
<1>4. DOMAIN more = 1 .. n + 1
  BY <1>3, LenProperties
<1> HIDE DEF more, n
<1>5. \A k \in 1 .. n : more[k] = ps[k]
  BY <1>1, <1>3
<1>6. PICK i \in 1 .. n + 1 : i = n + 1
  BY <1>1
<1>7. ~(i <= n) /\ i - n = 1
  BY <1>1, <1>6
<1>8. more[i] = <<p>>[1]
  BY <1>3, <1>7
<1>9. more[n + 1] = p
  BY <1>2, <1>6, <1>8
<1> QED
  BY <1>1, <1>3, <1>4, <1>5, <1>9 DEF more, n

\* The id was kept for the page while the scanner read it.
LEMMA ScanArrives ==
  ASSUME CaptureInv, ScanSucceeds
  PROVE  CaptureInv'
<1>1. /\ UNCHANGED <<made, shown, crop, blind, floor, closing>>
      /\ scan # NoWorker /\ ~scan.ended /\ scan' = [scan EXCEPT !.ended = TRUE]
  BY DEF ScanSucceeds, preview
<1>2. scan \in Scan /\ scan' \in Scan /\ scan'.ended /\ scan.page \in Nat
  BY <1>1 DEF CaptureInv, CaptureShape, Scan
<1>3. /\ made \in Nat /\ made' \in Nat /\ made <= made' /\ crop' \in BOOLEAN
      /\ floor' \in Nat /\ floor' <= made' /\ blind' \in BOOLEAN
      /\ closing' \in BOOLEAN /\ shown' \in [pages: Seq(Page), crop: BOOLEAN]
      /\ pages \in Seq(Page) /\ detections \in Seq(EdgeSearch)
  BY <1>1 DEF CaptureInv, CaptureShape
<1>4. ScanApart'
  BY <1>2 DEF ScanApart
<1>5. CASE ~scan.fresh
  <2>1. UNCHANGED <<pages, render, pending, detections>>
    BY <1>5 DEF ScanSucceeds
  <2>2. IdsContinue /\ EdgesContinue
    BY <1>3, <2>1, SamePagesContinue
  <2>3. DetectionsApart'
    BY <2>1, <2>2, SearchesStand
  <2>4. PagesApart' /\ ClearedStaysCleared'
    BY <1>1, <2>2, PagesStand
  <2>5. PreviewFollows'
    BY <1>1, <2>1, PreviewStands
  <2>6. CaptureShape'
    BY <1>1, <1>2, <2>1 DEF CaptureInv, CaptureShape
  <2> QED
    BY <1>4, <2>3, <2>4, <2>5, <2>6 DEF CaptureInv
<1>6. CASE scan.fresh
  <2> DEFINE p == NewPage(scan.page, TRUE)
             n == Len(pages)
             m == Len(detections)
  <2>1. /\ pages' = pages \o <<p>>
        /\ ScheduleRender
        /\ detections' = IF DetectNew(p) THEN Append(detections, Detection(p))
                         ELSE detections
    BY <1>6 DEF ScanSucceeds, AddPages
  <2>2. p \in Page /\ p.id = scan.page /\ p.edges = "none"
    BY <1>2 DEF NewPage, Page, Edges
  <2>3. /\ pages' \in Seq(Page) /\ n \in Nat
        /\ DOMAIN pages = 1 .. n /\ DOMAIN pages' = 1 .. n + 1
        /\ \A i \in 1 .. n : pages'[i] = pages[i]
        /\ pages'[n + 1] = p
    BY <1>3, <2>1, <2>2, OnePageMore
  <2>4. /\ Detection(p) \in EdgeSearch
        /\ Detection(p).page = scan.page /\ Detection(p).from = "none"
    BY <1>2, <2>2 DEF Detection, EdgeSearch, Edges
  <2>5. /\ detections' \in Seq(EdgeSearch)
        /\ m \in Nat /\ DOMAIN detections = 1 .. m
        /\ \/ detections' = detections
           \/ /\ DOMAIN detections' = 1 .. m + 1
              /\ \A k \in 1 .. m : detections'[k] = detections[k]
              /\ detections'[m + 1] = Detection(p)
    <3>1. m \in Nat /\ DOMAIN detections = 1 .. m
      BY <1>3, Appended, <2>4
    <3>2. CASE DetectNew(p)
      <4>1. detections' = Append(detections, Detection(p))
        BY <2>1, <3>2
      <4> DEFINE d == Detection(p)
      <4>2. d \in EdgeSearch /\ detections' = Append(detections, d)
        BY <2>4, <4>1
      <4> HIDE DEF d
      <4>3. /\ detections' \in Seq(EdgeSearch)
            /\ DOMAIN detections' = 1 .. m + 1
            /\ \A k \in 1 .. m : detections'[k] = detections[k]
            /\ detections'[m + 1] = d
        BY <1>3, <4>2, Appended
      <4> QED
        BY <3>1, <4>3 DEF d
    <3>3. CASE ~DetectNew(p)
      BY <1>3, <2>1, <3>1, <3>3
    <3> QED
      BY <3>2, <3>3
  <2> HIDE DEF p, n, m
  <2>6. /\ scan.page <= made
        /\ \A i \in DOMAIN pages : pages[i].id # scan.page
        /\ \A k \in DOMAIN detections : detections[k].page # scan.page
        /\ scan.page > floor
    BY <1>1, <1>6 DEF CaptureInv, ScanApart
  <2>7. PagesApart'
    BY <1>1, <2>2, <2>3, <2>6 DEF CaptureInv, PagesApart
  <2>8. ClearedStaysCleared'
    BY <1>1, <2>2, <2>3, <2>6 DEF CaptureInv, ClearedStaysCleared, Ids
  <2>9. DetectionsApart'
    <3>1. \A k \in DOMAIN detections' : detections'[k].page <= made'
      BY <1>1, <2>4, <2>5, <2>6 DEF CaptureInv, DetectionsApart
    <3>2. \A j, k \in DOMAIN detections' :
            /\ Awaited(detections'[j]) /\ Awaited(detections'[k])
            /\ detections'[j].page = detections'[k].page
            => j = k
      BY <2>4, <2>5, <2>6 DEF CaptureInv, DetectionsApart
    <3>3. \A k \in DOMAIN detections', i \in DOMAIN pages' :
            Awaited(detections'[k]) /\ pages'[i].id = detections'[k].page
              => pages'[i].edges = detections'[k].from
      <4> SUFFICES ASSUME NEW k \in DOMAIN detections', NEW i \in DOMAIN pages',
                          Awaited(detections'[k]),
                          pages'[i].id = detections'[k].page
                   PROVE  pages'[i].edges = detections'[k].from
        OBVIOUS
      <4>1. CASE i = n + 1 /\ k \in 1 .. m /\ detections'[k] = detections[k]
        BY <2>2, <2>3, <2>5, <2>6, <4>1
      <4>2. CASE i \in 1 .. n /\ k \in 1 .. m /\ detections'[k] = detections[k]
        BY <2>3, <2>5, <4>2 DEF CaptureInv, DetectionsApart
      <4>3. CASE i \in 1 .. n /\ detections'[k] = Detection(p)
        BY <2>3, <2>4, <2>6, <4>3
      <4>4. CASE i = n + 1 /\ detections'[k] = Detection(p)
        BY <2>2, <2>3, <2>4, <4>4
      <4>5. i \in 1 .. n \/ i = n + 1
        BY <2>3
      <4>6. \/ k \in 1 .. m /\ detections'[k] = detections[k]
            \/ detections'[k] = Detection(p)
        BY <2>5
      <4> QED
        BY <4>1, <4>2, <4>3, <4>4, <4>5, <4>6
    <3> QED
      BY <3>1, <3>2, <3>3 DEF DetectionsApart, Awaited
  <2>10. /\ render' \in Preview \cup {NoWorker} /\ pending' \in BOOLEAN
         /\ PreviewFollows'
    BY <1>1, <1>3, <2>1, <2>3, PreviewAsked
  <2>11. CaptureShape'
    BY <1>2, <1>3, <2>3, <2>5, <2>10 DEF CaptureShape
  <2> QED
    BY <1>4, <2>7, <2>8, <2>9, <2>10, <2>11 DEF CaptureInv
<1> QED
  BY <1>5, <1>6

\* New pages have the ids that follow.
LEMMA NewPagesTyped ==
  ASSUME CaptureInv, NEW n \in Nat, NEW image \in BOOLEAN
  PROVE  /\ NewPages(n, image) \in Seq(Page)
         /\ Len(NewPages(n, image)) = n
         /\ \A k \in 1 .. n : NewPages(n, image)[k].id = made + k
<1>1. made \in Nat
  BY DEF CaptureInv, CaptureShape
<1>2. \A k \in 1 .. n :
        NewPage(made + k, image) \in Page /\ NewPage(made + k, image).id = made + k
  BY <1>1 DEF NewPage, Page, Edges
<1>3. NewPages(n, image) = [k \in 1 .. n |-> NewPage(made + k, image)]
  BY DEF NewPages
<1> QED
  BY <1>2, <1>3

LEMMA PagesComing ==
  ASSUME CaptureInv, NEW n \in Nat, NEW image \in BOOLEAN, made' = made + n,
         pages' = pages \o NewPages(n, image) \/ pages' = NewPages(n, image)
  PROVE  IdsContinue /\ EdgesContinue
<1> DEFINE new == NewPages(n, image)
           m == Len(pages)
<1>1. made \in Nat /\ made' \in Nat /\ made <= made' /\ pages \in Seq(Page)
  BY DEF CaptureInv, CaptureShape
<1>2. /\ new \in Seq(Page) /\ Len(new) = n /\ DOMAIN new = 1 .. n
      /\ \A k \in 1 .. n : new[k].id = made + k
  BY NewPagesTyped, PageTyped
<1>3. m \in Nat /\ DOMAIN pages = 1 .. m
  BY <1>1, LenProperties
<1> HIDE DEF new, m
<1>4. CASE pages' = new
  <2>1. \A k \in DOMAIN pages' : pages'[k].id > made /\ pages'[k].id <= made'
    BY <1>1, <1>2, <1>4
  <2>2. \A j, k \in DOMAIN pages' : pages'[j].id = pages'[k].id => j = k
    BY <1>1, <1>2, <1>4
  <2> QED
    BY <1>1, <1>2, <1>4, <2>1, <2>2 DEF IdsContinue, EdgesContinue
<1>5. CASE pages' = pages \o new
  <2>1. /\ pages' \in Seq(Page) /\ Len(pages') = m + n
        /\ \A k \in 1 .. m + n :
             pages'[k] = IF k <= m THEN pages[k] ELSE new[k - m]
    BY <1>1, <1>2, <1>5, ConcatProperties DEF m
  <2>2. DOMAIN pages' = 1 .. m + n
    BY <2>1, LenProperties
  <2>3. \A k \in DOMAIN pages' :
          \/ k \in 1 .. m /\ pages'[k] = pages[k]
          \/ ~(k \in 1 .. m) /\ pages'[k].id = made + (k - m) /\ k - m \in 1 .. n
    <3> TAKE k \in DOMAIN pages'
    <3>1. CASE k <= m
      BY <1>3, <2>1, <2>2, <3>1
    <3>2. CASE ~(k <= m)
      <4>1. k - m \in 1 .. n /\ pages'[k] = new[k - m]
        BY <1>3, <2>1, <2>2, <3>2
      <4> QED
        BY <1>2, <1>3, <3>2, <4>1
    <3> QED
      BY <3>1, <3>2
  <2>4. \A k \in 1 .. m : pages[k].id \in Nat /\ pages[k].id <= made
    BY <1>1, <1>3, PageTyped DEF CaptureInv, PagesApart
  <2>5. \A k \in DOMAIN pages' :
          /\ pages'[k].id <= made'
          /\ \/ pages'[k].id > made
             \/ \E i \in DOMAIN pages : pages'[k] = pages[i]
    BY <1>1, <1>3, <2>3, <2>4
  <2>6. \A j, k \in DOMAIN pages' : pages'[j].id = pages'[k].id => j = k
    <3> SUFFICES ASSUME NEW j \in DOMAIN pages', NEW k \in DOMAIN pages',
                        pages'[j].id = pages'[k].id
                 PROVE  j = k
      OBVIOUS
    <3>1. CASE j \in 1 .. m /\ k \in 1 .. m
      BY <1>3, <2>3, <3>1 DEF CaptureInv, PagesApart
    <3>2. CASE ~(j \in 1 .. m) /\ ~(k \in 1 .. m)
      BY <1>1, <1>3, <2>2, <2>3, <3>2
    <3>3. CASE j \in 1 .. m /\ ~(k \in 1 .. m)
      BY <1>1, <2>3, <2>4, <3>3
    <3>4. CASE ~(j \in 1 .. m) /\ k \in 1 .. m
      BY <1>1, <2>3, <2>4, <3>4
    <3> QED
      BY <3>1, <3>2, <3>3, <3>4
  <2> QED
    BY <1>1, <2>1, <2>5, <2>6 DEF IdsContinue, EdgesContinue
<1> QED
  BY <1>4, <1>5 DEF new

LEMMA PagesCome ==
  ASSUME CaptureInv, OnPagesLoaded \/ ReplaceWithPdf
  PROVE  CaptureInv' /\ EdgesContinue
<1>1. CASE OnPagesLoaded
  <2>1. PICK n \in NewCounts :
          /\ UNCHANGED <<shown, crop, blind, floor, detections, scan, closing>>
          /\ pages' = pages \o NewPages(n, op.kind = "images")
          /\ made' = made + n
          /\ ScheduleRender
    BY <1>1 DEF OnPagesLoaded, Delivers, AddPages, preview
  <2>2. n \in Nat /\ (op.kind = "images") \in BOOLEAN
    BY DEF NewCounts
  <2>3. IdsContinue /\ EdgesContinue
    BY <2>1, <2>2, PagesComing
  <2>4. SearchesContinue /\ DetectionsApart'
    BY <2>1, <2>3, SameSearchesContinue, SearchesStand
  <2>5. crop' \in BOOLEAN
    BY <2>1 DEF CaptureInv, CaptureShape
  <2> QED
    BY <2>1, <2>3, <2>4, <2>5, StepStands
<1>2. CASE ReplaceWithPdf
  <2>1. PICK n \in NewCounts :
          /\ UNCHANGED <<shown, crop, blind, floor, scan, closing>>
          /\ detections' = InvalidateGeometry
          /\ pages' = NewPages(n, FALSE)
          /\ made' = made + n
          /\ ScheduleRender
    BY <1>2 DEF ReplaceWithPdf, Delivers, preview
  <2>2. n \in Nat
    BY DEF NewCounts
  <2>3. IdsContinue /\ EdgesContinue
    BY <2>1, <2>2, PagesComing
  <2>4. SearchesContinue /\ DetectionsApart'
    BY <2>1, <2>3, GivingUp DEF IdsContinue
  <2>5. crop' \in BOOLEAN
    BY <2>1 DEF CaptureInv, CaptureShape
  <2> QED
    BY <2>1, <2>3, <2>4, <2>5, StepStands
<1> QED
  BY <1>1, <1>2

LEMMA CropToggled ==
  ASSUME CaptureInv, ToggleCrop
  PROVE  CaptureInv'
<1>1. /\ UNCHANGED <<pages, made, shown, blind, floor, detections, scan, closing>>
      /\ crop' = ~crop
      /\ ScheduleRender
  BY DEF ToggleCrop, workspace
<1>2. made' \in Nat /\ made <= made' /\ crop' \in BOOLEAN
  BY <1>1 DEF CaptureInv, CaptureShape
<1>3. IdsContinue /\ EdgesContinue /\ SearchesContinue
  BY <1>1, <1>2, SamePagesContinue, SameSearchesContinue
<1>4. DetectionsApart'
  BY <1>1, <1>3, SearchesStand
<1> QED
  BY <1>1, <1>2, <1>3, <1>4, StepStands

LEMMA PagesRearranged ==
  ASSUME CaptureInv, OnRemovePages \/ OnReorderPages \/ OnRotatePages
  PROVE  CaptureInv' /\ EdgesContinue
<1>1. /\ UNCHANGED <<made, shown, crop, blind, floor, detections, scan, closing>>
      /\ ScheduleRender
  BY DEF OnRemovePages, OnReorderPages, OnRotatePages, PagesGesture, preview
<1>2. Rearranged
  <2>1. CASE OnRemovePages
    BY <2>1, RemovingRearranges DEF OnRemovePages
  <2>2. CASE OnRotatePages
    BY <2>2, TurningRearranges DEF OnRotatePages
  <2>3. CASE OnReorderPages
    <3> DEFINE n == Len(shown.pages)
               ids == [i \in DOMAIN shown.pages |-> shown.pages[i].id]
    <3>1. PICK k \in 1 .. n - 1 :
            Reorder([ids EXCEPT ![k] = ids[k + 1], ![k + 1] = ids[k]])
      BY <2>3 DEF OnReorderPages
    <3>2. shown.pages \in Seq(Page)
      BY DEF CaptureInv, CaptureShape
    <3>3. n \in Nat /\ ids \in [1 .. n -> Nat]
      BY <3>2, PageTyped
    <3> HIDE DEF ids, n
    <3>4. k \in 1 .. n /\ k + 1 \in 1 .. n
      BY <3>3
    <3>5. [ids EXCEPT ![k] = ids[k + 1], ![k + 1] = ids[k]] \in [1 .. n -> Nat]
      BY <3>3, <3>4
    <3>6. [ids EXCEPT ![k] = ids[k + 1], ![k + 1] = ids[k]] \in Seq(Nat)
      BY <3>3, <3>5
    <3> QED
      BY <3>1, <3>6, MovingRearranges
  <2> QED
    BY <2>1, <2>2, <2>3
<1>3. IdsContinue /\ EdgesContinue /\ SearchesContinue
  BY <1>1, <1>2, RearrangedContinue, SameSearchesContinue
<1>4. DetectionsApart' /\ crop' \in BOOLEAN
  BY <1>1, <1>3, SearchesStand DEF CaptureInv, CaptureShape
<1> QED
  BY <1>1, <1>3, <1>4, StepStands

LEMMA PreviewEnds ==
  ASSUME CaptureInv, RenderSucceeded \/ RenderFails \/ CleanupRender
  PROVE  CaptureInv'
<1>1. UNCHANGED <<pages, made, crop, floor, detections, scan, closing>>
  BY DEF RenderSucceeded, RenderFails, CleanupRender, workspace, preview
<1>2. made' \in Nat /\ made <= made'
  BY <1>1 DEF CaptureInv, CaptureShape
<1>3. IdsContinue /\ EdgesContinue /\ SearchesContinue
  BY <1>1, <1>2, SamePagesContinue, SameSearchesContinue
<1>4. DetectionsApart' /\ ScanApart' /\ PagesApart'
  BY <1>1, <1>3, SearchesStand, ScanStands DEF CaptureInv, PagesApart
<1>5. /\ render # NoWorker
      /\ render \in Preview
  BY DEF RenderSucceeded, RenderFails, CleanupRender, CaptureInv, CaptureShape
<1>6. /\ shown' \in [pages: Seq(Page), crop: BOOLEAN]
      /\ \A id \in Ids(shown.pages)' : id > floor
      /\ render' \in Preview \cup {NoWorker}
      /\ pending' \in BOOLEAN /\ blind' \in BOOLEAN
      /\ PreviewFollows'
  <2>1. CASE RenderSucceeded
    <3>1. /\ ~render.ended /\ render' = [render EXCEPT !.ended = TRUE]
          /\ UNCHANGED pending
      BY <2>1 DEF RenderSucceeded
    <3>2. render' \in Preview /\ render'.ended /\ render'.fresh = render.fresh
      BY <1>5, <3>1 DEF Preview
    <3>3. CASE render.fresh
      <4>1. render.pages = pages /\ render.crop = crop
        BY <1>5, <3>1, <3>3 DEF CaptureInv, PreviewFollows
      <4>2. shown' = [pages |-> pages, crop |-> crop] /\ blind' = FALSE
        BY <2>1, <3>3, <4>1 DEF RenderSucceeded
      <4>3. Shows(shown', pages')
        BY <1>1, <4>2 DEF Shows
      <4>4. shown' \in [pages: Seq(Page), crop: BOOLEAN]
        BY <4>2 DEF CaptureInv, CaptureShape
      <4>5. \A id \in Ids(shown.pages)' : id > floor
        BY <4>2 DEF CaptureInv, ClearedStaysCleared
      <4> QED
        BY <3>1, <3>2, <3>3, <4>2, <4>3, <4>4, <4>5
           DEF PreviewFollows, CaptureInv, CaptureShape
    <3>4. CASE ~render.fresh
      <4>1. UNCHANGED <<shown, blind>>
        BY <2>1, <3>4 DEF RenderSucceeded
      <4>2. render' # NoWorker
        BY <3>2 DEF Preview, NoWorker
      <4>3. PreviewFollows'
        BY <1>1, <1>5, <3>1, <3>2, <3>4, <4>2 DEF PreviewFollows, CaptureInv
      <4> QED
        BY <3>1, <3>2, <4>1, <4>3
           DEF CaptureInv, CaptureShape, ClearedStaysCleared
    <3> QED
      BY <3>3, <3>4
  <2>2. CASE RenderFails
    <3>1. /\ ~render.ended /\ render' = [render EXCEPT !.ended = TRUE]
          /\ UNCHANGED <<pending, shown>>
          /\ blind' = (blind \/ render.fresh)
      BY <2>2 DEF RenderFails
    <3>2. /\ render' \in Preview /\ render'.ended /\ render'.fresh = render.fresh
          /\ render.fresh \in BOOLEAN
      BY <1>5, <3>1 DEF Preview
    <3>3. render' # NoWorker
      BY <3>2 DEF Preview, NoWorker
    <3>4. PreviewFollows'
      BY <1>1, <1>5, <3>1, <3>2, <3>3 DEF PreviewFollows, CaptureInv
    <3> QED
      BY <3>1, <3>2, <3>4 DEF CaptureInv, CaptureShape, ClearedStaysCleared
  <2>3. CASE CleanupRender
    <3>1. /\ pending' = FALSE /\ UNCHANGED <<shown, blind>> /\ render.ended
      BY <2>3 DEF CleanupRender, preview
    <3>2. CASE pending /\ pages # <<>> /\ ~closing
      <4>1. render' = [kind |-> "render", pages |-> pages, crop |-> crop,
                       fresh |-> TRUE, ended |-> FALSE]
        BY <1>1, <2>3, <3>2 DEF CleanupRender, StartRender
      <4>2. render' \in Preview /\ render' # NoWorker
        BY <4>1 DEF Preview, NoWorker, CaptureInv, CaptureShape
      <4>3. PreviewFollows'
        BY <1>1, <4>1, <4>2 DEF PreviewFollows
      <4> QED
        BY <3>1, <4>2, <4>3 DEF CaptureInv, CaptureShape, ClearedStaysCleared
    <3>3. CASE ~(pending /\ pages # <<>> /\ ~closing)
      <4>1. render' = NoWorker
        BY <2>3, <3>3 DEF CleanupRender
      <4>2. PreviewFollows'
        BY <1>1, <1>5, <3>1, <3>3, <4>1
           DEF PreviewFollows, CaptureInv, Shows, Cut
      <4> QED
        BY <3>1, <4>1, <4>2 DEF CaptureInv, CaptureShape, ClearedStaysCleared
    <3> QED
      BY <3>2, <3>3
  <2> QED
    BY <2>1, <2>2, <2>3
<1>7. ClearedStaysCleared'
  BY <1>1, <1>6 DEF CaptureInv, ClearedStaysCleared, Ids
<1>8. CaptureShape'
  BY <1>1, <1>6 DEF CaptureInv, CaptureShape
<1> QED
  BY <1>4, <1>6, <1>7, <1>8 DEF CaptureInv

\* The one search that is awaited is the one that was asked for.
LEMMA SearchAsked ==
  ASSUME CaptureInv, OnDetect
  PROVE  CaptureInv'
<1> DEFINE d == Detection(CurrentPage)
           n == Len(InvalidateGeometry)
<1>1. /\ UNCHANGED <<pages, made, shown, crop, blind, floor, render, pending,
                     scan, closing>>
      /\ current \in DOMAIN pages
      /\ detections' = Append(InvalidateGeometry, d)
  BY DEF OnDetect, GeometryGesture, workspace, preview
<1>2. /\ pages[current] \in Page /\ pages[current].id \in Nat
      /\ pages[current].edges \in Edges /\ pages[current].id <= made
  BY <1>1, PageTyped DEF CaptureInv, CaptureShape, PagesApart
<1>3. /\ d \in EdgeSearch /\ d.page = pages[current].id
      /\ d.from = pages[current].edges
  BY <1>2 DEF Detection, CurrentPage, EdgeSearch
<1>4. /\ InvalidateGeometry \in Seq(EdgeSearch)
      /\ DOMAIN InvalidateGeometry = DOMAIN detections
      /\ \A k \in DOMAIN InvalidateGeometry :
           /\ InvalidateGeometry[k].page = detections[k].page
           /\ ~Awaited(InvalidateGeometry[k])
  BY GivenUp
<1> HIDE DEF d
<1>5. /\ detections' \in Seq(EdgeSearch)
      /\ n \in Nat /\ DOMAIN InvalidateGeometry = 1 .. n
      /\ DOMAIN detections' = 1 .. n + 1
      /\ \A k \in 1 .. n : detections'[k] = InvalidateGeometry[k]
      /\ detections'[n + 1] = d
  BY <1>1, <1>3, <1>4, Appended
<1> HIDE DEF n
<1>6. /\ \A k \in 1 .. n : /\ k \in DOMAIN detections
                           /\ detections'[k].page = detections[k].page
                           /\ ~Awaited(detections'[k])
      /\ \A k \in DOMAIN detections' : k \in 1 .. n \/ k = n + 1
  BY <1>4, <1>5
<1>7. made' \in Nat /\ made <= made' /\ crop' \in BOOLEAN
  BY <1>1 DEF CaptureInv, CaptureShape
<1>8. IdsContinue
  BY <1>1, <1>7, SamePagesContinue
<1>9. SearchesContinue
  BY <1>1, <1>3, <1>5, <1>6 DEF SearchesContinue
<1>10. DetectionsApart'
  <2>1. \A k \in DOMAIN detections' : detections'[k].page <= made'
    BY <1>1, <1>2, <1>3, <1>5, <1>6 DEF CaptureInv, DetectionsApart
  <2>2. \A j, k \in DOMAIN detections' :
          Awaited(detections'[j]) /\ Awaited(detections'[k]) => j = k
    BY <1>6
  <2>3. \A k \in DOMAIN detections', i \in DOMAIN pages' :
          Awaited(detections'[k]) /\ pages'[i].id = detections'[k].page
            => pages'[i].edges = detections'[k].from
    BY <1>1, <1>3, <1>5, <1>6 DEF CaptureInv, PagesApart
  <2> QED
    BY <2>1, <2>2, <2>3 DEF DetectionsApart, Awaited
<1> QED
  BY <1>1, <1>7, <1>8, <1>9, <1>10, StepStands

\* New edges for one page.
LEMMA EdgesGiven ==
  ASSUME CaptureInv, NEW k \in DOMAIN pages, NEW e \in Edges,
         pages' = [pages EXCEPT ![k].edges = e], UNCHANGED made
  PROVE  /\ IdsContinue
         /\ DOMAIN pages' = DOMAIN pages
         /\ \A i \in DOMAIN pages :
              /\ pages'[i].id = pages[i].id
              /\ pages'[i].edges = IF i = k THEN e ELSE pages[i].edges
<1>1. pages \in Seq(Page) /\ pages[k] \in Page
  BY PageTyped DEF CaptureInv, CaptureShape
<1> DEFINE p == [pages[k] EXCEPT !.edges = e]
<1>2. p \in Page /\ p.id = pages[k].id /\ p.edges = e
  BY <1>1 DEF Page
<1>3. pages' = [pages EXCEPT ![k] = p]
  OBVIOUS
<1> HIDE DEF p
<1>4. DOMAIN pages = 1 .. Len(pages) /\ Len(pages) \in Nat
  BY <1>1, PageTyped
<1>5. /\ pages' \in Seq(Page) /\ Len(pages') = Len(pages)
      /\ \A i \in DOMAIN pages : pages'[i] = IF i = k THEN p ELSE pages[i]
  BY <1>1, <1>2, <1>3, <1>4, ExceptSeq
<1>6. DOMAIN pages' = DOMAIN pages
  BY <1>4, <1>5, PageTyped
<1>7. \A i \in DOMAIN pages :
        /\ pages'[i].id = pages[i].id
        /\ pages'[i].edges = IF i = k THEN e ELSE pages[i].edges
  BY <1>2, <1>5
<1>8. IdsContinue
  BY <1>5, <1>6, <1>7
     DEF IdsContinue, CaptureInv, CaptureShape, PagesApart
<1> QED
  BY <1>6, <1>7, <1>8

LEMMA EdgesByHand ==
  ASSUME CaptureInv, ManualGeometry \/ ResetGeometry
  PROVE  CaptureInv' /\ DetectionAnswers
<1>1. PICK e \in {"manual", "reset", "none"} :
        /\ pages' = [pages EXCEPT ![current].edges = e]
        /\ UNCHANGED <<made, shown, crop, blind, floor, scan, closing>>
        /\ current \in DOMAIN pages
        /\ detections' = InvalidateGeometry
        /\ ScheduleRender
  BY DEF ManualGeometry, ResetGeometry, SetEdges, GeometryGesture
<1>2. e \in Edges
  BY DEF Edges
<1>3. /\ IdsContinue
      /\ DOMAIN pages' = DOMAIN pages
      /\ \A i \in DOMAIN pages :
           /\ pages'[i].id = pages[i].id
           /\ pages'[i].edges = IF i = current THEN e ELSE pages[i].edges
  BY <1>1, <1>2, EdgesGiven
<1>4. SearchesContinue /\ DetectionsApart' /\ crop' \in BOOLEAN
  BY <1>1, <1>3, GivingUp DEF IdsContinue, CaptureInv, CaptureShape
<1>5. CaptureInv'
  BY <1>1, <1>3, <1>4, StepStands
<1>6. DetectionAnswers
  BY <1>3 DEF DetectionAnswers, CaptureInv, PagesApart
<1> QED
  BY <1>5, <1>6

\* The rest of the searches, in the order they had.
LEMMA OneSearchLess ==
  ASSUME NEW ds \in Seq(EdgeSearch), NEW k \in DOMAIN ds
  PROVE  /\ RemoveAt(ds, k) \in Seq(EdgeSearch)
         /\ \A i \in DOMAIN RemoveAt(ds, k) :
              LET j == IF i < k THEN i ELSE i + 1
              IN  j \in DOMAIN ds /\ RemoveAt(ds, k)[i] = ds[j]
<1> DEFINE n == Len(ds)
           a == SubSeq(ds, 1, k - 1)
           b == SubSeq(ds, k + 1, n)
<1>1. n \in Nat /\ DOMAIN ds = 1 .. n /\ k \in 1 .. n
      /\ \A i \in 1 .. n : ds[i] \in EdgeSearch
  BY SearchTyped
<1>2. /\ a \in Seq(EdgeSearch) /\ Len(a) = k - 1
      /\ \A i \in 1 .. k - 1 : a[i] = ds[i]
  <2>1. \A i \in 1 .. k - 1 : ds[i] \in EdgeSearch
    BY <1>1
  <2>2. 1 \in Int /\ k - 1 \in Int /\ k - 1 >= 0
    BY <1>1
  <2>3. /\ a \in Seq(EdgeSearch)
        /\ Len(a) = IF 1 <= k - 1 THEN k - 1 - 1 + 1 ELSE 0
        /\ \A i \in 1 .. k - 1 - 1 + 1 : a[i] = ds[1 + i - 1]
    BY <2>1, <2>2, SubSeqProperties
  <2>4. \A i \in 1 .. k - 1 : i \in 1 .. k - 1 - 1 + 1 /\ 1 + i - 1 = i
    BY <1>1
  <2>5. \A i \in 1 .. k - 1 : a[i] = ds[i]
    <3> TAKE i \in 1 .. k - 1
    <3>1. a[i] = ds[1 + i - 1] /\ 1 + i - 1 = i
      BY <2>3, <2>4
    <3> QED
      BY <3>1
  <2>6. Len(a) = k - 1
    BY <1>1, <2>3
  <2> QED
    BY <2>3, <2>5, <2>6
<1>3. /\ b \in Seq(EdgeSearch) /\ Len(b) = n - k
      /\ \A i \in 1 .. n - k : b[i] = ds[i + k]
  <2>1. \A i \in k + 1 .. n : ds[i] \in EdgeSearch
    BY <1>1
  <2>2. k + 1 \in Int /\ n \in Int /\ k <= n
    BY <1>1
  <2>3. /\ b \in Seq(EdgeSearch)
        /\ Len(b) = IF k + 1 <= n THEN n - (k + 1) + 1 ELSE 0
        /\ \A i \in 1 .. n - (k + 1) + 1 : b[i] = ds[k + 1 + i - 1]
    BY <2>1, <2>2, SubSeqProperties
  <2>4. \A i \in 1 .. n - k :
          i \in 1 .. n - (k + 1) + 1 /\ k + 1 + i - 1 = i + k
    BY <1>1
  <2>5. \A i \in 1 .. n - k : b[i] = ds[i + k]
    <3> TAKE i \in 1 .. n - k
    <3>1. b[i] = ds[k + 1 + i - 1] /\ k + 1 + i - 1 = i + k
      BY <2>3, <2>4
    <3> QED
      BY <3>1
  <2>6. Len(b) = n - k
    BY <1>1, <2>3
  <2> QED
    BY <2>3, <2>5, <2>6
<1> HIDE DEF n, a, b
<1> DEFINE r == a \o b
<1>4. RemoveAt(ds, k) = r
  BY DEF RemoveAt, a, b, n
<1>5. /\ r \in Seq(EdgeSearch) /\ Len(r) = Len(a) + Len(b)
      /\ \A i \in 1 .. Len(a) + Len(b) :
           r[i] = IF i <= Len(a) THEN a[i] ELSE b[i - Len(a)]
  BY <1>2, <1>3, ConcatProperties
<1>6. DOMAIN r = 1 .. Len(r)
  BY <1>5, SearchTyped
<1> HIDE DEF r
<1>7. ASSUME NEW i \in DOMAIN r
      PROVE  LET j == IF i < k THEN i ELSE i + 1
             IN  j \in DOMAIN ds /\ r[i] = ds[j]
  <2>1. i \in 1 .. n - 1 /\ i \in 1 .. Len(a) + Len(b) /\ k \in Nat /\ n \in Nat
    BY <1>1, <1>2, <1>3, <1>5, <1>6, <1>7
  <2>2. CASE i < k
    <3>1. i <= Len(a) /\ i \in 1 .. k - 1 /\ i \in 1 .. n
      BY <1>1, <1>2, <2>1, <2>2
    <3>2. r[i] = ds[i]
      BY <1>2, <1>5, <2>1, <3>1
    <3> QED
      BY <1>1, <2>2, <3>1, <3>2
  <2>3. CASE ~(i < k)
    <3>1. PICK m \in 1 .. n - k : m = i - (k - 1)
      BY <1>1, <2>1, <2>3
    <3>2. ~(i <= Len(a)) /\ i - Len(a) = m /\ m + k = i + 1 /\ i + 1 \in 1 .. n
      BY <1>1, <1>2, <2>1, <2>3, <3>1
    <3>3. r[i] = b[m]
      BY <1>5, <2>1, <3>2
    <3>4. b[m] = ds[i + 1]
      BY <1>3, <3>1, <3>2
    <3> QED
      BY <1>1, <2>3, <3>2, <3>3, <3>4
  <2> QED
    BY <2>2, <2>3
<1> QED
  BY <1>4, <1>5, <1>7

\* A search that ends is awaited no more; the others are as they were.
LEMMA SearchEnds ==
  ASSUME CaptureInv, NEW k \in DOMAIN detections,
         detections' = [detections EXCEPT ![k].ended = TRUE]
  PROVE  /\ SearchesContinue
         /\ DOMAIN detections' = DOMAIN detections
         /\ ~Awaited(detections'[k])
         /\ \A m \in DOMAIN detections :
              /\ detections'[m].page = detections[m].page
              /\ m # k => detections'[m] = detections[m]
<1>1. /\ detections \in Seq(EdgeSearch) /\ detections[k] \in EdgeSearch
      /\ DOMAIN detections = 1 .. Len(detections) /\ Len(detections) \in Nat
  BY SearchTyped DEF CaptureInv, CaptureShape
<1> DEFINE d == [detections[k] EXCEPT !.ended = TRUE]
<1>2. d \in EdgeSearch /\ d.page = detections[k].page /\ ~Awaited(d)
  BY <1>1 DEF EdgeSearch, Awaited
<1>3. detections' = [detections EXCEPT ![k] = d]
  OBVIOUS
<1> HIDE DEF d
<1>4. /\ detections' \in Seq(EdgeSearch) /\ Len(detections') = Len(detections)
      /\ \A m \in DOMAIN detections :
           detections'[m] = IF m = k THEN d ELSE detections[m]
  <2>1. k \in 1 .. Len(detections)
    BY <1>1
  <2>2. /\ [detections EXCEPT ![k] = d] \in Seq(EdgeSearch)
        /\ Len([detections EXCEPT ![k] = d]) = Len(detections)
    BY <1>1, <1>2, <2>1, ExceptSeq
  <2>3. \A m \in DOMAIN detections :
          detections'[m] = IF m = k THEN d ELSE detections[m]
    BY <1>3
  <2> QED
    BY <1>3, <2>2, <2>3
<1>5. DOMAIN detections' = DOMAIN detections
  BY <1>1, <1>4, SearchTyped
<1> QED
  BY <1>2, <1>4, <1>5 DEF SearchesContinue

LEMMA SearchesGo ==
  ASSUME CaptureInv, NEW k \in DOMAIN detections,
         GeometryFails(k) \/ GeometryFinished(k)
  PROVE  CaptureInv'
<1>1. UNCHANGED <<pages, made, shown, crop, blind, floor, render, pending,
                  scan, closing>>
  BY DEF GeometryFails, GeometryFinished, workspace, preview
<1>2. made' \in Nat /\ made <= made' /\ crop' \in BOOLEAN
  BY <1>1 DEF CaptureInv, CaptureShape
<1>3. IdsContinue
  BY <1>1, <1>2, SamePagesContinue
<1>4. SearchesContinue /\ DetectionsApart'
  <2>1. CASE GeometryFails(k)
    <3>1. /\ SearchesContinue
          /\ DOMAIN detections' = DOMAIN detections
          /\ ~Awaited(detections'[k])
          /\ \A m \in DOMAIN detections :
               /\ detections'[m].page = detections[m].page
               /\ m # k => detections'[m] = detections[m]
      BY <2>1, SearchEnds DEF GeometryFails
    <3> QED
      BY <1>1, <3>1 DEF CaptureInv, DetectionsApart, Awaited
  <2>2. CASE GeometryFinished(k)
    <3> DEFINE old(i) == IF i < k THEN i ELSE i + 1
    <3>1. /\ detections' \in Seq(EdgeSearch)
          /\ \A i \in DOMAIN detections' :
               old(i) \in DOMAIN detections /\ detections'[i] = detections[old(i)]
      BY <2>2, OneSearchLess DEF GeometryFinished, CaptureInv, CaptureShape
    <3>2. k \in Nat /\ \A i \in DOMAIN detections' : i \in Nat
      BY <3>1, SearchTyped DEF CaptureInv, CaptureShape
    <3>3. \A i, j \in DOMAIN detections' : old(i) = old(j) => i = j
      BY <3>2
    <3> HIDE DEF old
    <3>4. SearchesContinue
      BY <3>1 DEF SearchesContinue
    <3>5. DetectionsApart'
      BY <1>1, <3>1, <3>3 DEF CaptureInv, DetectionsApart, Awaited
    <3> QED
      BY <3>4, <3>5
  <2> QED
    BY <2>1, <2>2
<1> QED
  BY <1>1, <1>2, <1>3, <1>4, StepStands

\* The edges go to the one page that the search was for.
LEMMA EdgesFound ==
  ASSUME CaptureInv, NEW k \in DOMAIN detections, GeometryReady(k)
  PROVE  CaptureInv' /\ DetectionAnswers
<1> DEFINE d == detections[k]
           at == IndexOf(pages, d.page)
<1>1. /\ ~d.ended
      /\ detections' = [detections EXCEPT ![k].ended = TRUE]
      /\ UNCHANGED <<made, shown, crop, blind, floor, scan, closing>>
  BY DEF GeometryReady, preview
<1>2. /\ SearchesContinue
      /\ DOMAIN detections' = DOMAIN detections
      /\ ~Awaited(detections'[k])
      /\ \A m \in DOMAIN detections :
           /\ detections'[m].page = detections[m].page
           /\ m # k => detections'[m] = detections[m]
  BY <1>1, SearchEnds
<1>3. made' \in Nat /\ made <= made' /\ crop' \in BOOLEAN /\ made' = made
  BY <1>1 DEF CaptureInv, CaptureShape
<1>4. CASE ~(d.fresh /\ at # 0)
  <2>1. UNCHANGED <<pages, render, pending>>
    BY <1>4 DEF GeometryReady
  <2>2. IdsContinue
    BY <1>3, <2>1, SamePagesContinue
  <2>3. DetectionsApart'
    BY <1>1, <1>2, <2>1 DEF CaptureInv, DetectionsApart, Awaited
  <2>4. CaptureInv'
    BY <1>1, <1>2, <1>3, <2>1, <2>2, <2>3, StepStands
  <2>5. DetectionAnswers
    BY <2>1 DEF DetectionAnswers, CaptureInv, PagesApart
  <2> QED
    BY <2>4, <2>5
<1>5. CASE d.fresh /\ at # 0
  <2>1. at \in DOMAIN pages /\ pages[at].id = d.page
    <3>1. d.page \in Ids(pages)
      BY <1>5 DEF IndexOf
    <3>2. \E m \in DOMAIN pages : pages[m].id = d.page
      BY <3>1 DEF Ids
    <3>3. at = CHOOSE m \in DOMAIN pages : pages[m].id = d.page
      BY <3>1 DEF IndexOf
    <3> QED
      BY <3>2, <3>3
  <2> HIDE DEF at
  <2>2. PICK found \in {"sure", "unsure"} :
          /\ pages' = [pages EXCEPT ![at].edges = found]
          /\ ScheduleRender
    BY <1>5 DEF GeometryReady, at
  <2>3. found \in Edges
    BY DEF Edges
  <2>4. /\ IdsContinue
        /\ DOMAIN pages' = DOMAIN pages
        /\ \A i \in DOMAIN pages :
             /\ pages'[i].id = pages[i].id
             /\ pages'[i].edges = IF i = at THEN found ELSE pages[i].edges
    BY <1>1, <2>1, <2>2, <2>3, EdgesGiven
  <2>5. Awaited(d)
    BY <1>1, <1>5 DEF Awaited
  <2>6. DetectionsApart'
    <3>1. \A m \in DOMAIN detections' : detections'[m].page <= made'
      BY <1>2, <1>3 DEF CaptureInv, DetectionsApart
    <3>2. \A j, m \in DOMAIN detections' :
            /\ Awaited(detections'[j]) /\ Awaited(detections'[m])
            /\ detections'[j].page = detections'[m].page
            => j = m
      BY <1>2 DEF CaptureInv, DetectionsApart
    <3>3. ASSUME NEW m \in DOMAIN detections', NEW i \in DOMAIN pages',
                 Awaited(detections'[m]), pages'[i].id = detections'[m].page
          PROVE  pages'[i].edges = detections'[m].from
      <4>1. m # k /\ detections'[m] = detections[m]
        BY <1>2, <3>3
      <4>2. detections[m].page # d.page
        BY <1>2, <2>5, <3>3, <4>1 DEF CaptureInv, DetectionsApart
      <4>3. i # at
        BY <2>1, <2>4, <3>3, <4>1, <4>2
      <4> QED
        BY <1>2, <2>4, <3>3, <4>1, <4>3 DEF CaptureInv, DetectionsApart
    <3> QED
      BY <3>1, <3>2, <3>3 DEF DetectionsApart, Awaited
  <2>7. CaptureInv'
    BY <1>1, <1>2, <1>3, <2>2, <2>4, <2>6, StepStands
  <2>8. d.from = pages[at].edges
    BY <2>1, <2>5 DEF CaptureInv, DetectionsApart
  <2>9. DetectionAnswers
    BY <1>1, <2>1, <2>4, <2>8 DEF DetectionAnswers, CaptureInv, PagesApart
  <2> QED
    BY <2>7, <2>9
<1> QED
  BY <1>4, <1>5

\* A worker that is made to count no more.
LEMMA Superseded ==
  ASSUME CaptureInv,
         scan' = OutdateScan,
         render' = IF render = NoWorker THEN render
                   ELSE [render EXCEPT !.fresh = FALSE]
  PROVE  /\ scan' \in Scan \cup {NoWorker}
         /\ scan' # NoWorker =>
              /\ scan # NoWorker /\ scan'.page = scan.page
              /\ scan'.ended = scan.ended /\ ~scan'.fresh
         /\ render' \in Preview \cup {NoWorker}
         /\ render' # NoWorker => ~render'.fresh
<1>3. render' = NoWorker \/ (render' \in Preview /\ ~render'.fresh)
  BY DEF CaptureInv, CaptureShape, Preview
<1>1. CASE scan = NoWorker
  <2>1. scan' = NoWorker
    BY <1>1 DEF OutdateScan
  <2> QED
    BY <1>3, <2>1
<1>2. CASE scan # NoWorker
  <2>1. scan \in Scan /\ scan' = [scan EXCEPT !.fresh = FALSE]
    BY <1>2 DEF OutdateScan, CaptureInv, CaptureShape
  <2>2. /\ scan' \in Scan /\ scan'.page = scan.page
        /\ scan'.ended = scan.ended /\ ~scan'.fresh
    BY <2>1 DEF Scan
  <2> QED
    BY <1>2, <1>3, <2>2
<1> QED
  BY <1>1, <1>2

LEMMA Cleared ==
  ASSUME CaptureInv, ClearWorkspace
  PROVE  CaptureInv' /\ EdgesContinue
<1>1. /\ pages' = <<>> /\ pending' = FALSE /\ floor' = made
      /\ shown' = [pages |-> <<>>, crop |-> crop]
      /\ scan' = OutdateScan
      /\ render' = IF render = NoWorker THEN render
                   ELSE [render EXCEPT !.fresh = FALSE]
      /\ detections' = InvalidateGeometry
      /\ UNCHANGED <<made, crop, blind, closing>>
  BY DEF ClearWorkspace
<1>2. /\ scan' \in Scan \cup {NoWorker}
      /\ scan' # NoWorker =>
           /\ scan # NoWorker /\ scan'.page = scan.page
           /\ scan'.ended = scan.ended /\ ~scan'.fresh
      /\ render' \in Preview \cup {NoWorker}
      /\ render' # NoWorker => ~render'.fresh
  BY <1>1, Superseded
<1>3. /\ made' \in Nat /\ made <= made' /\ floor' \in Nat /\ floor' <= made'
      /\ pages' \in Seq(Page) /\ shown' \in [pages: Seq(Page), crop: BOOLEAN]
  BY <1>1 DEF CaptureInv, CaptureShape
<1>4. SearchesContinue /\ DetectionsApart'
  BY <1>1, <1>3, GivingUp
<1>5. CaptureShape'
  BY <1>1, <1>2, <1>3, <1>4
     DEF CaptureInv, CaptureShape, SearchesContinue
<1>6. ScanApart'
  <2> SUFFICES ASSUME scan' # NoWorker, ~scan'.ended
               PROVE  /\ scan'.page <= made'
                      /\ \A k \in DOMAIN detections' :
                           detections'[k].page # scan'.page
    BY <1>1, <1>2 DEF ScanApart
  <2>1. /\ scan'.page <= made
        /\ \A k \in DOMAIN detections : detections[k].page # scan'.page
    BY <1>2 DEF CaptureInv, ScanApart
  <2>2. /\ DOMAIN detections' = DOMAIN detections
        /\ \A k \in DOMAIN detections' : detections'[k].page = detections[k].page
    BY <1>1, GivenUp
  <2> QED
    BY <1>1, <2>1, <2>2
<1>7. PagesApart' /\ ClearedStaysCleared'
  BY <1>1 DEF PagesApart, ClearedStaysCleared, Ids
<1>8. PreviewFollows'
  BY <1>1, <1>2 DEF PreviewFollows
<1> QED
  BY <1>1, <1>4, <1>5, <1>6, <1>7, <1>8 DEF CaptureInv, EdgesContinue

LEMMA ShutDown ==
  ASSUME CaptureInv, Shutdown
  PROVE  CaptureInv'
<1>1. /\ pending' = FALSE /\ closing' = TRUE
      /\ scan' = OutdateScan
      /\ render' = IF render = NoWorker THEN render
                   ELSE [render EXCEPT !.fresh = FALSE]
      /\ detections' = InvalidateGeometry
      /\ UNCHANGED <<pages, shown, floor, made, crop, blind>>
  BY DEF Shutdown, workspace, preview
<1>2. /\ scan' \in Scan \cup {NoWorker}
      /\ scan' # NoWorker =>
           /\ scan # NoWorker /\ scan'.page = scan.page
           /\ scan'.ended = scan.ended /\ ~scan'.fresh
      /\ render' \in Preview \cup {NoWorker}
      /\ render' # NoWorker => ~render'.fresh
  BY <1>1, Superseded
<1>3. made' \in Nat /\ made <= made'
  BY <1>1 DEF CaptureInv, CaptureShape
<1>4. SearchesContinue /\ DetectionsApart'
  BY <1>1, <1>3, GivingUp
<1>5. IdsContinue
  BY <1>1, <1>3, SamePagesContinue
<1>6. PagesApart' /\ ClearedStaysCleared'
  BY <1>1, <1>5, PagesStand
<1>7. CaptureShape'
  BY <1>1, <1>2, <1>4 DEF CaptureInv, CaptureShape, SearchesContinue
<1>8. ScanApart'
  <2> SUFFICES ASSUME scan' # NoWorker, ~scan'.ended
               PROVE  /\ scan'.page <= made'
                      /\ \A i \in DOMAIN pages' : pages'[i].id # scan'.page
                      /\ \A k \in DOMAIN detections' :
                           detections'[k].page # scan'.page
    BY <1>1, <1>2 DEF ScanApart
  <2>1. /\ scan'.page <= made
        /\ \A i \in DOMAIN pages : pages[i].id # scan'.page
        /\ \A k \in DOMAIN detections : detections[k].page # scan'.page
    BY <1>2 DEF CaptureInv, ScanApart
  <2>2. /\ DOMAIN detections' = DOMAIN detections
        /\ \A k \in DOMAIN detections' : detections'[k].page = detections[k].page
    BY <1>1, GivenUp
  <2> QED
    BY <1>1, <2>1, <2>2
<1>9. PreviewFollows'
  BY <1>1, <1>2 DEF PreviewFollows
<1> QED
  BY <1>4, <1>6, <1>7, <1>8, <1>9 DEF CaptureInv

LEMMA CaptureBegins ==
  CaptureInit => CaptureInv
<1> SUFFICES ASSUME CaptureInit PROVE CaptureInv
  OBVIOUS
<1> USE DEF CaptureInit
<1>1. CaptureShape
  <2>1. <<>> \in Seq(Page) /\ <<>> \in Seq(EdgeSearch)
    OBVIOUS
  <2>2. shown \in [pages: Seq(Page), crop: BOOLEAN]
    BY <2>1
  <2>3. made \in Nat /\ floor \in Nat /\ floor <= made
    OBVIOUS
  <2> QED
    BY <2>1, <2>2, <2>3 DEF CaptureShape
<1>2. PagesApart /\ ClearedStaysCleared
  BY DEF PagesApart, ClearedStaysCleared, Ids
<1>3. ScanApart /\ DetectionsApart /\ PreviewFollows
  BY DEF ScanApart, DetectionsApart, PreviewFollows
<1> QED
  BY <1>1, <1>2, <1>3 DEF CaptureInv

LEMMA CaptureStep ==
  CaptureInv /\ [CaptureNext]_captureVars => CaptureInv'
<1> SUFFICES ASSUME CaptureInv, [CaptureNext]_captureVars PROVE CaptureInv'
  OBVIOUS
<1>1. CASE OnScanRequested
  BY <1>1, ScanBegins
<1>2. CASE ScanSucceeds
  BY <1>2, ScanArrives
<1>3. CASE ScanFails \/ CleanupScanWorker
  BY <1>3, ScanGoes
<1>4. CASE OnPagesLoaded \/ ReplaceWithPdf
  BY <1>4, PagesCome
<1>5. CASE RenderSucceeded \/ RenderFails \/ CleanupRender
  BY <1>5, PreviewEnds
<1>6. CASE ToggleCrop
  BY <1>6, CropToggled
<1>7. CASE OnDetect
  BY <1>7, SearchAsked
<1>8. CASE ManualGeometry \/ ResetGeometry
  BY <1>8, EdgesByHand
<1>9. CASE \E k \in DOMAIN detections :
             GeometryReady(k) \/ GeometryFails(k) \/ GeometryFinished(k)
  BY <1>9, EdgesFound, SearchesGo
<1>10. CASE OnRemovePages \/ OnReorderPages \/ OnRotatePages
  BY <1>10, PagesRearranged
<1>11. CASE ClearWorkspace
  BY <1>11, Cleared
<1>12. CASE Shutdown
  BY <1>12, ShutDown
<1>13. CASE \/ OnImportImages \/ OnOpenPdf \/ OnAddPdfs
            \/ OnSavePdf \/ OnExtractPages \/ OnSplitPdf \/ OnAddToGed
            \/ GedAnswered \/ OperationEnds \/ CleanupOperation
            \/ SetCurrentPage \/ UNCHANGED captureVars
  BY <1>13, OperationsAside, AsideStands
<1> QED
  BY <1>1, <1>2, <1>3, <1>4, <1>5, <1>6, <1>7, <1>8, <1>9, <1>10, <1>11, <1>12,
     <1>13 DEF CaptureNext, Worker, User

-----------------------------------------------------------------------------
(* What the user sees and what is done                                     *)

LEMMA KeptEdgesAnswer ==
  ASSUME CaptureInv, EdgesContinue, pages' \in Seq(Page)
  PROVE  DetectionAnswers
<1>1. made \in Nat
  BY DEF CaptureInv, CaptureShape
<1>2. \A i \in DOMAIN pages : pages[i].id \in Nat /\ pages[i].id <= made
  BY PageTyped DEF CaptureInv, CaptureShape, PagesApart
<1>3. \A i \in DOMAIN pages, j \in DOMAIN pages' :
        pages[i].id = pages'[j].id => pages'[j].edges = pages[i].edges
  <2> SUFFICES ASSUME NEW i \in DOMAIN pages, NEW j \in DOMAIN pages',
                      pages[i].id = pages'[j].id
               PROVE  pages'[j].edges = pages[i].edges
    OBVIOUS
  <2>1. ~(pages'[j].id > made)
    BY <1>1, <1>2
  <2>2. PICK m \in DOMAIN pages : /\ pages'[j].id = pages[m].id
                                  /\ pages'[j].edges = pages[m].edges
    BY <2>1 DEF EdgesContinue
  <2> QED
    BY <2>2 DEF CaptureInv, PagesApart
<1> QED
  BY <1>3 DEF DetectionAnswers

LEMMA SamePagesAnswer ==
  ASSUME CaptureInv, UNCHANGED pages
  PROVE  DetectionAnswers
  BY DEF DetectionAnswers, CaptureInv, PagesApart

\* The page that was read is still to be examined.
LEMMA ScanAnswers ==
  ASSUME CaptureInv, ScanSucceeds
  PROVE  DetectionAnswers
<1> DEFINE p == NewPage(scan.page, TRUE)
           n == Len(pages)
<1>1. scan # NoWorker /\ scan \in Scan /\ pages \in Seq(Page)
  BY DEF ScanSucceeds, CaptureInv, CaptureShape
<1>2. p \in Page /\ p.edges = "none"
  BY <1>1 DEF NewPage, Page, Edges, Scan
<1>3. UNCHANGED pages \/ pages' = pages \o <<p>>
  BY DEF ScanSucceeds, AddPages
<1> HIDE DEF p
<1>4. CASE UNCHANGED pages
  BY <1>4, SamePagesAnswer
<1>5. CASE pages' = pages \o <<p>>
  <2>1. /\ DOMAIN pages = 1 .. n /\ DOMAIN pages' = 1 .. n + 1 /\ n \in Nat
        /\ \A k \in 1 .. n : pages'[k] = pages[k]
        /\ pages'[n + 1] = p
    BY <1>1, <1>2, <1>5, OnePageMore
  <2>2. \A j \in DOMAIN pages' : (j \in 1 .. n /\ pages'[j] = pages[j])
                                  \/ pages'[j].edges = "none"
    BY <1>2, <2>1
  <2> QED
    BY <2>1, <2>2 DEF DetectionAnswers, CaptureInv, PagesApart
<1> QED
  BY <1>3, <1>4, <1>5

LEMMA EveryAnswer ==
  CaptureInv /\ [CaptureNext]_captureVars => DetectionAnswers
<1> SUFFICES ASSUME CaptureInv, [CaptureNext]_captureVars
             PROVE  DetectionAnswers
  OBVIOUS
<1>1. CaptureInv'
  BY CaptureStep
<1>2. pages' \in Seq(Page)
  BY <1>1 DEF CaptureInv, CaptureShape
<1>3. CASE UNCHANGED pages
  BY <1>3, SamePagesAnswer
<1>4. CASE ScanSucceeds
  BY <1>4, ScanAnswers
<1>5. CASE OnPagesLoaded \/ ReplaceWithPdf
  BY <1>2, <1>5, PagesCome, KeptEdgesAnswer
<1>6. CASE ManualGeometry \/ ResetGeometry
  BY <1>6, EdgesByHand
<1>7. CASE \E k \in DOMAIN detections : GeometryReady(k)
  BY <1>7, EdgesFound
<1>8. CASE OnRemovePages \/ OnReorderPages \/ OnRotatePages
  BY <1>2, <1>8, PagesRearranged, KeptEdgesAnswer
<1>9. CASE ClearWorkspace
  BY <1>2, <1>9, Cleared, KeptEdgesAnswer
<1>10. CASE \/ OnScanRequested \/ ScanFails \/ CleanupScanWorker
            \/ RenderSucceeded \/ RenderFails \/ CleanupRender
            \/ ToggleCrop \/ OnDetect \/ Shutdown
            \/ \E k \in DOMAIN detections : GeometryFails(k) \/ GeometryFinished(k)
  <2>1. UNCHANGED pages
    BY <1>10 DEF OnScanRequested, ScanFails, CleanupScanWorker, RenderSucceeded,
         RenderFails, CleanupRender, ToggleCrop, OnDetect, Shutdown,
         GeometryFails, GeometryFinished, workspace
  <2> QED
    BY <1>3, <2>1
<1>11. CASE \/ OnImportImages \/ OnOpenPdf \/ OnAddPdfs
            \/ OnSavePdf \/ OnExtractPages \/ OnSplitPdf \/ OnAddToGed
            \/ GedAnswered \/ OperationEnds \/ CleanupOperation
            \/ SetCurrentPage \/ UNCHANGED captureVars
  <2>1. UNCHANGED pages
    BY <1>11, OperationsAside DEF Aside
  <2> QED
    BY <1>3, <2>1
<1> QED
  BY <1>4, <1>5, <1>6, <1>7, <1>8, <1>9, <1>10, <1>11 DEF CaptureNext, Worker, User

\* Lists that look alike still do when the same rows are taken from both.
LEMMA PartShows ==
  ASSUME CaptureInv, Shows(shown, pages), NEW chosen
  PROVE  Shows([shown EXCEPT !.pages = Keep(@, chosen)], Keep(pages, chosen))
<1> DEFINE a == shown.pages
           c == shown.crop
           S == chosen \cap DOMAIN pages
           f == InOrder(S)
           n == Cardinality(S)
           look(p) == [id |-> p.id, turn |-> p.turn, cut |-> c /\ CanCrop(p)]
<1>1. pages \in Seq(Page) /\ a \in Seq(Page)
  BY DEF CaptureInv, CaptureShape
<1>2. [k \in DOMAIN a |-> look(a[k])] = [k \in DOMAIN pages |-> look(pages[k])]
  BY DEF Shows, Cut
<1> HIDE DEF look
<1>3. /\ DOMAIN a = DOMAIN pages
      /\ \A k \in DOMAIN pages : look(a[k]) = look(pages[k])
  BY <1>2
<1>4. S = chosen \cap DOMAIN a
  BY <1>3
<1>5. /\ f \in [1 .. n -> S]
      /\ DOMAIN Keep(pages, chosen) = 1 .. n
      /\ \A k \in 1 .. n : Keep(pages, chosen)[k] = pages[f[k]]
  BY <1>1, KeepIsPart
<1>6. /\ DOMAIN Keep(a, chosen) = 1 .. n
      /\ \A k \in 1 .. n : Keep(a, chosen)[k] = a[f[k]]
  <2> DEFINE T == chosen \cap DOMAIN a
  <2>1. /\ DOMAIN Keep(a, chosen) = 1 .. Cardinality(T)
        /\ \A k \in 1 .. Cardinality(T) : Keep(a, chosen)[k] = a[InOrder(T)[k]]
    BY <1>1, KeepIsPart
  <2>2. T = S
    BY <1>4
  <2> HIDE DEF T, S
  <2> QED
    BY <2>1, <2>2
<1> HIDE DEF f, n
<1>7. \A k \in 1 .. n : look(Keep(a, chosen)[k]) = look(Keep(pages, chosen)[k])
  BY <1>3, <1>5, <1>6
<1>8. [k \in DOMAIN Keep(a, chosen) |-> look(Keep(a, chosen)[k])]
        = [k \in DOMAIN Keep(pages, chosen) |-> look(Keep(pages, chosen)[k])]
  BY <1>5, <1>6, <1>7
<1>9. Cut(Keep(a, chosen), c) = Cut(Keep(pages, chosen), c)
  BY <1>8 DEF Cut, look
<1>10. /\ [shown EXCEPT !.pages = Keep(@, chosen)].pages = Keep(a, chosen)
       /\ [shown EXCEPT !.pages = Keep(@, chosen)].crop = c
  BY DEF CaptureInv, CaptureShape
<1> HIDE DEF a, c
<1> QED
  BY <1>9, <1>10 DEF Shows

\* With no preview on its way, what is seen is what there is.
LEMMA SettledShows ==
  ASSUME CaptureInv, PreviewIsUpToDate, pages # <<>>, ~blind, ~closing
  PROVE  Shows(shown, pages)
  BY DEF CaptureInv, PreviewFollows, PreviewIsUpToDate

LEMMA SavingShows ==
  CaptureInv /\ [CaptureNext]_captureVars => SaveShows
<1> SUFFICES ASSUME CaptureInv, [CaptureNext]_captureVars,
                    op = NoWorker, op' # NoWorker,
                    op'.kind \in Writes \ {"ged"}, ~blind
             PROVE  \/ Shows(shown, op'.pages)
                    \/ /\ op'.kind = "extract"
                       /\ \E chosen \in Selections :
                            Shows([shown EXCEPT !.pages = Keep(@, chosen)],
                                  op'.pages)
  BY DEF SaveShows
<1>1. CASE OnSavePdf \/ OnSplitPdf
  <2>1. /\ PreviewIsUpToDate /\ pages # <<>> /\ ~closing
        /\ \E kind \in Writes : MaterializeTo(kind, pages)
    BY <1>1 DEF OnSavePdf, OnSplitPdf, Gesture, Writes
  <2>2. op'.pages = pages
    BY <2>1 DEF MaterializeTo, StartOperation
  <2> QED
    BY <2>1, <2>2, SettledShows
<1>2. CASE OnExtractPages
  <2>1. PICK chosen \in Selections :
          /\ chosen \cap DOMAIN pages # {}
          /\ MaterializeTo("extract", Keep(pages, chosen))
    BY <1>2 DEF OnExtractPages
  <2>2. op'.pages = Keep(pages, chosen) /\ op'.kind = "extract"
    BY <2>1 DEF MaterializeTo, StartOperation
  <2>3. PreviewIsUpToDate /\ ~closing /\ pages # <<>>
    BY <1>2, <2>1 DEF OnExtractPages, Gesture
  <2>4. Shows([shown EXCEPT !.pages = Keep(@, chosen)], Keep(pages, chosen))
    BY <2>3, SettledShows, PartShows
  <2> QED
    BY <2>2, <2>4
<1>3. CASE OnImportImages \/ OnOpenPdf \/ OnAddPdfs \/ GedAnswered
  <2>1. op' = op \/ op'.kind \in Loads \cup {"ged"}
    <3>1. \/ op' = op
          \/ \E kind \in Loads \cup {"ged"} : \E ps \in {<<>>, pages} :
                StartOperation(kind, ps)
      BY <1>3 DEF OnImportImages, OnOpenPdf, OnAddPdfs, OnImport, GedAnswered,
                  Loads
    <3>2. ASSUME NEW kind \in Loads \cup {"ged"}, NEW ps, StartOperation(kind, ps)
          PROVE  op'.kind = kind
      BY <3>2 DEF StartOperation
    <3> QED
      BY <3>1, <3>2
  <2> QED
    BY <2>1 DEF Writes, Loads
<1>4. CASE ~(\/ OnSavePdf \/ OnSplitPdf \/ OnExtractPages
             \/ OnImportImages \/ OnOpenPdf \/ OnAddPdfs \/ GedAnswered)
  <2>1. \/ UNCHANGED op
        \/ op # NoWorker
    BY <1>4 DEF CaptureNext, Worker, User, captureVars, OnScanRequested,
         ScanSucceeds, ScanFails, CleanupScanWorker, OnPagesLoaded,
         ReplaceWithPdf, Delivers, OperationEnds, CleanupOperation,
         RenderSucceeded, RenderFails, CleanupRender, GeometryReady,
         GeometryFails, GeometryFinished, OnAddToGed, ToggleCrop,
         SetCurrentPage, OnDetect, ManualGeometry, ResetGeometry, SetEdges,
         OnRemovePages, OnReorderPages, OnRotatePages, PagesGesture,
         ClearWorkspace, Shutdown
  <2> QED
    BY <2>1
<1> QED
  BY <1>1, <1>2, <1>3, <1>4

\* After "Limpar" (CapturePdfController.clear_workspace) no page that was there
\* or that the scanner was reading comes back, into the workspace or into its
\* preview, whatever workers were on their way.
THEOREM ClearingIsFinal == CaptureSpec => []ClearedStaysCleared
<1>1. CaptureInv => ClearedStaysCleared
  BY DEF CaptureInv
<1> QED
  BY <1>1, CaptureBegins, CaptureStep, PTL DEF CaptureSpec

\* What is saved, extracted or split is what the preview shows (on_save_pdf and
\* its like over _schedule_render), and a late detection (_geometry_ready) takes
\* back no edges that the page was given since.
THEOREM UserHasTheLastWord == CaptureSpec => UserDecides
<1>1. CaptureSpec => []CaptureInv
  BY CaptureBegins, CaptureStep, PTL DEF CaptureSpec
<1>2. CaptureSpec => [][SaveShows]_captureVars
  BY <1>1, SavingShows, PTL DEF CaptureSpec
<1>3. CaptureSpec => [][DetectionAnswers]_captureVars
  BY <1>1, EveryAnswer, PTL DEF CaptureSpec
<1> QED
  BY <1>2, <1>3 DEF UserDecides, SavedAsShown, DetectionStands
=============================================================================
