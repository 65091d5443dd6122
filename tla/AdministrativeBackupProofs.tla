----------------------- MODULE AdministrativeBackupProofs -----------------------
(***************************************************************************)
(* Proofs about AdministrativeBackup, for any numbers of records, signers, *)
(* output files and documents: evidence is kept whatever fails or dies,    *)
(* and a published backup holds what its copy of the database names.  Then *)
(* about DatabaseUpgrade, for any database an earlier version leaves and   *)
(* any number of interruptions: nothing is lost on the way.                *)
(***************************************************************************)
EXTENDS AdministrativeBackup, DatabaseUpgrade, Integers, TLAPS, FiniteSetTheorems,
        WellFoundedInduction, NaturalsInduction

Steps == {"idle", "produce", "begin", "preserve", "link", "activate", "fail", "unlink"}
Status == {"none", "PENDING", "ACTIVE", "FAILED", "REVOKED"}
Row == [status : Status, hash : Records \cup {None}]
ThreadRow == [pc : Steps, rec : Records \cup {0}, path : Outputs \cup {None}]
Works(t) == thread[t].pc # "idle"

\* The variables as the definitions use them.
Shape ==
  /\ record \in [Records -> Row]
  /\ artifact \in [Records -> Records \cup {None}]
  /\ part \in [Records -> Records \cup {None}]
  /\ output \in [Outputs -> Records \cup {None}]
  /\ pdf \subseteq Records
  /\ receipt \in Records \cup {None}
  /\ proof \in Records \cup {None}
  /\ thread \in [Threads -> ThreadRow]

\* An operation works on a record of its own, which is not valid before it says so;
\* the steps it has are those of its kind.
Alone ==
  \A t \in Threads : Works(t) =>
    /\ Rec(t) \in Records
    /\ record[Rec(t)].status # "none"
    /\ \A u \in Threads : Works(u) /\ Rec(u) = Rec(t) => u = t
    /\ t \in Signers => thread[t].pc # "begin" /\ thread[t].path \in Outputs
    /\ t \notin Signers => thread[t].pc # "produce"
    /\ thread[t].pc = "unlink" => t = "acknowledge"
    /\ t = "acknowledge" => ~Finalized(Rec(t))
    /\ t # "acknowledge" => Rec(t) \notin pdf

\* The bytes go from the PDF to the temporary and the canonical file unchanged.
BytesFollow ==
  \A t \in Threads :
    /\ At(t, "preserve") /\ t \in Signers => output[thread[t].path] = Rec(t)
    /\ At(t, "link") => part[Rec(t)] = Rec(t)
    /\ At(t, "activate") => artifact[Rec(t)] = Rec(t)

\* A receipt has its PDF as long as its operation may succeed.
ReceiptFollows ==
  thread["acknowledge"].pc \in {"preserve", "link", "activate"} => Rec("acknowledge") \in pdf

\* A record nobody has made yet has no files.
Untouched ==
  \A r \in Records : record[r].status = "none" =>
    record[r] = NoRecord /\ artifact[r] = None /\ r \notin pdf

\* A transaction is that of one operation or deletion, which is in it.
LockHeld ==
  /\ lock \in Threads \cup Documents \cup {None}
  /\ lock \in Threads => lock \notin Signers /\ thread[lock].pc \in {"preserve", "link", "activate"}

OneValid ==
  /\ receipt # None => Finalized(receipt) /\ receipt \in pdf
  /\ proof # None => Finalized(proof)
  /\ \A r \in pdf : Finalized(r) => r = receipt

EvidenceInv ==
  /\ Shape
  /\ Alone
  /\ BytesFollow
  /\ ReceiptFollows
  /\ Untouched
  /\ LockHeld
  /\ FinalizedIsKept
  /\ OneValid
-----------------------------------------------------------------------------
(* What a backup has listed.                                               *)

\* An import has no row yet, a document put aside has no file.
WorkApart ==
  /\ row \subseteq Documents /\ file \subseteq Documents
  /\ work \in [Documents -> {"idle", "stored", "aside"}]
  /\ \A d \in Documents : /\ work[d] = "stored" => d \notin row
                          /\ work[d] = "aside" => d \notin file

Reading == backup.pc \in {"list", "copy", "published"}

ReadingBackup ==
  [pc : {"list", "copy", "published"},
   db : [final : SUBSET Records, receipt : Records \cup {None}, row : SUBSET Documents],
   listed : SUBSET ({"storage", "artifacts", "part", "receipts"} \X (Documents \cup Records)),
   tree : 1 .. 4]

\* What the copied database names is still there until its tree is listed, and
\* then it is on the list.
Listing ==
  /\ ~Reading => backup.pc \in {"idle", "snapshot"}
  /\ Reading =>
       /\ backup \in ReadingBackup
       /\ backup.pc = "list" <=> backup.tree < 4
       /\ \A r \in backup.db.final :
            /\ artifact[r] # None
            /\ backup.tree > 2 => <<"artifacts", r>> \in backup.listed
       /\ backup.db.receipt # None =>
            /\ backup.db.receipt = receipt
            /\ backup.tree > 3 => <<"receipts", backup.db.receipt>> \in backup.listed
       /\ \A d \in backup.db.row \ moving :
            /\ backup.tree = 1 => d \in row /\ d \in file /\ work[d] = "idle"
            /\ backup.tree > 1 => <<"storage", d>> \in backup.listed

IInv == EvidenceInv /\ WorkApart /\ Listing
-----------------------------------------------------------------------------
(* The two tables keep their types when one field of a row changes.        *)

\* Of an operation, its step.
LEMMA StepTyped ==
  ASSUME thread \in [Threads -> ThreadRow], NEW t \in Threads, NEW pc \in Steps
  PROVE  [thread EXCEPT ![t].pc = pc] \in [Threads -> ThreadRow]
<1>1. [thread[t] EXCEPT !.pc = pc] \in ThreadRow
  BY DEF ThreadRow
<1> QED
  BY <1>1

\* Of a record, its status.
LEMMA StatusTyped ==
  ASSUME record \in [Records -> Row], NEW r \in Records, NEW st \in Status
  PROVE  [record EXCEPT ![r].status = st] \in [Records -> Row]
<1>1. [record[r] EXCEPT !.status = st] \in Row
  BY DEF Row
<1> QED
  BY <1>1

-----------------------------------------------------------------------------
(* The evidence, step by step.                                             *)

\* A signature starts with a new record.
LEMMA SignKeeps ==
  ASSUME EvidenceInv, NEW s \in Signers, Sign(s)
  PROVE  EvidenceInv'
<1> USE ValidationAssumption DEF EvidenceInv, Shape, Records, Rec, Works, At, Sign, CreatePending, NoRecord, Idle, Free, files, links
<1>1. Shape'
  BY DEF Alone, Row, Steps, Status, Threads, ThreadRow
<1>2. Alone'
  BY DEF Alone, Untouched, Finalized, Threads
<1>3. BytesFollow'
  BY DEF Alone, BytesFollow, Threads
<1>4. ReceiptFollows'
  BY DEF Alone, ReceiptFollows, Threads
<1>5. Untouched'
  BY DEF Alone, Untouched, Row
<1>6. LockHeld'
  BY DEF Alone, LockHeld, Threads
<1>7. FinalizedIsKept'
  BY DEF Alone, BytesFollow, FinalizedIsKept, Finalized, Row, Threads
<1>8. OneValid'
  BY DEF Alone, ReceiptFollows, Untouched, OneValid, Finalized, Threads
<1> QED
  BY <1>1, <1>2, <1>3, <1>4, <1>5, <1>6, <1>7, <1>8

\* So does a receipt.
LEMMA AcknowledgeKeeps ==
  ASSUME EvidenceInv, AcknowledgeDelivery
  PROVE  EvidenceInv'
<1> USE ValidationAssumption DEF EvidenceInv, Shape, Records, Rec, Works, At, AcknowledgeDelivery, CreatePending, NoRecord, Idle, Free, files, links
<1>1. Shape'
  BY DEF Alone, Row, Steps, Status, Threads, ThreadRow
<1>2. Alone'
  BY DEF Alone, Untouched, Finalized, Threads
<1>3. BytesFollow'
  BY DEF Alone, BytesFollow, Threads
<1>4. ReceiptFollows'
  BY DEF Alone, ReceiptFollows, Threads
<1>5. Untouched'
  BY DEF Alone, Untouched, Row
<1>6. LockHeld'
  BY DEF Alone, LockHeld, Threads
<1>7. FinalizedIsKept'
  BY DEF Alone, BytesFollow, FinalizedIsKept, Finalized, Row, Threads
<1>8. OneValid'
  BY DEF Alone, ReceiptFollows, Untouched, OneValid, Finalized, Threads
<1> QED
  BY <1>1, <1>2, <1>3, <1>4, <1>5, <1>6, <1>7, <1>8

\* So does a proof of submission.
LEMMA SubmitKeeps ==
  ASSUME EvidenceInv, ProveSubmission
  PROVE  EvidenceInv'
<1> USE ValidationAssumption DEF EvidenceInv, Shape, Records, Rec, Works, At, ProveSubmission, CreatePending, NoRecord, Idle, Free, files, links
<1>1. Shape'
  BY DEF Alone, Row, Steps, Status, Threads, ThreadRow
<1>2. Alone'
  BY DEF Alone, Untouched, Finalized, Threads
<1>3. BytesFollow'
  BY DEF Alone, BytesFollow, Threads
<1>4. ReceiptFollows'
  BY DEF Alone, ReceiptFollows, Threads
<1>5. Untouched'
  BY DEF Alone, Untouched, Row
<1>6. LockHeld'
  BY DEF Alone, LockHeld, Threads
<1>7. FinalizedIsKept'
  BY DEF Alone, BytesFollow, FinalizedIsKept, Finalized, Row, Threads
<1>8. OneValid'
  BY DEF Alone, ReceiptFollows, Untouched, OneValid, Finalized, Threads
<1> QED
  BY <1>1, <1>2, <1>3, <1>4, <1>5, <1>6, <1>7, <1>8

\* The signed copy is published where there is none.
LEMMA ProduceKeeps ==
  ASSUME EvidenceInv, NEW s \in Signers, Produce(s)
  PROVE  EvidenceInv'
<1> USE ValidationAssumption DEF EvidenceInv, Shape, Records, Rec, Works, At, Produce, Goes, links
<1>1. Shape'
  <2>1. thread' \in [Threads -> ThreadRow]
    BY StepTyped DEF Steps, ThreadRow, Threads
  <2> QED
    BY <2>1 DEF Alone, Row, Status, Threads
<1>2. Alone'
  BY DEF Alone, Untouched, Finalized, Threads
<1>3. BytesFollow'
  BY DEF Alone, BytesFollow, Threads
<1>4. ReceiptFollows'
  BY DEF Alone, ReceiptFollows, Threads
<1>5. Untouched'
  BY DEF Alone, Untouched, Row
<1>6. LockHeld'
  BY DEF Alone, LockHeld, Threads
<1>7. FinalizedIsKept'
  BY DEF Alone, BytesFollow, FinalizedIsKept, Finalized, Row, Threads
<1>8. OneValid'
  BY DEF Alone, ReceiptFollows, Untouched, OneValid, Finalized, Threads
<1> QED
  BY <1>1, <1>2, <1>3, <1>4, <1>5, <1>6, <1>7, <1>8

\* The transaction is opened, the PDF of a receipt generated.
LEMMA BeginKeeps ==
  ASSUME EvidenceInv, NEW t \in Threads \ Signers, BeginTransaction(t)
  PROVE  EvidenceInv'
<1> USE ValidationAssumption DEF EvidenceInv, Shape, Records, Rec, Works, At, BeginTransaction, Goes, links, Free
<1>1. Shape'
  <2>1. thread' \in [Threads -> ThreadRow]
    BY StepTyped DEF Steps, ThreadRow, Threads
  <2> QED
    BY <2>1 DEF Alone, Row, Status, Threads
<1>2. Alone'
  BY DEF Alone, Untouched, Finalized, Threads
<1>3. BytesFollow'
  BY DEF Alone, BytesFollow, Threads
<1>4. ReceiptFollows'
  BY DEF Alone, ReceiptFollows, Threads
<1>5. Untouched'
  BY DEF Alone, Untouched, Row
<1>6. LockHeld'
  BY DEF Alone, LockHeld, Threads
<1>7. FinalizedIsKept'
  BY DEF Alone, BytesFollow, FinalizedIsKept, Finalized, Row, Threads
<1>8. OneValid'
  BY DEF Alone, ReceiptFollows, Untouched, OneValid, Finalized, Threads
<1> QED
  BY <1>1, <1>2, <1>3, <1>4, <1>5, <1>6, <1>7, <1>8

\* The temporary copy is of the record's own PDF.
LEMMA WritePartKeeps ==
  ASSUME EvidenceInv, NEW t \in Threads, WritePart(t)
  PROVE  EvidenceInv'
<1> USE ValidationAssumption DEF EvidenceInv, Shape, Records, Rec, Works, At, WritePart, Goes, SourceOf, links, MayUse
<1>1. Shape'
  <2>1. thread' \in [Threads -> ThreadRow]
    BY StepTyped DEF Steps, ThreadRow, Threads
  <2> QED
    BY <2>1 DEF Alone, Row, Status, Threads
<1>2. Alone'
  BY DEF Alone, Untouched, Finalized, Threads
<1>3. BytesFollow'
  BY DEF Alone, BytesFollow, Threads
<1>4. ReceiptFollows'
  BY DEF Alone, ReceiptFollows, Threads
<1>5. Untouched'
  BY DEF Alone, Untouched, Row
<1>6. LockHeld'
  BY DEF Alone, LockHeld, Threads
<1>7. FinalizedIsKept'
  BY DEF Alone, BytesFollow, FinalizedIsKept, Finalized, Row, Threads
<1>8. OneValid'
  BY DEF Alone, ReceiptFollows, Untouched, OneValid, Finalized, Threads
<1> QED
  BY <1>1, <1>2, <1>3, <1>4, <1>5, <1>6, <1>7, <1>8

\* The canonical file is that copy.
LEMMA LinkKeeps ==
  ASSUME EvidenceInv, NEW t \in Threads, Link(t)
  PROVE  EvidenceInv'
<1> USE ValidationAssumption DEF EvidenceInv, Shape, Records, Rec, Works, At, Link, Goes, links
<1>1. Shape'
  <2>1. thread' \in [Threads -> ThreadRow]
    BY StepTyped DEF Steps, ThreadRow, Threads
  <2> QED
    BY <2>1 DEF Alone, Row, Status, Threads
<1>2. Alone'
  BY DEF Alone, Untouched, Finalized, Threads
<1>3. BytesFollow'
  BY DEF Alone, BytesFollow, Threads
<1>4. ReceiptFollows'
  BY DEF Alone, ReceiptFollows, Threads
<1>5. Untouched'
  BY DEF Alone, Untouched, Row
<1>6. LockHeld'
  BY DEF Alone, LockHeld, Threads
<1>7. FinalizedIsKept'
  BY DEF Alone, BytesFollow, FinalizedIsKept, Finalized, Row, Threads
<1>8. OneValid'
  BY DEF Alone, ReceiptFollows, Untouched, OneValid, Finalized, Threads
<1> QED
  BY <1>1, <1>2, <1>3, <1>4, <1>5, <1>6, <1>7, <1>8

\* Without the link the operation fails, with its temporary copy removed.
LEMMA LinkFailsKeeps ==
  ASSUME EvidenceInv, NEW t \in Threads, LinkFails(t)
  PROVE  EvidenceInv'
<1> USE ValidationAssumption DEF EvidenceInv, Shape, Records, Rec, Works, At, LinkFails, Goes, links
<1>1. Shape'
  <2>1. thread' \in [Threads -> ThreadRow]
    BY StepTyped DEF Steps, ThreadRow, Threads
  <2> QED
    BY <2>1 DEF Alone, Row, Status, Threads
<1>2. Alone'
  BY DEF Alone, Untouched, Finalized, Threads
<1>3. BytesFollow'
  BY DEF Alone, BytesFollow, Threads
<1>4. ReceiptFollows'
  BY DEF Alone, ReceiptFollows, Threads
<1>5. Untouched'
  BY DEF Alone, Untouched, Row
<1>6. LockHeld'
  BY DEF Alone, LockHeld, Threads
<1>7. FinalizedIsKept'
  BY DEF Alone, BytesFollow, FinalizedIsKept, Finalized, Row, Threads
<1>8. OneValid'
  BY DEF Alone, ReceiptFollows, Untouched, OneValid, Finalized, Threads
<1> QED
  BY <1>1, <1>2, <1>3, <1>4, <1>5, <1>6, <1>7, <1>8

\* A signature's record vouches for its canonical file.
LEMMA ActivateKeeps ==
  ASSUME EvidenceInv, NEW s \in Signers, Activate(s)
  PROVE  EvidenceInv'
<1> USE ValidationAssumption DEF EvidenceInv, Shape, Records, Rec, Works, At, Activate, Activated, Ends, Idle, files, links, Free
<1>1. Shape'
  BY DEF Alone, Row, Steps, Status, Threads, ThreadRow
<1>2. Alone'
  BY DEF Alone, Untouched, Finalized, Threads
<1>3. BytesFollow'
  BY DEF Alone, BytesFollow, Threads
<1>4. ReceiptFollows'
  BY DEF Alone, ReceiptFollows, Threads
<1>5. Untouched'
  BY DEF Alone, Untouched, Row
<1>6. LockHeld'
  BY DEF Alone, LockHeld, Threads
<1>7. FinalizedIsKept'
  BY DEF Alone, BytesFollow, FinalizedIsKept, Finalized, Row, Threads
<1>8. OneValid'
  BY DEF Alone, ReceiptFollows, Untouched, OneValid, Finalized, Threads
<1> QED
  BY <1>1, <1>2, <1>3, <1>4, <1>5, <1>6, <1>7, <1>8

\* So does a receipt's, in the step that makes it the delivery's.
LEMMA ReceiptKeeps ==
  ASSUME EvidenceInv, CommitReceipt
  PROVE  EvidenceInv'
<1> USE ValidationAssumption DEF EvidenceInv, Shape, Records, Rec, Works, At, CommitReceipt, Activated, Ends, Idle, files
<1>1. Shape'
  BY DEF Alone, Row, Steps, Status, Threads, ThreadRow
<1>2. Alone'
  BY DEF Alone, Untouched, Finalized, Threads
<1>3. BytesFollow'
  BY DEF Alone, BytesFollow, Threads
<1>4. ReceiptFollows'
  BY DEF Alone, ReceiptFollows, Threads
<1>5. Untouched'
  BY DEF Alone, Untouched, Row
<1>6. LockHeld'
  BY DEF Alone, LockHeld, Threads
<1>7. FinalizedIsKept'
  BY DEF Alone, BytesFollow, FinalizedIsKept, Finalized, Row, Threads
<1>8. OneValid'
  BY DEF Alone, ReceiptFollows, Untouched, OneValid, Finalized, Threads
<1> QED
  BY <1>1, <1>2, <1>3, <1>4, <1>5, <1>6, <1>7, <1>8

\* So does a proof's, even if the operation then fails.
LEMMA ProofKeeps ==
  ASSUME EvidenceInv, CommitProof
  PROVE  EvidenceInv'
<1> USE ValidationAssumption DEF EvidenceInv, Shape, Records, Rec, Works, At, CommitProof, Activated, Idle, files
<1>1. Shape'
  <2>1. ASSUME Ends("submit") PROVE thread' \in [Threads -> ThreadRow]
    BY <2>1, StepTyped DEF Ends, Steps, ThreadRow, Threads
  <2>2. ASSUME Goes("submit", "fail") PROVE thread' \in [Threads -> ThreadRow]
    BY <2>2, StepTyped DEF Goes, Steps, ThreadRow, Threads
  <2> QED
    BY <2>1, <2>2 DEF Alone, Row, Status, Threads
<1>2. Alone'
  <2>1. CASE Ends("submit")
    BY <2>1 DEF Alone, Untouched, Finalized, Threads, Ends
  <2>2. CASE Goes("submit", "fail")
    BY <2>2 DEF Alone, Untouched, Finalized, Threads, Goes
  <2> QED
    BY <2>1, <2>2
<1>3. BytesFollow'
  <2>1. CASE Ends("submit")
    BY <2>1 DEF Alone, BytesFollow, Threads, Ends
  <2>2. CASE Goes("submit", "fail")
    BY <2>2 DEF Alone, BytesFollow, Threads, Goes
  <2> QED
    BY <2>1, <2>2
<1>4. ReceiptFollows'
  <2>1. CASE Ends("submit")
    BY <2>1 DEF Alone, ReceiptFollows, Threads, Ends
  <2>2. CASE Goes("submit", "fail")
    BY <2>2 DEF Alone, ReceiptFollows, Threads, Goes
  <2> QED
    BY <2>1, <2>2
<1>5. Untouched'
  BY DEF Alone, Untouched, Row
<1>6. LockHeld'
  <2>1. CASE Ends("submit")
    BY <2>1 DEF Alone, LockHeld, Threads, Ends
  <2>2. CASE Goes("submit", "fail")
    BY <2>2 DEF Alone, LockHeld, Threads, Goes
  <2> QED
    BY <2>1, <2>2
<1>7. FinalizedIsKept'
  BY DEF Alone, BytesFollow, FinalizedIsKept, Finalized, Row, Threads
<1>8. OneValid'
  <2>1. CASE Ends("submit")
    BY <2>1 DEF Alone, ReceiptFollows, Untouched, OneValid, Finalized, Threads, Ends
  <2>2. CASE Goes("submit", "fail")
    BY <2>2 DEF Alone, ReceiptFollows, Untouched, OneValid, Finalized, Threads, Goes
  <2> QED
    BY <2>1, <2>2
<1> QED
  BY <1>1, <1>2, <1>3, <1>4, <1>5, <1>6, <1>7, <1>8

\* A failure rolls its transaction back.
LEMMA FailsKeeps ==
  ASSUME EvidenceInv, NEW t \in Threads, Fails(t)
  PROVE  EvidenceInv'
<1> USE ValidationAssumption DEF EvidenceInv, Shape, Records, Rec, Works, At, Fails, Goes, files, links
<1>1. Shape'
  <2>1. thread' \in [Threads -> ThreadRow]
    BY StepTyped DEF Steps, ThreadRow, Threads
  <2> QED
    BY <2>1 DEF Alone, Row, Status, Threads
<1>2. Alone'
  BY DEF Alone, Untouched, Finalized, Threads
<1>3. BytesFollow'
  BY DEF Alone, BytesFollow, Threads
<1>4. ReceiptFollows'
  BY DEF Alone, ReceiptFollows, Threads
<1>5. Untouched'
  BY DEF Alone, Untouched, Row
<1>6. LockHeld'
  BY DEF Alone, LockHeld, Threads
<1>7. FinalizedIsKept'
  BY DEF Alone, BytesFollow, FinalizedIsKept, Finalized, Row, Threads
<1>8. OneValid'
  BY DEF Alone, ReceiptFollows, Untouched, OneValid, Finalized, Threads
<1> QED
  BY <1>1, <1>2, <1>3, <1>4, <1>5, <1>6, <1>7, <1>8

\* Only a pending record is failed.
LEMMA FailPendingKeeps ==
  ASSUME EvidenceInv, NEW t \in Threads, FailPending(t)
  PROVE  EvidenceInv'
<1> USE ValidationAssumption DEF EvidenceInv, Shape, Records, Rec, Works, At, FailPending, Idle, files, links, Free
<1>1. Shape'
  <2>1. ASSUME t = "acknowledge" /\ Goes(t, "unlink") PROVE thread' \in [Threads -> ThreadRow]
    BY <2>1, StepTyped DEF Goes, Steps, ThreadRow, Threads
  <2>2. ASSUME t # "acknowledge" /\ Ends(t) PROVE thread' \in [Threads -> ThreadRow]
    BY <2>2, StepTyped DEF Ends, Steps, ThreadRow, Threads
  <2>3. record' \in [Records -> Row]
    BY StatusTyped DEF Alone, Status, Threads
  <2> QED
    BY <2>1, <2>2, <2>3 DEF AfterFailure
<1>2. Alone'
  <2>1. CASE t = "acknowledge" /\ Goes(t, "unlink")
    BY <2>1 DEF Alone, Untouched, Finalized, Threads, Goes
  <2>2. CASE t # "acknowledge" /\ Ends(t)
    BY <2>2 DEF Alone, Untouched, Finalized, Threads, Ends
  <2> QED
    BY <2>1, <2>2 DEF AfterFailure
<1>3. BytesFollow'
  <2>1. CASE t = "acknowledge" /\ Goes(t, "unlink")
    BY <2>1 DEF Alone, BytesFollow, Threads, Goes
  <2>2. CASE t # "acknowledge" /\ Ends(t)
    BY <2>2 DEF Alone, BytesFollow, Threads, Ends
  <2> QED
    BY <2>1, <2>2 DEF AfterFailure
<1>4. ReceiptFollows'
  <2>1. CASE t = "acknowledge" /\ Goes(t, "unlink")
    BY <2>1 DEF Alone, ReceiptFollows, Threads, Goes
  <2>2. CASE t # "acknowledge" /\ Ends(t)
    BY <2>2 DEF Alone, ReceiptFollows, Threads, Ends
  <2> QED
    BY <2>1, <2>2 DEF AfterFailure
<1>5. Untouched'
  BY DEF Alone, Untouched, Row
<1>6. LockHeld'
  <2>1. CASE t = "acknowledge" /\ Goes(t, "unlink")
    BY <2>1 DEF Alone, LockHeld, Threads, Goes
  <2>2. CASE t # "acknowledge" /\ Ends(t)
    BY <2>2 DEF Alone, LockHeld, Threads, Ends
  <2> QED
    BY <2>1, <2>2 DEF AfterFailure
<1>7. FinalizedIsKept'
  BY DEF Alone, BytesFollow, FinalizedIsKept, Finalized, Row, Threads
<1>8. OneValid'
  <2>1. CASE t = "acknowledge" /\ Goes(t, "unlink")
    BY <2>1 DEF Alone, ReceiptFollows, Untouched, OneValid, Finalized, Threads, Goes
  <2>2. CASE t # "acknowledge" /\ Ends(t)
    BY <2>2 DEF Alone, ReceiptFollows, Untouched, OneValid, Finalized, Threads, Ends
  <2> QED
    BY <2>1, <2>2 DEF AfterFailure
<1> QED
  BY <1>1, <1>2, <1>3, <1>4, <1>5, <1>6, <1>7, <1>8

\* The database refuses that.
LEMMA FailRefusedKeeps ==
  ASSUME EvidenceInv, NEW t \in Threads, FailRefused(t)
  PROVE  EvidenceInv'
<1> USE ValidationAssumption DEF EvidenceInv, Shape, Records, Rec, Works, At, FailRefused, Ends, Idle, files, links
<1>1. Shape'
  BY DEF Alone, Row, Steps, Status, Threads, ThreadRow
<1>2. Alone'
  BY DEF Alone, Untouched, Finalized, Threads
<1>3. BytesFollow'
  BY DEF Alone, BytesFollow, Threads
<1>4. ReceiptFollows'
  BY DEF Alone, ReceiptFollows, Threads
<1>5. Untouched'
  BY DEF Alone, Untouched, Row
<1>6. LockHeld'
  BY DEF Alone, LockHeld, Threads
<1>7. FinalizedIsKept'
  BY DEF Alone, BytesFollow, FinalizedIsKept, Finalized, Row, Threads
<1>8. OneValid'
  BY DEF Alone, ReceiptFollows, Untouched, OneValid, Finalized, Threads
<1> QED
  BY <1>1, <1>2, <1>3, <1>4, <1>5, <1>6, <1>7, <1>8

\* The PDF removed is that of a receipt which is not valid.
LEMMA RemovePdfKeeps ==
  ASSUME EvidenceInv, RemovePdf
  PROVE  EvidenceInv'
<1> USE ValidationAssumption DEF EvidenceInv, Shape, Records, Rec, Works, At, RemovePdf, Ends, Idle, links
<1>1. Shape'
  BY DEF Alone, Row, Steps, Status, Threads, ThreadRow
<1>2. Alone'
  BY DEF Alone, Untouched, Finalized, Threads
<1>3. BytesFollow'
  BY DEF Alone, BytesFollow, Threads
<1>4. ReceiptFollows'
  BY DEF Alone, ReceiptFollows, Threads
<1>5. Untouched'
  BY DEF Alone, Untouched, Row
<1>6. LockHeld'
  BY DEF Alone, LockHeld, Threads
<1>7. FinalizedIsKept'
  BY DEF Alone, BytesFollow, FinalizedIsKept, Finalized, Row, Threads
<1>8. OneValid'
  BY DEF Alone, ReceiptFollows, Untouched, OneValid, Finalized, Threads
<1> QED
  BY <1>1, <1>2, <1>3, <1>4, <1>5, <1>6, <1>7, <1>8

\* A revoked record stays final.
LEMMA RevokeKeeps ==
  ASSUME EvidenceInv, NEW r \in Records, Revoke(r)
  PROVE  EvidenceInv'
<1> USE ValidationAssumption DEF EvidenceInv, Shape, Records, Rec, Works, At, Revoke, Free, files, links
<1>1. Shape'
  <2>1. thread' \in [Threads -> ThreadRow]
    BY StepTyped DEF Alone, Steps, ThreadRow, Threads
  <2>2. record' \in [Records -> Row]
    BY StatusTyped DEF Alone, Status, Threads
  <2> QED
    BY <2>1, <2>2
<1>2. Alone'
  BY DEF Alone, Untouched, Finalized, Threads
<1>3. BytesFollow'
  BY DEF Alone, BytesFollow, Threads
<1>4. ReceiptFollows'
  BY DEF Alone, ReceiptFollows, Threads
<1>5. Untouched'
  BY DEF Alone, Untouched, Row
<1>6. LockHeld'
  BY DEF Alone, LockHeld, Threads
<1>7. FinalizedIsKept'
  BY DEF Alone, BytesFollow, FinalizedIsKept, Finalized, Row, Threads
<1>8. OneValid'
  BY DEF Alone, ReceiptFollows, Untouched, OneValid, Finalized, Threads
<1> QED
  BY <1>1, <1>2, <1>3, <1>4, <1>5, <1>6, <1>7, <1>8

\* The process dies.
LEMMA StopKeeps ==
  ASSUME EvidenceInv, StopValidation
  PROVE  EvidenceInv'
<1> USE ValidationAssumption DEF EvidenceInv, Shape, Records, Rec, Works, At, StopValidation, Idle, files, links
<1>1. Shape'
  BY DEF Alone, Row, Steps, Status, Threads, ThreadRow
<1>2. Alone'
  BY DEF Alone, Untouched, Finalized, Threads
<1>3. BytesFollow'
  BY DEF Alone, BytesFollow, Threads
<1>4. ReceiptFollows'
  BY DEF Alone, ReceiptFollows, Threads
<1>5. Untouched'
  BY DEF Alone, Untouched, Row
<1>6. LockHeld'
  BY DEF Alone, LockHeld, Threads
<1>7. FinalizedIsKept'
  BY DEF Alone, BytesFollow, FinalizedIsKept, Finalized, Row, Threads
<1>8. OneValid'
  BY DEF Alone, ReceiptFollows, Untouched, OneValid, Finalized, Threads
<1> QED
  BY <1>1, <1>2, <1>3, <1>4, <1>5, <1>6, <1>7, <1>8

-----------------------------------------------------------------------------
(* The evidence, whatever happens.                                         *)

\* Nothing has been made yet.
LEMMA EvidenceInitial == Init => EvidenceInv
BY ValidationAssumption
   DEF Init, ValidationInit, EvidenceInv, Shape, Alone, BytesFollow, ReceiptFollows, Untouched,
       LockHeld, FinalizedIsKept, OneValid, Finalized, Works, At, Rec, Idle, NoRecord, Row, Status,
       ThreadRow, Steps, Threads, Records

\* Steps that leave the evidence alone; the lock of a deletion is no operation's.
LEMMA EvidenceUntouched ==
  ASSUME EvidenceInv, UNCHANGED <<record, files, links, thread>>,
         lock' \in {lock, None} \cup Documents
  PROVE  EvidenceInv'
<1>1. LockHeld'
  BY ValidationAssumption, DocumentsAssumption DEF EvidenceInv, LockHeld, Threads
<1>2. Shape' /\ Untouched' /\ FinalizedIsKept' /\ OneValid'
  BY DEF EvidenceInv, Shape, Untouched, FinalizedIsKept, OneValid, Finalized, files, links
<1>3. Alone' /\ BytesFollow' /\ ReceiptFollows'
  BY DEF EvidenceInv, Alone, BytesFollow, ReceiptFollows, Finalized, Works, At, Rec, files, links
<1> QED
  BY <1>1, <1>2, <1>3 DEF EvidenceInv

\* Every step of DocumentValidation keeps the evidence, and those of BackupService do not touch it.
LEMMA EvidenceInductive ==
  ASSUME EvidenceInv, [Next]_vars
  PROVE  EvidenceInv'
<1>1. CASE ValidationNext
  BY <1>1, SignKeeps, AcknowledgeKeeps, SubmitKeeps, ProduceKeeps, BeginKeeps, WritePartKeeps,
     LinkKeeps, LinkFailsKeeps, ActivateKeeps, ReceiptKeeps, ProofKeeps, FailsKeeps,
     FailPendingKeeps, FailRefusedKeeps, RemovePdfKeeps, RevokeKeeps
     DEF ValidationNext
<1>2. ASSUME NEW d \in Documents, DocumentStep(d) PROVE EvidenceInv'
  BY <1>2, EvidenceUntouched
     DEF DocumentStep, Store, CommitImport, ImportFails, Quarantine, DeleteRow, PutBack, OnlyDocuments
<1>3. CASE Backup
  BY <1>3, EvidenceUntouched
     DEF Backup, StartBackup, CreateBackup, Snapshot, ListTree, CopyAndPublish, Report, BackupFails, OnlyBackup,
         validation, files, links
<1>4. CASE Crash
  BY <1>4, StopKeeps DEF Crash
<1>5. CASE UNCHANGED vars
  BY <1>5, EvidenceUntouched DEF vars, validation, files, links
<1> QED
  BY <1>1, <1>2, <1>3, <1>4, <1>5 DEF Next

\* A canonical file and a record that has ended stay as they are, and so does the
\* receipt of the delivery.
History ==
  /\ \A r \in Records :
       /\ artifact[r] # None => artifact'[r] = artifact[r]
       /\ record[r].status = "FAILED" => record'[r] = record[r]
       /\ Finalized(r) => record'[r].hash = record[r].hash /\ record'[r].status \in {record[r].status, "REVOKED"}
  /\ receipt # None => receipt' = receipt

\* Every step keeps the history.
LEMMA HistoryStep ==
  ASSUME EvidenceInv, [Next]_vars
  PROVE  History
<1> USE DEF EvidenceInv, Shape, History
<1>1. CASE UNCHANGED <<record, artifact, receipt>>
  BY <1>1 DEF Finalized
<1>2. ASSUME NEW t \in Threads, Link(t) PROVE History
  BY <1>2 DEF Link, links, Finalized
<1>3. ASSUME NEW t \in Threads, NEW pc, NEW path, CreatePending(t, pc, path) PROVE History
  BY <1>3 DEF CreatePending, NoRecord, files, links, Finalized, Row
<1>4. ASSUME NEW s \in Signers, Activate(s) PROVE History
  BY <1>4 DEF Activate, Activated, files, links, Finalized
<1>5. ASSUME CommitReceipt \/ CommitProof PROVE History
  BY <1>5 DEF CommitReceipt, CommitProof, Activated, files, Finalized
<1>6. ASSUME NEW t \in Threads, FailPending(t) PROVE History
  BY <1>6 DEF FailPending, files, links, Finalized
<1>7. ASSUME NEW r \in Records, Revoke(r) PROVE History
  BY <1>7 DEF Revoke, files, links, Finalized, Row
<1>8. CASE ValidationNext
  <2>1. CASE \/ \E s \in Signers : Produce(s)
             \/ RemovePdf
             \/ \E t \in Threads \ Signers : BeginTransaction(t)
             \/ \E t \in Threads : WritePart(t) \/ LinkFails(t) \/ Fails(t) \/ FailRefused(t)
    BY <2>1, <1>1 DEF Produce, RemovePdf, BeginTransaction, WritePart, LinkFails, Fails, FailRefused,
                      files, links
  <2>2. CASE \/ \E s \in Signers : Sign(s)
             \/ AcknowledgeDelivery \/ ProveSubmission
    BY <2>2, <1>3 DEF Sign, AcknowledgeDelivery, ProveSubmission, Threads
  <2> QED
    BY <1>8, <2>1, <2>2, <1>2, <1>4, <1>5, <1>6, <1>7 DEF ValidationNext
<1>9. CASE ~ValidationNext
  <2>1. UNCHANGED <<record, artifact, receipt>>
    BY <1>9 DEF Next, vars, validation, files, links, DocumentStep, Store, CommitImport, ImportFails,
       Quarantine, DeleteRow, PutBack, OnlyDocuments, Backup, StartBackup, CreateBackup, Snapshot, ListTree,
       CopyAndPublish, Report, BackupFails, OnlyBackup, Crash, StopValidation
  <2> QED
    BY <2>1, <1>1
<1> QED
  BY <1>8, <1>9
-----------------------------------------------------------------------------
(* The lists of a backup.                                                  *)

\* Imports and deletions stay apart.
LEMMA WorkInductive ==
  ASSUME WorkApart, [Next]_vars
  PROVE  WorkApart'
<1> USE DEF WorkApart
<1>1. ASSUME NEW d \in Documents, DocumentStep(d) PROVE WorkApart'
  BY <1>1 DEF DocumentStep, Store, CommitImport, ImportFails, Quarantine, DeleteRow, PutBack
<1>2. CASE UNCHANGED storage
  BY <1>2 DEF storage
<1>3. CASE Crash
  BY <1>3 DEF Crash
<1>4. CASE Backup
  BY <1>4, <1>2 DEF Backup, StartBackup, CreateBackup, Snapshot, ListTree, CopyAndPublish, Report, BackupFails,
                    OnlyBackup
<1> QED
  BY <1>1, <1>2, <1>3, <1>4 DEF Next, vars, storage

\* Every step but those of the backup leaves it alone; what it has read stays.
LEMMA ListingBeside ==
  ASSUME IInv, UNCHANGED backup, History, moving \subseteq moving',
         \A d \in Documents \ moving' :
            d \in row /\ d \in file /\ work[d] = "idle" /\ Reading /\ backup.tree = 1
            => d \in row' /\ d \in file' /\ work'[d] = "idle"
  PROVE  Listing'
BY DEF IInv, Listing, Reading, ReadingBackup, History

\* Every step keeps what the list of a backup says.
LEMMA ListingInductive ==
  ASSUME IInv, [Next]_vars
  PROVE  Listing'
<1>1. History
  BY HistoryStep DEF IInv
<1>2. CASE UNCHANGED <<storage, moving, backup>>
  BY <1>1, <1>2, ListingBeside DEF storage
<1>3. ASSUME NEW d \in Documents, DocumentStep(d) PROVE Listing'
  <2>1. UNCHANGED backup /\ moving \subseteq moving'
    BY <1>3 DEF DocumentStep, Store, CommitImport, ImportFails, Quarantine, DeleteRow, PutBack,
                OnlyDocuments
  <2>2. ASSUME NEW e \in Documents \ moving',
               e \in row /\ e \in file /\ work[e] = "idle" /\ Reading /\ backup.tree = 1
        PROVE  e \in row' /\ e \in file' /\ work'[e] = "idle"
    BY <1>3, <2>2 DEF IInv, WorkApart, Listing, DocumentStep, Store, CommitImport, ImportFails,
                      Quarantine, DeleteRow, PutBack, Reading, ReadingBackup
  <2> QED
    BY <1>1, <2>1, <2>2, ListingBeside
<1>4. ASSUME Snapshot PROVE Listing'
  BY <1>4, ValidationAssumption
     DEF IInv, EvidenceInv, Shape, FinalizedIsKept, WorkApart, Snapshot, OnlyBackup, Contents, storage,
         validation, Listing, Reading, ReadingBackup, Records, Finalized
<1>5. ASSUME ListTree PROVE Listing'
  <2>1. backup \in ReadingBackup /\ backup.tree \in 1 .. 3
    BY <1>5 DEF IInv, Listing, Reading, ListTree, ReadingBackup
  <2>2. backup'.db = backup.db /\ backup'.tree = backup.tree + 1
    BY <1>5, <2>1 DEF ListTree, ReadingBackup
  <2>3. History /\ UNCHANGED <<row, file, work, moving, record, artifact, part, pdf, receipt>>
    BY <1>1, <1>5 DEF ListTree, OnlyBackup, storage, validation, files, links
  <2>4. backup'.listed = backup.listed \cup Tree(Trees[backup.tree])
    BY <1>5, <2>1 DEF ListTree, ReadingBackup
  <2>5. Tree(Trees[backup.tree])
          \subseteq {"storage", "artifacts", "part", "receipts"} \X (Documents \cup Records)
    BY <2>1 DEF Tree, Trees, IInv, WorkApart, EvidenceInv, Shape
  <2>6. /\ backup.tree = 1 => \A d \in file : <<"storage", d>> \in Tree(Trees[backup.tree])
        /\ backup.tree = 2 => \A r \in Records : artifact[r] # None => <<"artifacts", r>> \in Tree(Trees[backup.tree])
        /\ backup.tree = 3 => \A r \in pdf : <<"receipts", r>> \in Tree(Trees[backup.tree])
    BY DEF Tree, Trees
  <2>7. backup'.pc = IF backup.tree = 3 THEN "copy" ELSE "list"
    BY <1>5, <2>1 DEF ListTree, ReadingBackup, Trees
  <2>8. backup' \in ReadingBackup /\ (backup'.pc = "list" <=> backup'.tree < 4)
    <3>1. backup' = [backup EXCEPT !.pc = backup'.pc, !.tree = backup'.tree, !.listed = backup'.listed]
      BY <1>5, <2>1 DEF ListTree, ReadingBackup
    <3> QED
      BY <2>1, <2>2, <2>4, <2>5, <2>7, <3>1 DEF ReadingBackup
  <2>9. \A r \in backup.db.final : r \in Records
    BY <2>1 DEF ReadingBackup
  <2>10. Listing /\ Reading /\ OneValid
    BY <1>5 DEF ListTree, IInv, EvidenceInv, Reading
  <2>11. ASSUME NEW r \in backup'.db.final
         PROVE  artifact'[r] # None /\ (backup'.tree > 2 => <<"artifacts", r>> \in backup'.listed)
    BY <2>1, <2>2, <2>3, <2>4, <2>6, <2>9, <2>10 DEF Listing
  <2>12. backup'.db.receipt # None =>
           /\ backup'.db.receipt = receipt'
           /\ backup'.tree > 3 => <<"receipts", backup'.db.receipt>> \in backup'.listed
    BY <2>1, <2>2, <2>3, <2>4, <2>6, <2>10 DEF Listing, OneValid
  <2>13. ASSUME NEW d \in backup'.db.row \ moving'
         PROVE  /\ backup'.tree = 1 => d \in row' /\ d \in file' /\ work'[d] = "idle"
                /\ backup'.tree > 1 => <<"storage", d>> \in backup'.listed
    BY <2>1, <2>2, <2>3, <2>4, <2>6, <2>10 DEF Listing
  <2> QED
    BY <2>7, <2>8, <2>11, <2>12, <2>13 DEF Listing, Reading
<1>6. ASSUME CopyAndPublish PROVE Listing'
  BY <1>6 DEF IInv, Listing, Reading, ReadingBackup, CopyAndPublish, OnlyBackup, storage, validation
<1>7. ASSUME StartBackup \/ Report \/ BackupFails \/ Crash PROVE Listing'
  BY <1>7 DEF StartBackup, CreateBackup, Report, BackupFails, Crash, NoBackup, Listing, Reading
<1> QED
  BY <1>2, <1>3, <1>4, <1>5, <1>6, <1>7 DEF Next, Backup, vars, storage

\* The invariant holds in every reachable state.
LEMMA Invariance == Spec => []IInv
<1>1. Init => IInv
  <2>1. Init => EvidenceInv
    BY EvidenceInitial
  <2>2. Init => WorkApart /\ Listing
    BY DEF Init, WorkApart, Listing, Reading, NoBackup
  <2> QED
    BY <2>1, <2>2 DEF IInv
<1>2. IInv /\ [Next]_vars => IInv'
  BY EvidenceInductive, WorkInductive, ListingInductive DEF IInv
<1> QED
  BY <1>1, <1>2, PTL DEF Spec
-----------------------------------------------------------------------------
(***************************************************************************)
(* "Registro, artefato e auditoria permanecem": whatever operations of     *)
(* DocumentValidationService run beside one another, fail or die, the file *)
(* a valid record vouches for is there with the bytes recorded and the QR  *)
(* code of that record.                                                    *)
(***************************************************************************)
THEOREM EvidenceKept == Spec => []FinalizedIsKept
<1>1. IInv => FinalizedIsKept
  BY DEF IInv, EvidenceInv
<1> QED
  BY <1>1, Invariance, PTL

(***************************************************************************)
(* A delivery has one receipt: create_acknowledgement_receipt, failed or   *)
(* killed at any step and tried again, leaves no second valid record.      *)
(***************************************************************************)
THEOREM ReceiptIsOne == Spec => []OneReceipt
<1>1. IInv => OneReceipt
  <2>1. IInv => ValidationTypeOK
    BY DEF IInv, EvidenceInv, Shape, LockHeld, ValidationTypeOK, Row, Status
  <2> QED
    BY <2>1 DEF IInv, EvidenceInv, OneValid, OneReceipt
<1> QED
  BY <1>1, Invariance, PTL

(***************************************************************************)
(* No step changes or removes a canonical file, makes a failed record      *)
(* valid or does more to a valid one than revoke it.                       *)
(***************************************************************************)
THEOREM HistoryKept == Spec => HistoryStays
<1>1. IInv /\ [Next]_vars =>
        [\A r \in Records :
           /\ artifact[r] # None => artifact'[r] = artifact[r]
           /\ record[r].status = "FAILED" => record'[r] = record[r]
           /\ Finalized(r) => record'[r].hash = record[r].hash /\ record'[r].status \in {record[r].status, "REVOKED"}]_validation
  BY HistoryStep DEF IInv, History
<1> QED
  BY <1>1, Invariance, PTL DEF Spec, HistoryStays

(***************************************************************************)
(* "Backup administrativo inclui validation_artifacts e delivery_receipts":*)
(* a backup that create_full_backup published, made while the rest of the  *)
(* program worked, holds the files its copy of the database names.         *)
(***************************************************************************)
THEOREM BackupWhole == Spec => []BackupIsWhole
<1>1. IInv => BackupIsWhole
  BY DEF IInv, Listing, Reading, ReadingBackup, BackupIsWhole
<1> QED
  BY <1>1, Invariance, PTL

-----------------------------------------------------------------------------
(* The script of the upgrade, by number                                    *)

\* The place of a statement in the script.
Rank(s) ==
  CASE s = Off -> 0
    [] s = Do("schema", "tables") -> 1
    [] s = Do("schema", "rows") -> 2
    [] s = Do("schema", "mounts") -> 3
    [] s = Do("schema", "version") -> 4
    [] s = Do("legacy", "all") -> 5
    [] s = Do("documents", "all") -> 6
    [] s = Do("organizations", "all") -> 7
    [] s = Do("cloud", "all") -> 8
    [] s = Do("people", "all") -> 9
    [] s = Do("quotas", "all") -> 10
    [] s = Do("folders", "all") -> 11
    [] s = Do("profile", "add") -> 12
    [] s = Do("profile", "fill") -> 13
    [] s = Do("profile", "tables") -> 14
    [] s = Do("features", "all") -> 15
    [] s = Do("jobs", "all") -> 16
    [] s = Do("targets", "create") -> 17
    [] s = Do("targets", "jobs") -> 18
    [] s = Do("aside", "document_requests") -> 19
    [] s = Do("create", "document_requests") -> 20
    [] s = Do("copy", "document_requests") -> 21
    [] s = Do("drop", "document_requests") -> 22
    [] s = Do("renew", "all") -> 23
    [] s = Do("delivery", "all") -> 24
    [] s = Do("receipts", "all") -> 25
    [] s = Do("aside", "document_request_documents") -> 26
    [] s = Do("create", "document_request_documents") -> 27
    [] s = Do("copy", "document_request_documents") -> 28
    [] s = Do("drop", "document_request_documents") -> 29
    [] s = Do("aside", "document_delivery_items") -> 30
    [] s = Do("create", "document_delivery_items") -> 31
    [] s = Do("copy", "document_delivery_items") -> 32
    [] s = Do("drop", "document_delivery_items") -> 33
    [] s = Do("aside", "sync_jobs") -> 34
    [] s = Do("create", "sync_jobs") -> 35
    [] s = Do("copy", "sync_jobs") -> 36
    [] s = Do("drop", "sync_jobs") -> 37
    [] s = Do("aside", "cloud_settings") -> 38
    [] s = Do("aside", "cloud_folder_mappings") -> 39
    [] s = Do("aside", "cloud_accounts") -> 40
    [] s = Do("create", "cloud") -> 41
    [] s = Do("fill", "all") -> 42
    [] s = Do("orphans", "all") -> 43
    [] s = Do("drop", "cloud_folder_mappings") -> 44
    [] s = Do("drop", "cloud_settings") -> 45
    [] s = Do("drop", "cloud_accounts") -> 46
    [] s = Do("multicloud", "all") -> 47
    [] s = Do("validation", "all") -> 48
    [] s = Do("begin", "all") -> 49
    [] s = Do("enterprise", "all") -> 50
    [] s = Do("commit", "all") -> 51
    [] OTHER -> 52

Stage == Rank(step)

\* The statements by their places.
LEMMA RankOf ==
  /\ Rank(Off) = 0
  /\ Rank(Do("schema", "tables")) = 1
  /\ Rank(Do("schema", "rows")) = 2
  /\ Rank(Do("schema", "mounts")) = 3
  /\ Rank(Do("schema", "version")) = 4
  /\ Rank(Do("legacy", "all")) = 5
  /\ Rank(Do("documents", "all")) = 6
  /\ Rank(Do("organizations", "all")) = 7
  /\ Rank(Do("cloud", "all")) = 8
  /\ Rank(Do("people", "all")) = 9
  /\ Rank(Do("quotas", "all")) = 10
  /\ Rank(Do("folders", "all")) = 11
  /\ Rank(Do("profile", "add")) = 12
  /\ Rank(Do("profile", "fill")) = 13
  /\ Rank(Do("profile", "tables")) = 14
  /\ Rank(Do("features", "all")) = 15
  /\ Rank(Do("jobs", "all")) = 16
  /\ Rank(Do("targets", "create")) = 17
  /\ Rank(Do("targets", "jobs")) = 18
  /\ Rank(Do("aside", "document_requests")) = 19
  /\ Rank(Do("create", "document_requests")) = 20
  /\ Rank(Do("copy", "document_requests")) = 21
  /\ Rank(Do("drop", "document_requests")) = 22
  /\ Rank(Do("renew", "all")) = 23
  /\ Rank(Do("delivery", "all")) = 24
  /\ Rank(Do("receipts", "all")) = 25
  /\ Rank(Do("aside", "document_request_documents")) = 26
  /\ Rank(Do("create", "document_request_documents")) = 27
  /\ Rank(Do("copy", "document_request_documents")) = 28
  /\ Rank(Do("drop", "document_request_documents")) = 29
  /\ Rank(Do("aside", "document_delivery_items")) = 30
  /\ Rank(Do("create", "document_delivery_items")) = 31
  /\ Rank(Do("copy", "document_delivery_items")) = 32
  /\ Rank(Do("drop", "document_delivery_items")) = 33
  /\ Rank(Do("aside", "sync_jobs")) = 34
  /\ Rank(Do("create", "sync_jobs")) = 35
  /\ Rank(Do("copy", "sync_jobs")) = 36
  /\ Rank(Do("drop", "sync_jobs")) = 37
  /\ Rank(Do("aside", "cloud_settings")) = 38
  /\ Rank(Do("aside", "cloud_folder_mappings")) = 39
  /\ Rank(Do("aside", "cloud_accounts")) = 40
  /\ Rank(Do("create", "cloud")) = 41
  /\ Rank(Do("fill", "all")) = 42
  /\ Rank(Do("orphans", "all")) = 43
  /\ Rank(Do("drop", "cloud_folder_mappings")) = 44
  /\ Rank(Do("drop", "cloud_settings")) = 45
  /\ Rank(Do("drop", "cloud_accounts")) = 46
  /\ Rank(Do("multicloud", "all")) = 47
  /\ Rank(Do("validation", "all")) = 48
  /\ Rank(Do("begin", "all")) = 49
  /\ Rank(Do("enterprise", "all")) = 50
  /\ Rank(Do("commit", "all")) = 51
  /\ Rank(Done) = 52
  BY DEF Rank, Off, Done, Do

\* Being at a stage is being at its statement.
LEMMA StageIs ==
  /\ Stage = 13 => step = Do("profile", "fill")
  /\ Stage = 20 => step = Do("create", "document_requests")
  /\ Stage = 21 => step = Do("copy", "document_requests")
  /\ Stage = 22 => step = Do("drop", "document_requests")
  /\ Stage = 23 => step = Do("renew", "all")
  /\ Stage = 50 => step = Do("enterprise", "all")
  /\ Stage = 51 => step = Do("commit", "all")
<1>1. Stage = 13 => step = Do("profile", "fill")
  BY SMTT(60) DEF Rank, Stage
<1>2. Stage = 20 => step = Do("create", "document_requests")
  BY SMTT(60) DEF Rank, Stage
<1>3. Stage = 21 => step = Do("copy", "document_requests")
  BY SMTT(60) DEF Rank, Stage
<1>4. Stage = 22 => step = Do("drop", "document_requests")
  BY SMTT(60) DEF Rank, Stage
<1>5. Stage = 23 => step = Do("renew", "all")
  BY SMTT(60) DEF Rank, Stage
<1>6. Stage = 50 => step = Do("enterprise", "all")
  BY SMTT(60) DEF Rank, Stage
<1>7. Stage = 51 => step = Do("commit", "all")
  BY SMTT(60) DEF Rank, Stage
<1> QED
  BY <1>1, <1>2, <1>3, <1>4, <1>5, <1>6, <1>7

-----------------------------------------------------------------------------
(* What each statement may change                                          *)

Fields ==
  {"version", "made", "org", "docs", "admins", "users", "now", "aside", "orphans",
   "parent", "endpoint", "active", "jobs", "history", "audit"}

IsTable(t) == t = [shape |-> t.shape, rows |-> t.rows]

\* The parts a database has, as the definitions use them.
UpgradeTypes ==
  /\ DOMAIN db = Fields
  /\ DOMAIN db.org = Orgs
  /\ \A o \in Orgs : DOMAIN db.org[o] = DOMAIN NoOrganization
  /\ DOMAIN db.now = Tables /\ DOMAIN db.aside = Tables
  /\ \A t \in Tables : IsTable(db.now[t]) /\ IsTable(db.aside[t])

\* One statement further, with these parts of the database changed.
Moves(from, to, parts) ==
  /\ Stage = from /\ Stage' = to
  /\ DOMAIN db' = Fields
  /\ \A f \in Fields \ parts : db'[f] = db[f]
  /\ UNCHANGED <<before, hurt>>

\* A statement the database refuses.
Halts(from) ==
  /\ Stage = from /\ Stage' = 0
  /\ UNCHANGED <<db, before, hurt>>

\* Changing some fields of a database leaves the others.
LEMMA FieldsChanged ==
  ASSUME UpgradeTypes
  PROVE
    /\ \A x, y : db' = [db EXCEPT !.made = x, !.now = y] =>
         DOMAIN db' = Fields /\ \A f \in Fields \ {"made", "now"} : db'[f] = db[f]
    /\ \A x, y, z, o : db' = [db EXCEPT !.made = x, !.org[o] = y, !.now = z] =>
         DOMAIN db' = Fields /\ \A f \in Fields \ {"made", "org", "now"} : db'[f] = db[f]
    /\ \A x, y : db' = [db EXCEPT !.made = x, !.admins = y] =>
         DOMAIN db' = Fields /\ \A f \in Fields \ {"made", "admins"} : db'[f] = db[f]
    /\ \A x, y : db' = [db EXCEPT !.made = x, !.org = y] =>
         DOMAIN db' = Fields /\ \A f \in Fields \ {"made", "org"} : db'[f] = db[f]
    /\ \A x, y : db' = [db EXCEPT !.made = x, !.active = y] =>
         DOMAIN db' = Fields /\ \A f \in Fields \ {"made", "active"} : db'[f] = db[f]
    /\ \A x, y : db' = [db EXCEPT !.made = x, !.audit = y] =>
         DOMAIN db' = Fields /\ \A f \in Fields \ {"made", "audit"} : db'[f] = db[f]
  BY DEF UpgradeTypes, Fields

\* The statements that stand alone, and what each may change.
LEMMA PlainMoves ==
  ASSUME UpgradeTypes
  PROVE
    /\ SchemaTables => Moves(1, 2, {"made", "now"})
    /\ SchemaRows => Moves(2, 3, {"made", "org", "now"})
    /\ SchemaMounts => Moves(3, 4, {"made"})
    /\ SchemaVersion => Moves(4, 52, {"version"})
    /\ CreateLegacyTables => Moves(5, 6, {"made"})
    /\ UpgradeDocuments => Moves(6, 7, {"made"})
    /\ UpgradeCloud => Moves(8, 9, {"now"})
    /\ UpgradePeople => Moves(9, 10, {"made", "admins"})
    /\ UpgradeQuotas => Moves(10, 11, {"made", "org"})
    /\ UpgradeCloudFolders => Moves(11, 12, {"made", "now"})
    /\ FillProfile => Moves(13, 14, {"org"})
    /\ ProfileTables => Moves(14, 15, {"now"})
    /\ UpgradeFeatures => Moves(15, 16, {"made", "org"})
    /\ UpgradeTransportJobs => Moves(16, 17, {"made"})
    /\ CreateTarget => Moves(17, 18, {"made", "active"})
    /\ BindJobs => Moves(18, 19, {"jobs"})
    /\ CreateRequests => Moves(20, 21, {"now"})
    /\ CopyRequests => Moves(21, 22, {"now"})
    /\ DropRequests => Moves(22, 23, {"aside"})
    /\ UpgradeDelivery => Moves(24, 25, {"made", "now"})
    /\ UpgradeReceipts => Moves(25, 26, {"made"})
    /\ CreateCloud => Moves(41, 42, {"now"})
    /\ FillCloud => Moves(42, 43, {"now"})
    /\ ListOrphans => Moves(43, 44, {"orphans"})
    /\ UpgradeMulticloud => Moves(47, 48, {"made", "org"})
    /\ UpgradeValidation => Moves(48, 49, {"made"})
    /\ BeginEnterprise => Moves(49, 50, {})
    /\ UpgradeEnterprise => Moves(50, 51, {"made", "audit"})
    /\ CommitVersion => Moves(51, 52, {"version"})
<1> USE RankOf DEF UpgradeTypes, Moves, Stage, Statement, Plain, Add, Create, Drop
<1>1. SchemaTables => Moves(1, 2, {"made", "now"})
  <2>1. SchemaTables => \E x, y : db' = [db EXCEPT !.made = x, !.now = y]
    BY Zenon DEF SchemaTables
  <2>2. SchemaTables => /\ DOMAIN db' = Fields
         /\ \A f \in Fields \ {"made", "now"} : db'[f] = db[f]
    BY <2>1, FieldsChanged, Zenon
  <2>3. SchemaTables => Stage = 1 /\ Stage' = 2 /\ UNCHANGED <<before, hurt>>
    BY SMT DEF SchemaTables
  <2> QED
    BY <2>2, <2>3, Zenon
<1>2. SchemaRows => Moves(2, 3, {"made", "org", "now"})
  <2> DEFINE o == Least(Orgs)
             x == db.made \cup {"history", "documents", "quotas"}
             y == [db.org[o] EXCEPT !.status = "ACTIVE", !.used = 0]
             z == [Ensured({"sync_jobs"}, "new") EXCEPT
                     !["cloud_settings"].rows = {Setting(o, "LOCAL", Null)}]
  <2>1. SchemaRows => db' = [db EXCEPT !.made = x, !.org[o] = y, !.now = z]
    BY Zenon DEF SchemaRows
  <2> HIDE DEF x, y, z, o
  <2>2. SchemaRows => /\ DOMAIN db' = Fields
         /\ \A f \in Fields \ {"made", "org", "now"} : db'[f] = db[f]
    BY <2>1, FieldsChanged, Zenon
  <2>3. SchemaRows => Stage = 2 /\ Stage' = 3 /\ UNCHANGED <<before, hurt>>
    BY SMT DEF SchemaRows
  <2> QED
    BY <2>2, <2>3, Zenon
<1>3. SchemaMounts => Moves(3, 4, {"made"})
  BY SMT DEF SchemaMounts, Fields
<1>4. SchemaVersion => Moves(4, 52, {"version"})
  BY SMT DEF SchemaVersion, Fields
<1>5. CreateLegacyTables => Moves(5, 6, {"made"})
  BY SMT DEF CreateLegacyTables, Fields
<1>6. UpgradeDocuments => Moves(6, 7, {"made"})
  BY SMT DEF UpgradeDocuments, Fields
<1>7. UpgradeCloud => Moves(8, 9, {"now"})
  BY SMT DEF UpgradeCloud, Fields
<1>8. UpgradePeople => Moves(9, 10, {"made", "admins"})
  <2> DEFINE a == IF db.admins \cap db.users # {} \/ db.users = {} THEN db.admins
                 ELSE db.admins \cup {Least(db.users)}
  <2>1. UpgradePeople => db' = [db EXCEPT !.made = db.made \cup {"people"}, !.admins = a]
    BY Zenon DEF UpgradePeople
  <2> HIDE DEF a
  <2>2. UpgradePeople => /\ DOMAIN db' = Fields
         /\ \A f \in Fields \ {"made", "admins"} : db'[f] = db[f]
    BY <2>1, FieldsChanged, Zenon
  <2>3. UpgradePeople => Stage = 9 /\ Stage' = 10 /\ UNCHANGED <<before, hurt>>
    BY SMT DEF UpgradePeople
  <2> QED
    BY <2>2, <2>3, Zenon
<1>9. UpgradeQuotas => Moves(10, 11, {"made", "org"})
  <2>1. UpgradeQuotas => \E x, y : db' = [db EXCEPT !.made = x, !.org = y]
    BY Zenon DEF UpgradeQuotas
  <2>2. UpgradeQuotas => /\ DOMAIN db' = Fields
         /\ \A f \in Fields \ {"made", "org"} : db'[f] = db[f]
    BY <2>1, FieldsChanged, Zenon
  <2>3. UpgradeQuotas => Stage = 10 /\ Stage' = 11 /\ UNCHANGED <<before, hurt>>
    BY SMT DEF UpgradeQuotas
  <2> QED
    BY <2>2, <2>3, Zenon
<1>10. UpgradeCloudFolders => Moves(11, 12, {"made", "now"})
  <2>1. UpgradeCloudFolders => \E x, y : db' = [db EXCEPT !.made = x, !.now = y]
    BY Zenon DEF UpgradeCloudFolders
  <2>2. UpgradeCloudFolders => /\ DOMAIN db' = Fields
         /\ \A f \in Fields \ {"made", "now"} : db'[f] = db[f]
    BY <2>1, FieldsChanged, Zenon
  <2>3. UpgradeCloudFolders => Stage = 11 /\ Stage' = 12 /\ UNCHANGED <<before, hurt>>
    BY SMT DEF UpgradeCloudFolders
  <2> QED
    BY <2>2, <2>3, Zenon
<1>11. FillProfile => Moves(13, 14, {"org"})
  BY SMT DEF FillProfile, Fields
<1>12. ProfileTables => Moves(14, 15, {"now"})
  BY SMT DEF ProfileTables, Fields
<1>13. UpgradeFeatures => Moves(15, 16, {"made", "org"})
  <2>1. UpgradeFeatures => \E x, y : db' = [db EXCEPT !.made = x, !.org = y]
    BY Zenon DEF UpgradeFeatures
  <2>2. UpgradeFeatures => /\ DOMAIN db' = Fields
         /\ \A f \in Fields \ {"made", "org"} : db'[f] = db[f]
    BY <2>1, FieldsChanged, Zenon
  <2>3. UpgradeFeatures => Stage = 15 /\ Stage' = 16 /\ UNCHANGED <<before, hurt>>
    BY SMT DEF UpgradeFeatures
  <2> QED
    BY <2>2, <2>3, Zenon
<1>14. UpgradeTransportJobs => Moves(16, 17, {"made"})
  BY SMT DEF UpgradeTransportJobs, Fields
<1>15. CreateTarget => Moves(17, 18, {"made", "active"})
  <2> DEFINE a == IF db.active = Null THEN db.endpoint ELSE db.active
  <2>1. CreateTarget =>
          db' = [db EXCEPT !.made = db.made \cup {"organization_transport_targets"}, !.active = a]
    BY Zenon DEF CreateTarget
  <2> HIDE DEF a
  <2>2. CreateTarget => /\ DOMAIN db' = Fields
         /\ \A f \in Fields \ {"made", "active"} : db'[f] = db[f]
    BY <2>1, FieldsChanged, Zenon
  <2>3. CreateTarget => Stage = 17 /\ Stage' = 18 /\ UNCHANGED <<before, hurt>>
    BY SMT DEF CreateTarget
  <2> QED
    BY <2>2, <2>3, Zenon
<1>16. BindJobs => Moves(18, 19, {"jobs"})
  BY SMT DEF BindJobs, Fields
<1>17. CreateRequests => Moves(20, 21, {"now"})
  BY SMT DEF CreateRequests, Fields
<1>18. CopyRequests => Moves(21, 22, {"now"})
  BY SMT DEF CopyRequests, Fields
<1>19. DropRequests => Moves(22, 23, {"aside"})
  BY SMT DEF DropRequests, Fields
<1>20. UpgradeDelivery => Moves(24, 25, {"made", "now"})
  <2>1. UpgradeDelivery => \E x, y : db' = [db EXCEPT !.made = x, !.now = y]
    BY Zenon DEF UpgradeDelivery
  <2>2. UpgradeDelivery => /\ DOMAIN db' = Fields
         /\ \A f \in Fields \ {"made", "now"} : db'[f] = db[f]
    BY <2>1, FieldsChanged, Zenon
  <2>3. UpgradeDelivery => Stage = 24 /\ Stage' = 25 /\ UNCHANGED <<before, hurt>>
    BY SMT DEF UpgradeDelivery
  <2> QED
    BY <2>2, <2>3, Zenon
<1>21. UpgradeReceipts => Moves(25, 26, {"made"})
  BY SMT DEF UpgradeReceipts, Fields
<1>22. CreateCloud => Moves(41, 42, {"now"})
  BY SMT DEF CreateCloud, Fields
<1>23. FillCloud => Moves(42, 43, {"now"})
  BY SMT DEF FillCloud, Fields
<1>24. ListOrphans => Moves(43, 44, {"orphans"})
  BY SMT DEF ListOrphans, Fields
<1>25. UpgradeMulticloud => Moves(47, 48, {"made", "org"})
  <2>1. UpgradeMulticloud => \E x, y : db' = [db EXCEPT !.made = x, !.org = y]
    BY Zenon DEF UpgradeMulticloud
  <2>2. UpgradeMulticloud => /\ DOMAIN db' = Fields
         /\ \A f \in Fields \ {"made", "org"} : db'[f] = db[f]
    BY <2>1, FieldsChanged, Zenon
  <2>3. UpgradeMulticloud => Stage = 47 /\ Stage' = 48 /\ UNCHANGED <<before, hurt>>
    <3>1. UpgradeMulticloud => Plain("multicloud", "validation")
      BY Zenon DEF UpgradeMulticloud
    <3> QED
      BY <3>1, SMT
  <2> QED
    BY <2>2, <2>3, Zenon
<1>26. UpgradeValidation => Moves(48, 49, {"made"})
  BY SMT DEF UpgradeValidation, Fields
<1>27. BeginEnterprise => Moves(49, 50, {})
  BY SMT DEF BeginEnterprise, Fields
<1>28. UpgradeEnterprise => Moves(50, 51, {"made", "audit"})
  <2>1. UpgradeEnterprise => \E x, y : db' = [db EXCEPT !.made = x, !.audit = y]
    BY Zenon DEF UpgradeEnterprise
  <2>2. UpgradeEnterprise => /\ DOMAIN db' = Fields
         /\ \A f \in Fields \ {"made", "audit"} : db'[f] = db[f]
    BY <2>1, FieldsChanged, Zenon
  <2>3. UpgradeEnterprise => Stage = 50 /\ Stage' = 51 /\ UNCHANGED <<before, hurt>>
    BY SMT DEF UpgradeEnterprise
  <2> QED
    BY <2>2, <2>3, Zenon
<1>29. CommitVersion => Moves(51, 52, {"version"})
  BY SMT DEF CommitVersion, Fields
<1> QED
  BY <1>1, <1>2, <1>3, <1>4, <1>5, <1>6, <1>7, <1>8, <1>9, <1>10, <1>11, <1>12, <1>13, <1>14, <1>15, <1>16, <1>17, <1>18, <1>19, <1>20, <1>21, <1>22, <1>23, <1>24, <1>25, <1>26, <1>27, <1>28, <1>29

\* The four statements that rebuild a table of evidence follow each other.
LEMMA EvidenceRanks ==
  ASSUME NEW t \in Evidence
  PROVE  LET b == Rank(Do("aside", t)) IN
         /\ b \in {26, 30, 34} /\ t \in Tables
         /\ Rank(Do("create", t)) = b + 1 /\ Rank(Do("copy", t)) = b + 2
         /\ Rank(Do("drop", t)) = b + 3 /\ Rank(AfterEvidence(t)) = b + 4
<1>1. CASE t = "document_request_documents"
  BY <1>1, RankOf DEF AfterEvidence, Tables, Evidence
<1>2. CASE t = "document_delivery_items"
  BY <1>2, RankOf DEF AfterEvidence, Tables, Evidence
<1>3. CASE t = "sync_jobs"
  BY <1>3, RankOf DEF AfterEvidence, Tables, Evidence
<1> QED
  BY <1>1, <1>2, <1>3 DEF Evidence

\* A table put aside, one made anew, and one dropped.
PutAside(t, from, to) ==
  /\ db.aside[t] = NoTable
  /\ Moves(from, to, {"aside", "now", "parent"})
  /\ db'.now = [db.now EXCEPT ![t] = NoTable]
  /\ db'.aside = [db.aside EXCEPT ![t] = db.now[t]]
  /\ t # "cloud_accounts" => db'.parent = db.parent
  /\ db'.parent = db.parent \/ "remote_mounts" \in db.made

MadeAnew(t, from, to) ==
  /\ Moves(from, to, {"now"})
  /\ db'.now = [db.now EXCEPT ![t] = Empty("new")]

Dropped(t, from, to) ==
  /\ Moves(from, to, {"aside"})
  /\ db'.aside = [db.aside EXCEPT ![t] = NoTable]

\* A statement the database refuses ends the start.
LEMMA RefusedHalts ==
  ASSUME NEW s, Refused(s), Rank(s) \notin {50, 51}
  PROVE  Halts(Rank(s))
  BY RankOf DEF Refused, Halts, Stage, Committed

\* A table is put aside, or one of that name is in the way.
LEMMA SetAsideMoves ==
  ASSUME UpgradeTypes, NEW t \in Tables, NEW next, SetAside(t, next),
         Rank(Do("aside", t)) \notin {50, 51}
  PROVE  \/ PutAside(t, Rank(Do("aside", t)), Rank(next))
         \/ Halts(Rank(Do("aside", t)))
<1>1. CASE db.aside[t] = NoTable /\ db' = Renamed(t) /\ Statement(Do("aside", t), next)
  <2> DEFINE p == IF t = "cloud_accounts" /\ "remote_mounts" \in db.made
                  THEN "cloud_accounts_v20" ELSE db.parent
  <2>1. db' = [db EXCEPT !.aside[t] = db.now[t], !.now[t] = NoTable, !.parent = p]
    BY <1>1, Zenon DEF Renamed
  <2>2. \/ p = db.parent
        \/ t = "cloud_accounts" /\ "remote_mounts" \in db.made
    OBVIOUS
  <2> HIDE DEF p
  <2>3. /\ DOMAIN db' = Fields /\ \A f \in Fields \ {"aside", "now", "parent"} : db'[f] = db[f]
        /\ db'.now = [db.now EXCEPT ![t] = NoTable]
        /\ db'.aside = [db.aside EXCEPT ![t] = db.now[t]]
        /\ db'.parent = p
    BY <2>1 DEF UpgradeTypes, Fields
  <2>4. Stage = Rank(Do("aside", t)) /\ Stage' = Rank(next) /\ UNCHANGED <<before, hurt>>
    BY <1>1 DEF Statement, Stage
  <2> QED
    BY <1>1, <2>2, <2>3, <2>4, Zenon DEF PutAside, Moves
<1>2. CASE Refused(Do("aside", t))
  BY <1>2, RefusedHalts
<1> QED
  BY <1>1, <1>2 DEF SetAside

\* The rebuilt table is made and filled.
LEMMA CreateMoves ==
  ASSUME UpgradeTypes, NEW t \in Tables, NEW next, Create(t, next)
  PROVE  MadeAnew(t, Rank(Do("create", t)), Rank(next))
  BY DEF UpgradeTypes, Create, Statement, MadeAnew, Moves, Stage, Fields

\* The table put aside is dropped.
LEMMA DropMoves ==
  ASSUME UpgradeTypes, NEW t \in Tables, NEW next, Drop(t, next)
  PROVE  Dropped(t, Rank(Do("drop", t)), Rank(next))
  BY DEF UpgradeTypes, Drop, Statement, Dropped, Moves, Stage, Fields

\* What the steps on one table of evidence are.
EvidenceStep(t) ==
  LET b == Rank(Do("aside", t)) IN
  \/ PutAside(t, b, b + 1)
  \/ Halts(b)
  \/ MadeAnew(t, b + 1, b + 2)
  \/ /\ Moves(b + 2, b + 3, {"now"})
     /\ db'.now = [db.now EXCEPT ![t].rows = db.aside[t].rows]
  \/ Dropped(t, b + 3, b + 4)

\* The rebuilding of a table of evidence, statement by statement.
LEMMA EvidenceMoves ==
  ASSUME UpgradeTypes, RebuildEvidence
  PROVE  \E t \in Evidence : EvidenceStep(t)
<1> DEFINE b(t) == Rank(Do("aside", t))
<1>1. PICK t \in Evidence : \/ SetAside(t, Do("create", t)) \/ Create(t, Do("copy", t))
                            \/ Copy(t, Do("drop", t)) \/ Drop(t, AfterEvidence(t))
  BY DEF RebuildEvidence
<1>2. /\ b(t) \in {26, 30, 34} /\ t \in Tables
      /\ Rank(Do("create", t)) = b(t) + 1 /\ Rank(Do("copy", t)) = b(t) + 2
      /\ Rank(Do("drop", t)) = b(t) + 3 /\ Rank(AfterEvidence(t)) = b(t) + 4
  BY EvidenceRanks
<1>3. CASE SetAside(t, Do("create", t))
  <2>1. b(t) \notin {50, 51}
    BY <1>2
  <2>2. PutAside(t, b(t), b(t) + 1) \/ Halts(b(t))
    BY <1>2, <1>3, <2>1, SetAsideMoves, Zenon
  <2> QED
    BY <2>2 DEF EvidenceStep
<1>4. CASE Create(t, Do("copy", t))
  BY <1>2, <1>4, CreateMoves DEF EvidenceStep
<1>5. CASE Copy(t, Do("drop", t))
  <2>1. Moves(Rank(Do("copy", t)), Rank(Do("drop", t)), {"now"})
    BY <1>2, <1>5 DEF UpgradeTypes, Copy, Statement, Moves, Stage, Fields
  <2>2. db'.now = [db.now EXCEPT ![t].rows = db.aside[t].rows]
    BY <1>2, <1>5 DEF UpgradeTypes, Copy, Statement, Fields
  <2> QED
    BY <1>2, <2>1, <2>2 DEF EvidenceStep
<1>6. CASE Drop(t, AfterEvidence(t))
  BY <1>2, <1>6, DropMoves DEF EvidenceStep
<1> QED
  BY <1>1, <1>3, <1>4, <1>5, <1>6

\* The steps on the other tables that are rebuilt.
LEMMA RequestsAsideMoves ==
  ASSUME UpgradeTypes, SetRequestsAside
  PROVE  \/ Moves(19, 24, {}) /\ db.now["document_requests"].shape = "new"
         \/ /\ PutAside("document_requests", 19, 20)
            /\ db.now["document_requests"].shape # "new"
         \/ Halts(19)
<1>1. CASE db.now["document_requests"].shape = "new"
  <2>1. step = Do("aside", "document_requests") /\ Statement(step, Do("delivery", "all")) /\ db' = db
    BY <1>1, Zenon DEF SetRequestsAside
  <2>2. Stage = 19 /\ Stage' = 24 /\ UNCHANGED <<before, hurt>>
    BY <2>1, RankOf DEF Statement, Stage
  <2> QED
    BY <1>1, <2>1, <2>2 DEF Moves, UpgradeTypes
<1>2. CASE db.now["document_requests"].shape # "new"
  <2>1. SetAside("document_requests", Do("create", "document_requests"))
    BY <1>2, Zenon DEF SetRequestsAside
  <2>2. "document_requests" \in Tables /\ Rank(Do("aside", "document_requests")) \notin {50, 51}
    BY RankOf DEF Tables
  <2>3. \/ PutAside("document_requests", Rank(Do("aside", "document_requests")),
                                         Rank(Do("create", "document_requests")))
        \/ Halts(Rank(Do("aside", "document_requests")))
    BY <2>1, <2>2, SetAsideMoves, Zenon
  <2> QED
    BY <1>2, <2>3, RankOf
<1> QED
  BY <1>1, <1>2

\* The tables by their kinds.
LEMMA CloudTables ==
  /\ "cloud_settings" \in Tables /\ "cloud_folder_mappings" \in Tables
  /\ "cloud_accounts" \in Tables /\ "document_requests" \in Tables
  /\ Cloud \subseteq Tables /\ Evidence \subseteq Tables
  /\ Cloud \cap Evidence = {} /\ "document_requests" \notin Cloud \cup Evidence
  BY DEF Tables, Cloud, Evidence

\* The tables of cloud accounts are put aside one after the other.
LEMMA CloudAsideMoves ==
  ASSUME UpgradeTypes, SetCloudAside
  PROVE  \/ PutAside("cloud_settings", 38, 39) \/ Halts(38)
         \/ PutAside("cloud_folder_mappings", 39, 40) \/ Halts(39)
         \/ PutAside("cloud_accounts", 40, 41) \/ Halts(40)
<1>1. CASE SetAside("cloud_settings", Do("aside", "cloud_folder_mappings"))
  <2>1. \/ PutAside("cloud_settings", Rank(Do("aside", "cloud_settings")),
                                      Rank(Do("aside", "cloud_folder_mappings")))
        \/ Halts(Rank(Do("aside", "cloud_settings")))
    <3>1. Rank(Do("aside", "cloud_settings")) \notin {50, 51}
      BY RankOf
    <3> QED
      BY <1>1, <3>1, CloudTables, SetAsideMoves, Zenon
  <2> QED
    BY <2>1, RankOf
<1>2. CASE SetAside("cloud_folder_mappings", Do("aside", "cloud_accounts"))
  <2>1. \/ PutAside("cloud_folder_mappings", Rank(Do("aside", "cloud_folder_mappings")),
                                             Rank(Do("aside", "cloud_accounts")))
        \/ Halts(Rank(Do("aside", "cloud_folder_mappings")))
    <3>1. Rank(Do("aside", "cloud_folder_mappings")) \notin {50, 51}
      BY RankOf
    <3> QED
      BY <1>2, <3>1, CloudTables, SetAsideMoves, Zenon
  <2> QED
    BY <2>1, RankOf
<1>3. CASE SetAside("cloud_accounts", Do("create", "cloud"))
  <2>1. \/ PutAside("cloud_accounts", Rank(Do("aside", "cloud_accounts")),
                                      Rank(Do("create", "cloud")))
        \/ Halts(Rank(Do("aside", "cloud_accounts")))
    <3>1. Rank(Do("aside", "cloud_accounts")) \notin {50, 51}
      BY RankOf
    <3> QED
      BY <1>3, <3>1, CloudTables, SetAsideMoves, Zenon
  <2> QED
    BY <2>1, RankOf
<1> QED
  BY <1>1, <1>2, <1>3 DEF SetCloudAside

\* They are dropped one after the other.
LEMMA CloudDropMoves ==
  ASSUME UpgradeTypes, DropCloud
  PROVE  \/ Dropped("cloud_folder_mappings", 44, 45)
         \/ Dropped("cloud_settings", 45, 46)
         \/ Dropped("cloud_accounts", 46, 47)
<1>1. CASE Drop("cloud_folder_mappings", Do("drop", "cloud_settings"))
  <2>1. Dropped("cloud_folder_mappings", Rank(Do("drop", "cloud_folder_mappings")),
                                         Rank(Do("drop", "cloud_settings")))
    BY <1>1, CloudTables, DropMoves, Zenon
  <2> QED
    BY <2>1, RankOf
<1>2. CASE Drop("cloud_settings", Do("drop", "cloud_accounts"))
  <2>1. Dropped("cloud_settings", Rank(Do("drop", "cloud_settings")),
                                  Rank(Do("drop", "cloud_accounts")))
    BY <1>2, CloudTables, DropMoves, Zenon
  <2> QED
    BY <2>1, RankOf
<1>3. CASE Drop("cloud_accounts", Do("multicloud", "all"))
  <2>1. Dropped("cloud_accounts", Rank(Do("drop", "cloud_accounts")),
                                  Rank(Do("multicloud", "all")))
    BY <1>3, CloudTables, DropMoves, Zenon
  <2> QED
    BY <2>1, RankOf
<1> QED
  BY <1>1, <1>2, <1>3 DEF DropCloud

\* The organizations after the first is opened when there is none, and those open.
OrgsOpened == IF \E o \in Orgs : Exists(o) THEN db.org
              ELSE [db.org EXCEPT ![Least(Orgs)].status = "ACTIVE"]
OpenOrgs == {o \in Orgs : OrgsOpened[o].status = "ACTIVE"}
DocsPlaced == [d \in DOMAIN db.docs |-> IF db.docs[d] = Null THEN Least(OpenOrgs) ELSE db.docs[d]]

\* The statements that may go one way or another.
LEMMA OrganizationsMove ==
  ASSUME UpgradeTypes, UpgradeOrganizations
  PROVE  \/ /\ Moves(7, 8, {"org", "docs"})
            /\ OpenOrgs # {} /\ db'.org = OrgsOpened /\ db'.docs = DocsPlaced
         \/ Halts(7)
<1>1. CASE /\ OpenOrgs # {} /\ Plain("organizations", "cloud")
           /\ db' = [db EXCEPT !.org = OrgsOpened, !.docs = DocsPlaced]
  <2>1. /\ DOMAIN db' = Fields /\ \A f \in Fields \ {"org", "docs"} : db'[f] = db[f]
        /\ db'.org = OrgsOpened /\ db'.docs = DocsPlaced
    BY <1>1 DEF UpgradeTypes, Fields
  <2>2. Stage = 7 /\ Stage' = 8 /\ UNCHANGED <<before, hurt>>
    BY <1>1, RankOf DEF Plain, Statement, Stage
  <2> QED
    BY <1>1, <2>1, <2>2 DEF Moves
<1>2. CASE Refused(Do("organizations", "all"))
  BY <1>2, RefusedHalts, RankOf
<1>3. \/ /\ OpenOrgs # {} /\ Plain("organizations", "cloud")
         /\ db' = [db EXCEPT !.org = OrgsOpened, !.docs = DocsPlaced]
      \/ Refused(Do("organizations", "all"))
  BY Zenon DEF UpgradeOrganizations, OrgsOpened, OpenOrgs, DocsPlaced
<1> QED
  BY <1>1, <1>2, <1>3, Zenon

\* The profile is filled only where its column is new.
LEMMA ProfileMoves ==
  ASSUME UpgradeTypes, AddProfile
  PROVE  \/ Moves(12, 14, {}) /\ "profile_code" \in db.made
         \/ Moves(12, 13, {"made"}) /\ db'.made = db.made \cup {"profile_code"}
  BY RankOf DEF UpgradeTypes, AddProfile, Statement, Add, Moves, Stage, Fields

\* Requests get their identities one at a time.
LEMMA RenewMoves ==
  ASSUME UpgradeTypes, RenewRequestIds
  PROVE  \/ /\ Moves(23, 23, {"now"})
            /\ \E r \in db.now["document_requests"].rows :
                 /\ r.uuid = "legacy"
                 /\ db'.now = [db.now EXCEPT !["document_requests"].rows =
                      (db.now["document_requests"].rows \ {r}) \cup {[r EXCEPT !.uuid = "own"]}]
         \/ /\ Moves(23, 24, {})
            /\ \A r \in db.now["document_requests"].rows : r.uuid # "legacy"
<1> DEFINE rows == db.now["document_requests"].rows
           old  == {r \in rows : r.uuid = "legacy"}
           new(r) == (rows \ {r}) \cup {[r EXCEPT !.uuid = "own"]}
<1>1. CASE \E r \in old :
             /\ Plain("renew", "renew")
             /\ db' = [db EXCEPT !.now["document_requests"].rows = new(r)]
  <2>1. PICK r \in old : /\ Plain("renew", "renew")
                         /\ db' = [db EXCEPT !.now["document_requests"].rows = new(r)]
    BY <1>1
  <2>2. r \in rows /\ r.uuid = "legacy"
    OBVIOUS
  <2>3. Stage = 23 /\ Stage' = 23 /\ UNCHANGED <<before, hurt>>
    BY <2>1, RankOf DEF Plain, Statement, Stage
  <2> HIDE DEF new, old
  <2>4. /\ DOMAIN db' = Fields /\ \A f \in Fields \ {"now"} : db'[f] = db[f]
        /\ db'.now = [db.now EXCEPT !["document_requests"].rows = new(r)]
    BY <2>1 DEF UpgradeTypes, Fields
  <2>5. Moves(23, 23, {"now"})
    BY <2>3, <2>4 DEF Moves
  <2> QED
    BY <2>2, <2>4, <2>5, Zenon DEF new
<1>2. CASE Plain("renew", "delivery") /\ old = {} /\ UNCHANGED db
  <2>1. Stage = 23 /\ Stage' = 24 /\ UNCHANGED <<before, hurt>>
    BY <1>2, RankOf DEF Plain, Statement, Stage
  <2>2. Moves(23, 24, {})
    BY <1>2, <2>1 DEF Moves, UpgradeTypes
  <2>3. \A r \in rows : r.uuid # "legacy"
    BY <1>2
  <2> QED
    BY <2>2, <2>3
<1>3. \/ \E r \in old :
             /\ Plain("renew", "renew")
             /\ db' = [db EXCEPT !.now["document_requests"].rows = new(r)]
      \/ Plain("renew", "delivery") /\ old = {} /\ UNCHANGED db
  BY Zenon DEF RenewRequestIds
<1> QED
  BY <1>1, <1>2, <1>3

\* The values the changed fields get.
LEMMA FieldsSet ==
  ASSUME UpgradeTypes
  PROVE
    /\ \A x, y : db' = [db EXCEPT !.made = x, !.now = y] => db'.made = x /\ db'.now = y
    /\ \A x, y : db' = [db EXCEPT !.made = x, !.admins = y] => db'.made = x /\ db'.admins = y
    /\ \A x, y : db' = [db EXCEPT !.made = x, !.org = y] => db'.made = x /\ db'.org = y
    /\ \A x, y : db' = [db EXCEPT !.made = x, !.audit = y] => db'.made = x /\ db'.audit = y
  BY DEF UpgradeTypes, Fields

\* The parts each statement makes.
LEMMA PartsMade ==
  ASSUME UpgradeTypes
  PROVE
    /\ SchemaTables => db'.made = Parts \ {"history", "documents", "quotas",
                                           "remote_mounts", "validation_records"}
    /\ SchemaRows => db'.made = db.made \cup {"history", "documents", "quotas"}
    /\ SchemaMounts => db'.made = db.made \cup {"remote_mounts", "validation_records"}
    /\ CreateLegacyTables => db'.made = db.made \cup {"history"}
    /\ UpgradeDocuments => db'.made = db.made \cup {"documents"}
    /\ UpgradePeople => db'.made = db.made \cup {"people"}
    /\ UpgradeQuotas => db'.made = db.made \cup {"quotas"}
    /\ UpgradeCloudFolders => db'.made = db.made \cup {"cloud_folder_adoption"}
    /\ UpgradeFeatures => db'.made = db.made \cup {"organization_feature_settings"}
    /\ UpgradeTransportJobs => db'.made = db.made \cup {"transport_jobs"}
    /\ CreateTarget => db'.made = db.made \cup {"organization_transport_targets"}
    /\ UpgradeDelivery => db'.made = db.made \cup {"document_deliveries"}
    /\ UpgradeReceipts => db'.made = db.made \cup {"delivery_acknowledgement_receipts"}
    /\ UpgradeMulticloud => db'.made = db.made \cup {"remote_mounts"}
    /\ UpgradeValidation => db'.made = db.made \cup {"validation_records"}
    /\ UpgradeEnterprise => db'.made = db.made \cup {"public_uuid"}
<1>1. SchemaTables => db'.made = Parts \ {"history", "documents", "quotas",
                                           "remote_mounts", "validation_records"}
  <2> DEFINE x == Parts \ {"history", "documents", "quotas", "remote_mounts", "validation_records"}
  <2>1. SchemaTables => \E y : db' = [db EXCEPT !.made = x, !.now = y]
    BY Zenon DEF SchemaTables
  <2> HIDE DEF x
  <2>2. SchemaTables => db'.made = x
    BY <2>1, FieldsSet, Zenon
  <2> QED
    BY <2>2 DEF x
<1>2. SchemaRows => db'.made = db.made \cup {"history", "documents", "quotas"}
  <2> DEFINE x == db.made \cup {"history", "documents", "quotas"}
  <2>1. SchemaRows => \E y, z, o : db' = [db EXCEPT !.made = x, !.org[o] = y, !.now = z]
    <3> DEFINE o == Least(Orgs)
               y == [db.org[o] EXCEPT !.status = "ACTIVE", !.used = 0]
               z == [Ensured({"sync_jobs"}, "new") EXCEPT
                       !["cloud_settings"].rows = {Setting(o, "LOCAL", Null)}]
    <3>1. SchemaRows => db' = [db EXCEPT !.made = x, !.org[o] = y, !.now = z]
      BY Zenon DEF SchemaRows
    <3> HIDE DEF x, y, z, o
    <3> QED
      BY <3>1, Zenon
  <2> HIDE DEF x
  <2>2. SchemaRows => db'.made = x
    BY <2>1 DEF UpgradeTypes, Fields
  <2> QED
    BY <2>2 DEF x
<1>3. SchemaMounts => db'.made = db.made \cup {"remote_mounts", "validation_records"}
  BY DEF SchemaMounts, Add, UpgradeTypes, Fields
<1>4. CreateLegacyTables => db'.made = db.made \cup {"history"}
  BY DEF CreateLegacyTables, Add, UpgradeTypes, Fields
<1>5. UpgradeDocuments => db'.made = db.made \cup {"documents"}
  BY DEF UpgradeDocuments, Add, UpgradeTypes, Fields
<1>6. UpgradePeople => db'.made = db.made \cup {"people"}
  <2> DEFINE x == db.made \cup {"people"}
  <2>1. UpgradePeople => \E y : db' = [db EXCEPT !.made = x, !.admins = y]
    BY Zenon DEF UpgradePeople
  <2> HIDE DEF x
  <2>2. UpgradePeople => db'.made = x
    BY <2>1, FieldsSet, Zenon
  <2> QED
    BY <2>2 DEF x
<1>7. UpgradeQuotas => db'.made = db.made \cup {"quotas"}
  <2> DEFINE x == db.made \cup {"quotas"}
  <2>1. UpgradeQuotas => \E y : db' = [db EXCEPT !.made = x, !.org = y]
    BY Zenon DEF UpgradeQuotas
  <2> HIDE DEF x
  <2>2. UpgradeQuotas => db'.made = x
    BY <2>1, FieldsSet, Zenon
  <2> QED
    BY <2>2 DEF x
<1>8. UpgradeCloudFolders => db'.made = db.made \cup {"cloud_folder_adoption"}
  <2> DEFINE x == db.made \cup {"cloud_folder_adoption"}
  <2>1. UpgradeCloudFolders => \E y : db' = [db EXCEPT !.made = x, !.now = y]
    BY Zenon DEF UpgradeCloudFolders
  <2> HIDE DEF x
  <2>2. UpgradeCloudFolders => db'.made = x
    BY <2>1, FieldsSet, Zenon
  <2> QED
    BY <2>2 DEF x
<1>9. UpgradeFeatures => db'.made = db.made \cup {"organization_feature_settings"}
  <2> DEFINE x == db.made \cup {"organization_feature_settings"}
  <2>1. UpgradeFeatures => \E y : db' = [db EXCEPT !.made = x, !.org = y]
    BY Zenon DEF UpgradeFeatures
  <2> HIDE DEF x
  <2>2. UpgradeFeatures => db'.made = x
    BY <2>1, FieldsSet, Zenon
  <2> QED
    BY <2>2 DEF x
<1>10. UpgradeTransportJobs => db'.made = db.made \cup {"transport_jobs"}
  BY DEF UpgradeTransportJobs, Add, UpgradeTypes, Fields
<1>11. CreateTarget => db'.made = db.made \cup {"organization_transport_targets"}
  <2> DEFINE x == db.made \cup {"organization_transport_targets"}
             y == IF db.active = Null THEN db.endpoint ELSE db.active
  <2>1. CreateTarget => db' = [db EXCEPT !.made = x, !.active = y]
    BY Zenon DEF CreateTarget
  <2> HIDE DEF x, y
  <2>2. CreateTarget => db'.made = x
    BY <2>1 DEF UpgradeTypes, Fields
  <2> QED
    BY <2>2 DEF x
<1>12. UpgradeDelivery => db'.made = db.made \cup {"document_deliveries"}
  <2> DEFINE x == db.made \cup {"document_deliveries"}
  <2>1. UpgradeDelivery => \E y : db' = [db EXCEPT !.made = x, !.now = y]
    BY Zenon DEF UpgradeDelivery
  <2> HIDE DEF x
  <2>2. UpgradeDelivery => db'.made = x
    BY <2>1, FieldsSet, Zenon
  <2> QED
    BY <2>2 DEF x
<1>13. UpgradeReceipts => db'.made = db.made \cup {"delivery_acknowledgement_receipts"}
  BY DEF UpgradeReceipts, Add, UpgradeTypes, Fields
<1>14. UpgradeMulticloud => db'.made = db.made \cup {"remote_mounts"}
  <2> DEFINE x == db.made \cup {"remote_mounts"}
  <2>1. UpgradeMulticloud => \E y : db' = [db EXCEPT !.made = x, !.org = y]
    BY Zenon DEF UpgradeMulticloud
  <2> HIDE DEF x
  <2>2. UpgradeMulticloud => db'.made = x
    BY <2>1, FieldsSet, Zenon
  <2> QED
    BY <2>2 DEF x
<1>15. UpgradeValidation => db'.made = db.made \cup {"validation_records"}
  BY DEF UpgradeValidation, Add, UpgradeTypes, Fields
<1>16. UpgradeEnterprise => db'.made = db.made \cup {"public_uuid"}
  <2> DEFINE x == db.made \cup {"public_uuid"}
  <2>1. UpgradeEnterprise => \E y : db' = [db EXCEPT !.made = x, !.audit = y]
    BY Zenon DEF UpgradeEnterprise
  <2> HIDE DEF x
  <2>2. UpgradeEnterprise => db'.made = x
    BY <2>1, FieldsSet, Zenon
  <2> QED
    BY <2>2 DEF x
<1> QED
  BY <1>1, <1>2, <1>3, <1>4, <1>5, <1>6, <1>7, <1>8, <1>9, <1>10, <1>11, <1>12, <1>13, <1>14,
     <1>15, <1>16

\* What the statements do to the organizations.
LEMMA OrgsWritten ==
  ASSUME UpgradeTypes
  PROVE
    /\ SchemaRows => db'.org = [db.org EXCEPT ![Least(Orgs)] =
                        [db.org[Least(Orgs)] EXCEPT !.status = "ACTIVE", !.used = 0]]
    /\ UpgradeQuotas => db'.org = [o \in Orgs |->
         IF db.org[o].used = Absent /\ Exists(o) THEN [db.org[o] EXCEPT !.used = Held(db, o)]
         ELSE db.org[o]]
    /\ FillProfile => db'.org = [o \in Orgs |-> [db.org[o] EXCEPT !.profile = db.org[o].template]]
    /\ UpgradeFeatures => db'.org = [o \in Orgs |->
         IF Exists(o) /\ db.org[o].enabled = Absent
         THEN [db.org[o] EXCEPT !.enabled = FirstFeatures(o)] ELSE db.org[o]]
    /\ UpgradeMulticloud => db'.org = [o \in Orgs |->
         IF Exists(o) /\ db.org[o].profile = "STUDENT"
         THEN [db.org[o] EXCEPT !.enabled = db.org[o].enabled \cup {"multicloud_workspace"}]
         ELSE db.org[o]]
<1>1. SchemaRows => db'.org = [db.org EXCEPT ![Least(Orgs)] =
                        [db.org[Least(Orgs)] EXCEPT !.status = "ACTIVE", !.used = 0]]
  <2> DEFINE o == Least(Orgs)
             y == [db.org[o] EXCEPT !.status = "ACTIVE", !.used = 0]
             x == db.made \cup {"history", "documents", "quotas"}
             z == [Ensured({"sync_jobs"}, "new") EXCEPT
                     !["cloud_settings"].rows = {Setting(o, "LOCAL", Null)}]
  <2>1. SchemaRows => db' = [db EXCEPT !.made = x, !.org[o] = y, !.now = z]
    BY Zenon DEF SchemaRows
  <2> HIDE DEF x, y, z, o
  <2>2. SchemaRows => db'.org = [db.org EXCEPT ![o] = y]
    BY <2>1 DEF UpgradeTypes, Fields
  <2> QED
    BY <2>2 DEF o, y
<1>2. UpgradeQuotas => db'.org = [o \in Orgs |->
         IF db.org[o].used = Absent /\ Exists(o) THEN [db.org[o] EXCEPT !.used = Held(db, o)]
         ELSE db.org[o]]
  <2> DEFINE y == [o \in Orgs |->
         IF db.org[o].used = Absent /\ Exists(o) THEN [db.org[o] EXCEPT !.used = Held(db, o)]
         ELSE db.org[o]]
  <2>1. UpgradeQuotas => \E x : db' = [db EXCEPT !.made = x, !.org = y]
    BY Zenon DEF UpgradeQuotas
  <2> HIDE DEF y
  <2>2. UpgradeQuotas => db'.org = y
    BY <2>1, FieldsSet, Zenon
  <2> QED
    BY <2>2 DEF y
<1>3. FillProfile => db'.org = [o \in Orgs |-> [db.org[o] EXCEPT !.profile = db.org[o].template]]
  <2> DEFINE y == [o \in Orgs |-> [db.org[o] EXCEPT !.profile = db.org[o].template]]
  <2>1. FillProfile => db' = [db EXCEPT !.org = y]
    BY Zenon DEF FillProfile
  <2> HIDE DEF y
  <2>2. FillProfile => db'.org = y
    BY <2>1 DEF UpgradeTypes, Fields
  <2> QED
    BY <2>2 DEF y
<1>4. UpgradeFeatures => db'.org = [o \in Orgs |->
         IF Exists(o) /\ db.org[o].enabled = Absent
         THEN [db.org[o] EXCEPT !.enabled = FirstFeatures(o)] ELSE db.org[o]]
  <2> DEFINE y == [o \in Orgs |->
         IF Exists(o) /\ db.org[o].enabled = Absent
         THEN [db.org[o] EXCEPT !.enabled = FirstFeatures(o)] ELSE db.org[o]]
  <2>1. UpgradeFeatures => \E x : db' = [db EXCEPT !.made = x, !.org = y]
    BY Zenon DEF UpgradeFeatures
  <2> HIDE DEF y
  <2>2. UpgradeFeatures => db'.org = y
    BY <2>1, FieldsSet, Zenon
  <2> QED
    BY <2>2 DEF y
<1>5. UpgradeMulticloud => db'.org = [o \in Orgs |->
         IF Exists(o) /\ db.org[o].profile = "STUDENT"
         THEN [db.org[o] EXCEPT !.enabled = db.org[o].enabled \cup {"multicloud_workspace"}]
         ELSE db.org[o]]
  <2> DEFINE y == [o \in Orgs |->
         IF Exists(o) /\ db.org[o].profile = "STUDENT"
         THEN [db.org[o] EXCEPT !.enabled = db.org[o].enabled \cup {"multicloud_workspace"}]
         ELSE db.org[o]]
  <2>1. UpgradeMulticloud => \E x : db' = [db EXCEPT !.made = x, !.org = y]
    BY Zenon DEF UpgradeMulticloud
  <2> HIDE DEF y
  <2>2. UpgradeMulticloud => db'.org = y
    BY <2>1, FieldsSet, Zenon
  <2> QED
    BY <2>2 DEF y
<1> QED
  BY <1>1, <1>2, <1>3, <1>4, <1>5

\* What the statements do to the tables.
LEMMA TablesWritten ==
  ASSUME UpgradeTypes
  PROVE
    /\ SchemaTables => db'.now = Ensured(Tables \ {"sync_jobs"}, "new")
    /\ SchemaRows => db'.now = [Ensured({"sync_jobs"}, "new") EXCEPT
                        !["cloud_settings"].rows = {Setting(Least(Orgs), "LOCAL", Null)}]
    /\ UpgradeCloud =>
         LET now == Ensured({"cloud_accounts", "cloud_settings", "sync_jobs"}, "old") IN
         db'.now = [now EXCEPT !["cloud_settings"].rows =
                       now["cloud_settings"].rows \cup LocalSettings(now["cloud_settings"].rows)]
    /\ UpgradeCloudFolders => db'.now = Ensured({"cloud_folder_mappings"}, "old")
    /\ ProfileTables => db'.now = Ensured({"document_requests"}, "old")
    /\ CreateRequests => db'.now = [db.now EXCEPT !["document_requests"] = Empty("new")]
    /\ CopyRequests => db'.now = [db.now EXCEPT !["document_requests"].rows =
                     {[r EXCEPT !.uuid = "legacy"] : r \in db.aside["document_requests"].rows}]
    /\ DropRequests => db'.aside = [db.aside EXCEPT !["document_requests"] = NoTable]
    /\ UpgradeDelivery => db'.now = Ensured(Evidence, "old")
    /\ CreateCloud => db'.now = Ensured(Cloud, "new")
    /\ FillCloud =>
         LET settings == {NewSetting(s) : s \in OldSettings} IN
         db'.now = [db.now EXCEPT
           !["cloud_accounts"].rows = {NewAccount(s) : s \in Linked},
           !["cloud_settings"].rows = settings \cup LocalSettings(settings),
           !["cloud_folder_mappings"].rows = NewMappings]
<1>1. SchemaTables => db'.now = Ensured(Tables \ {"sync_jobs"}, "new")
  <2> DEFINE y == Ensured(Tables \ {"sync_jobs"}, "new")
  <2>1. SchemaTables => \E x : db' = [db EXCEPT !.made = x, !.now = y]
    BY Zenon DEF SchemaTables
  <2> HIDE DEF y
  <2>2. SchemaTables => db'.now = y
    BY <2>1, FieldsSet, Zenon
  <2> QED
    BY <2>2 DEF y
<1>2. SchemaRows => db'.now = [Ensured({"sync_jobs"}, "new") EXCEPT
                        !["cloud_settings"].rows = {Setting(Least(Orgs), "LOCAL", Null)}]
  <2> DEFINE o == Least(Orgs)
             y == [db.org[o] EXCEPT !.status = "ACTIVE", !.used = 0]
             x == db.made \cup {"history", "documents", "quotas"}
             z == [Ensured({"sync_jobs"}, "new") EXCEPT
                     !["cloud_settings"].rows = {Setting(o, "LOCAL", Null)}]
  <2>1. SchemaRows => db' = [db EXCEPT !.made = x, !.org[o] = y, !.now = z]
    BY Zenon DEF SchemaRows
  <2> HIDE DEF x, y, z, o
  <2>2. SchemaRows => db'.now = z
    BY <2>1 DEF UpgradeTypes, Fields
  <2> QED
    BY <2>2 DEF z, o
<1>3. UpgradeCloud =>
         LET now == Ensured({"cloud_accounts", "cloud_settings", "sync_jobs"}, "old") IN
         db'.now = [now EXCEPT !["cloud_settings"].rows =
                       now["cloud_settings"].rows \cup LocalSettings(now["cloud_settings"].rows)]
  <2> DEFINE now == Ensured({"cloud_accounts", "cloud_settings", "sync_jobs"}, "old")
             y == [now EXCEPT !["cloud_settings"].rows =
                       now["cloud_settings"].rows \cup LocalSettings(now["cloud_settings"].rows)]
  <2>1. UpgradeCloud => db' = [db EXCEPT !.now = y]
    BY Zenon DEF UpgradeCloud
  <2> HIDE DEF y
  <2>2. UpgradeCloud => db'.now = y
    BY <2>1 DEF UpgradeTypes, Fields
  <2> QED
    BY <2>2, Zenon DEF y
<1>4. UpgradeCloudFolders => db'.now = Ensured({"cloud_folder_mappings"}, "old")
  <2> DEFINE y == Ensured({"cloud_folder_mappings"}, "old")
  <2>1. UpgradeCloudFolders => \E x : db' = [db EXCEPT !.made = x, !.now = y]
    BY Zenon DEF UpgradeCloudFolders
  <2> HIDE DEF y
  <2>2. UpgradeCloudFolders => db'.now = y
    BY <2>1, FieldsSet, Zenon
  <2> QED
    BY <2>2 DEF y
<1>5. ProfileTables => db'.now = Ensured({"document_requests"}, "old")
  <2> DEFINE y == Ensured({"document_requests"}, "old")
  <2>1. ProfileTables => db' = [db EXCEPT !.now = y]
    BY Zenon DEF ProfileTables
  <2> HIDE DEF y
  <2>2. ProfileTables => db'.now = y
    BY <2>1 DEF UpgradeTypes, Fields
  <2> QED
    BY <2>2 DEF y
<1>6. CreateRequests => db'.now = [db.now EXCEPT !["document_requests"] = Empty("new")]
  BY DEF CreateRequests, Create, UpgradeTypes, Fields
<1>7. CopyRequests => db'.now = [db.now EXCEPT !["document_requests"].rows =
                     {[r EXCEPT !.uuid = "legacy"] : r \in db.aside["document_requests"].rows}]
  BY DEF CopyRequests, UpgradeTypes, Fields
<1>8. DropRequests => db'.aside = [db.aside EXCEPT !["document_requests"] = NoTable]
  BY DEF DropRequests, Drop, UpgradeTypes, Fields
<1>9. UpgradeDelivery => db'.now = Ensured(Evidence, "old")
  <2> DEFINE y == Ensured(Evidence, "old")
  <2>1. UpgradeDelivery => \E x : db' = [db EXCEPT !.made = x, !.now = y]
    BY Zenon DEF UpgradeDelivery
  <2> HIDE DEF y
  <2>2. UpgradeDelivery => db'.now = y
    BY <2>1, FieldsSet, Zenon
  <2> QED
    BY <2>2 DEF y
<1>10. CreateCloud => db'.now = Ensured(Cloud, "new")
  <2> DEFINE y == Ensured(Cloud, "new")
  <2>1. CreateCloud => db' = [db EXCEPT !.now = y]
    BY Zenon DEF CreateCloud
  <2> HIDE DEF y
  <2>2. CreateCloud => db'.now = y
    BY <2>1 DEF UpgradeTypes, Fields
  <2> QED
    BY <2>2 DEF y
<1>11. FillCloud =>
         LET settings == {NewSetting(s) : s \in OldSettings} IN
         db'.now = [db.now EXCEPT
           !["cloud_accounts"].rows = {NewAccount(s) : s \in Linked},
           !["cloud_settings"].rows = settings \cup LocalSettings(settings),
           !["cloud_folder_mappings"].rows = NewMappings]
  <2> DEFINE settings == {NewSetting(s) : s \in OldSettings}
             y == [db.now EXCEPT
               !["cloud_accounts"].rows = {NewAccount(s) : s \in Linked},
               !["cloud_settings"].rows = settings \cup LocalSettings(settings),
               !["cloud_folder_mappings"].rows = NewMappings]
  <2>1. FillCloud => db' = [db EXCEPT !.now = y]
    BY Zenon DEF FillCloud
  <2> HIDE DEF y
  <2>2. FillCloud => db'.now = y
    BY <2>1 DEF UpgradeTypes, Fields
  <2> QED
    BY <2>2, Zenon DEF y
<1> QED
  BY <1>1, <1>2, <1>3, <1>4, <1>5, <1>6, <1>7, <1>8, <1>9, <1>10, <1>11

-----------------------------------------------------------------------------
(* The steps, by the stage they are taken at                               *)

\* One stage further, and what may change at each.
Advances ==
  /\ Stage \in 1 .. 51
  /\ \/ Stage' = Stage + 1 /\ Stage # 4
     \/ Stage = 4 /\ Stage' = 52
     \/ Stage = 12 /\ Stage' = 14
     \/ Stage = 19 /\ Stage' = 24
     \/ Stage = 23 /\ Stage' = 23
  /\ DOMAIN db' = Fields /\ before' = before /\ hurt' = hurt
  /\ db'.users = db.users /\ db'.history = db.history /\ db'.endpoint = db.endpoint
  /\ Stage \notin {4, 51} => db'.version = db.version
  /\ Stage \notin {1, 2, 3, 5, 6, 9, 10, 11, 12, 15, 16, 17, 24, 25, 47, 48, 50}
       => db'.made = db.made
  /\ Stage \notin {2, 7, 10, 13, 15, 47} => db'.org = db.org
  /\ Stage # 7 => db'.docs = db.docs
  /\ Stage # 9 => db'.admins = db.admins
  /\ Stage \notin {1, 2, 8, 11, 14, 19, 20, 21, 23, 24} \cup 26 .. 42 => db'.now = db.now
  /\ Stage \notin {19, 22, 26, 29, 30, 33, 34, 37, 38, 39, 40, 44, 45, 46} => db'.aside = db.aside
  /\ Stage # 43 => db'.orphans = db.orphans
  /\ Stage # 40 => db'.parent = db.parent
  /\ Stage # 18 => db'.jobs = db.jobs
  /\ Stage # 50 => db'.audit = db.audit

Halted == \E n \in {7, 19, 26, 30, 34, 38, 39, 40} : Halts(n)

\* A statement is one stage further.
LEMMA MovesAdvance ==
  /\ Moves(1, 2, {"made", "now"}) => Advances
  /\ Moves(2, 3, {"made", "org", "now"}) => Advances
  /\ Moves(3, 4, {"made"}) => Advances
  /\ Moves(4, 52, {"version"}) => Advances
  /\ Moves(5, 6, {"made"}) => Advances
  /\ Moves(6, 7, {"made"}) => Advances
  /\ Moves(7, 8, {"org", "docs"}) => Advances
  /\ Moves(8, 9, {"now"}) => Advances
  /\ Moves(9, 10, {"made", "admins"}) => Advances
  /\ Moves(10, 11, {"made", "org"}) => Advances
  /\ Moves(11, 12, {"made", "now"}) => Advances
  /\ Moves(12, 13, {"made"}) => Advances
  /\ Moves(12, 14, {}) => Advances
  /\ Moves(13, 14, {"org"}) => Advances
  /\ Moves(14, 15, {"now"}) => Advances
  /\ Moves(15, 16, {"made", "org"}) => Advances
  /\ Moves(16, 17, {"made"}) => Advances
  /\ Moves(17, 18, {"made", "active"}) => Advances
  /\ Moves(18, 19, {"jobs"}) => Advances
  /\ Moves(19, 24, {}) => Advances
  /\ Moves(20, 21, {"now"}) => Advances
  /\ Moves(21, 22, {"now"}) => Advances
  /\ Moves(22, 23, {"aside"}) => Advances
  /\ Moves(23, 23, {"now"}) => Advances
  /\ Moves(23, 24, {}) => Advances
  /\ Moves(24, 25, {"made", "now"}) => Advances
  /\ Moves(25, 26, {"made"}) => Advances
  /\ Moves(41, 42, {"now"}) => Advances
  /\ Moves(42, 43, {"now"}) => Advances
  /\ Moves(43, 44, {"orphans"}) => Advances
  /\ Moves(47, 48, {"made", "org"}) => Advances
  /\ Moves(48, 49, {"made"}) => Advances
  /\ Moves(49, 50, {}) => Advances
  /\ Moves(50, 51, {"made", "audit"}) => Advances
  /\ Moves(51, 52, {"version"}) => Advances
<1>1. Moves(1, 2, {"made", "now"}) => Advances
  BY DEF Moves, Advances, Fields
<1>2. Moves(2, 3, {"made", "org", "now"}) => Advances
  BY DEF Moves, Advances, Fields
<1>3. Moves(3, 4, {"made"}) => Advances
  BY DEF Moves, Advances, Fields
<1>4. Moves(4, 52, {"version"}) => Advances
  BY DEF Moves, Advances, Fields
<1>5. Moves(5, 6, {"made"}) => Advances
  BY DEF Moves, Advances, Fields
<1>6. Moves(6, 7, {"made"}) => Advances
  BY DEF Moves, Advances, Fields
<1>7. Moves(7, 8, {"org", "docs"}) => Advances
  BY DEF Moves, Advances, Fields
<1>8. Moves(8, 9, {"now"}) => Advances
  BY DEF Moves, Advances, Fields
<1>9. Moves(9, 10, {"made", "admins"}) => Advances
  BY DEF Moves, Advances, Fields
<1>10. Moves(10, 11, {"made", "org"}) => Advances
  BY DEF Moves, Advances, Fields
<1>11. Moves(11, 12, {"made", "now"}) => Advances
  BY DEF Moves, Advances, Fields
<1>12. Moves(12, 13, {"made"}) => Advances
  BY DEF Moves, Advances, Fields
<1>13. Moves(12, 14, {}) => Advances
  BY DEF Moves, Advances, Fields
<1>14. Moves(13, 14, {"org"}) => Advances
  BY DEF Moves, Advances, Fields
<1>15. Moves(14, 15, {"now"}) => Advances
  BY DEF Moves, Advances, Fields
<1>16. Moves(15, 16, {"made", "org"}) => Advances
  BY DEF Moves, Advances, Fields
<1>17. Moves(16, 17, {"made"}) => Advances
  BY DEF Moves, Advances, Fields
<1>18. Moves(17, 18, {"made", "active"}) => Advances
  BY DEF Moves, Advances, Fields
<1>19. Moves(18, 19, {"jobs"}) => Advances
  BY DEF Moves, Advances, Fields
<1>20. Moves(19, 24, {}) => Advances
  BY DEF Moves, Advances, Fields
<1>21. Moves(20, 21, {"now"}) => Advances
  BY DEF Moves, Advances, Fields
<1>22. Moves(21, 22, {"now"}) => Advances
  BY DEF Moves, Advances, Fields
<1>23. Moves(22, 23, {"aside"}) => Advances
  BY DEF Moves, Advances, Fields
<1>24. Moves(23, 23, {"now"}) => Advances
  BY DEF Moves, Advances, Fields
<1>25. Moves(23, 24, {}) => Advances
  BY DEF Moves, Advances, Fields
<1>26. Moves(24, 25, {"made", "now"}) => Advances
  BY DEF Moves, Advances, Fields
<1>27. Moves(25, 26, {"made"}) => Advances
  BY DEF Moves, Advances, Fields
<1>28. Moves(41, 42, {"now"}) => Advances
  BY DEF Moves, Advances, Fields
<1>29. Moves(42, 43, {"now"}) => Advances
  BY DEF Moves, Advances, Fields
<1>30. Moves(43, 44, {"orphans"}) => Advances
  BY DEF Moves, Advances, Fields
<1>31. Moves(47, 48, {"made", "org"}) => Advances
  BY DEF Moves, Advances, Fields
<1>32. Moves(48, 49, {"made"}) => Advances
  BY DEF Moves, Advances, Fields
<1>33. Moves(49, 50, {}) => Advances
  BY DEF Moves, Advances, Fields
<1>34. Moves(50, 51, {"made", "audit"}) => Advances
  BY DEF Moves, Advances, Fields
<1>35. Moves(51, 52, {"version"}) => Advances
  BY DEF Moves, Advances, Fields
<1> QED
  BY <1>1, <1>2, <1>3, <1>4, <1>5, <1>6, <1>7, <1>8, <1>9, <1>10, <1>11, <1>12, <1>13,
     <1>14, <1>15, <1>16, <1>17, <1>18, <1>19, <1>20, <1>21, <1>22, <1>23, <1>24, <1>25,
     <1>26, <1>27, <1>28, <1>29, <1>30, <1>31, <1>32, <1>33, <1>34, <1>35

\* So is a statement of a rebuilding.
LEMMA RebuildsAdvance ==
  /\ \A t, n : n \in {26, 30, 34} /\ t # "cloud_accounts" /\ PutAside(t, n, n + 1) => Advances
  /\ PutAside("document_requests", 19, 20) => Advances
  /\ PutAside("cloud_settings", 38, 39) => Advances
  /\ PutAside("cloud_folder_mappings", 39, 40) => Advances
  /\ PutAside("cloud_accounts", 40, 41) => Advances
  /\ \A t, n : n \in {26, 30, 34} /\ MadeAnew(t, n + 1, n + 2) => Advances
  /\ \A n : n \in {26, 30, 34} /\ Moves(n + 2, n + 3, {"now"}) => Advances
  /\ \A t, n : n \in {29, 33, 37, 44, 45, 46} /\ Dropped(t, n, n + 1) => Advances
<1> USE DEF Moves, Advances, Fields
<1>1. \A t, n : n \in {26, 30, 34} /\ t # "cloud_accounts" /\ PutAside(t, n, n + 1) => Advances
  BY DEF PutAside
<1>2. PutAside("document_requests", 19, 20) => Advances
  BY DEF PutAside
<1>3. PutAside("cloud_settings", 38, 39) => Advances
  BY DEF PutAside
<1>4. PutAside("cloud_folder_mappings", 39, 40) => Advances
  BY DEF PutAside
<1>5. PutAside("cloud_accounts", 40, 41) => Advances
  BY DEF PutAside
<1>6. \A t, n : n \in {26, 30, 34} /\ MadeAnew(t, n + 1, n + 2) => Advances
  BY DEF MadeAnew
<1>7. \A n : n \in {26, 30, 34} /\ Moves(n + 2, n + 3, {"now"}) => Advances
  OBVIOUS
<1>8. \A t, n : n \in {29, 33, 37, 44, 45, 46} /\ Dropped(t, n, n + 1) => Advances
  BY DEF Dropped
<1> QED
  BY <1>1, <1>2, <1>3, <1>4, <1>5, <1>6, <1>7, <1>8

\* Every statement advances, or halts; and the stage it is at.
LEMMA StatementsAdvance ==
  ASSUME UpgradeTypes
  PROVE
    /\ SchemaTables => Advances /\ Stage = 1
    /\ SchemaRows => Advances /\ Stage = 2
    /\ SchemaMounts => Advances /\ Stage = 3
    /\ SchemaVersion => Advances /\ Stage = 4
    /\ CreateLegacyTables => Advances /\ Stage = 5
    /\ UpgradeDocuments => Advances /\ Stage = 6
    /\ UpgradeCloud => Advances /\ Stage = 8
    /\ UpgradePeople => Advances /\ Stage = 9
    /\ UpgradeQuotas => Advances /\ Stage = 10
    /\ UpgradeCloudFolders => Advances /\ Stage = 11
    /\ FillProfile => Advances /\ Stage = 13
    /\ ProfileTables => Advances /\ Stage = 14
    /\ UpgradeFeatures => Advances /\ Stage = 15
    /\ UpgradeTransportJobs => Advances /\ Stage = 16
    /\ CreateTarget => Advances /\ Stage = 17
    /\ BindJobs => Advances /\ Stage = 18
    /\ CreateRequests => Advances /\ Stage = 20
    /\ CopyRequests => Advances /\ Stage = 21
    /\ DropRequests => Advances /\ Stage = 22
    /\ UpgradeDelivery => Advances /\ Stage = 24
    /\ UpgradeReceipts => Advances /\ Stage = 25
    /\ CreateCloud => Advances /\ Stage = 41
    /\ FillCloud => Advances /\ Stage = 42
    /\ ListOrphans => Advances /\ Stage = 43
    /\ UpgradeMulticloud => Advances /\ Stage = 47
    /\ UpgradeValidation => Advances /\ Stage = 48
    /\ BeginEnterprise => Advances /\ Stage = 49
    /\ UpgradeEnterprise => Advances /\ Stage = 50
    /\ CommitVersion => Advances /\ Stage = 51
    /\ UpgradeOrganizations => (Advances \/ Halted) /\ Stage = 7
    /\ AddProfile => Advances /\ Stage = 12
    /\ SetRequestsAside => (Advances \/ Halted) /\ Stage = 19
    /\ RenewRequestIds => Advances /\ Stage = 23
    /\ RebuildEvidence => (Advances \/ Halted) /\ Stage \in 26 .. 37
    /\ SetCloudAside => (Advances \/ Halted) /\ Stage \in 38 .. 40
    /\ DropCloud => Advances /\ Stage \in 44 .. 46
<1>1. SchemaTables => Advances /\ Stage = 1
  BY PlainMoves, MovesAdvance, Zenon DEF Moves
<1>2. SchemaRows => Advances /\ Stage = 2
  BY PlainMoves, MovesAdvance, Zenon DEF Moves
<1>3. SchemaMounts => Advances /\ Stage = 3
  BY PlainMoves, MovesAdvance, Zenon DEF Moves
<1>4. SchemaVersion => Advances /\ Stage = 4
  BY PlainMoves, MovesAdvance, Zenon DEF Moves
<1>5. CreateLegacyTables => Advances /\ Stage = 5
  BY PlainMoves, MovesAdvance, Zenon DEF Moves
<1>6. UpgradeDocuments => Advances /\ Stage = 6
  BY PlainMoves, MovesAdvance, Zenon DEF Moves
<1>7. UpgradeCloud => Advances /\ Stage = 8
  BY PlainMoves, MovesAdvance, Zenon DEF Moves
<1>8. UpgradePeople => Advances /\ Stage = 9
  BY PlainMoves, MovesAdvance, Zenon DEF Moves
<1>9. UpgradeQuotas => Advances /\ Stage = 10
  BY PlainMoves, MovesAdvance, Zenon DEF Moves
<1>10. UpgradeCloudFolders => Advances /\ Stage = 11
  BY PlainMoves, MovesAdvance, Zenon DEF Moves
<1>11. FillProfile => Advances /\ Stage = 13
  BY PlainMoves, MovesAdvance, Zenon DEF Moves
<1>12. ProfileTables => Advances /\ Stage = 14
  BY PlainMoves, MovesAdvance, Zenon DEF Moves
<1>13. UpgradeFeatures => Advances /\ Stage = 15
  BY PlainMoves, MovesAdvance, Zenon DEF Moves
<1>14. UpgradeTransportJobs => Advances /\ Stage = 16
  BY PlainMoves, MovesAdvance, Zenon DEF Moves
<1>15. CreateTarget => Advances /\ Stage = 17
  BY PlainMoves, MovesAdvance, Zenon DEF Moves
<1>16. BindJobs => Advances /\ Stage = 18
  BY PlainMoves, MovesAdvance, Zenon DEF Moves
<1>17. CreateRequests => Advances /\ Stage = 20
  BY PlainMoves, MovesAdvance, Zenon DEF Moves
<1>18. CopyRequests => Advances /\ Stage = 21
  BY PlainMoves, MovesAdvance, Zenon DEF Moves
<1>19. DropRequests => Advances /\ Stage = 22
  BY PlainMoves, MovesAdvance, Zenon DEF Moves
<1>20. UpgradeDelivery => Advances /\ Stage = 24
  BY PlainMoves, MovesAdvance, Zenon DEF Moves
<1>21. UpgradeReceipts => Advances /\ Stage = 25
  BY PlainMoves, MovesAdvance, Zenon DEF Moves
<1>22. CreateCloud => Advances /\ Stage = 41
  BY PlainMoves, MovesAdvance, Zenon DEF Moves
<1>23. FillCloud => Advances /\ Stage = 42
  BY PlainMoves, MovesAdvance, Zenon DEF Moves
<1>24. ListOrphans => Advances /\ Stage = 43
  BY PlainMoves, MovesAdvance, Zenon DEF Moves
<1>25. UpgradeMulticloud => Advances /\ Stage = 47
  BY PlainMoves, MovesAdvance, Zenon DEF Moves
<1>26. UpgradeValidation => Advances /\ Stage = 48
  BY PlainMoves, MovesAdvance, Zenon DEF Moves
<1>27. BeginEnterprise => Advances /\ Stage = 49
  BY PlainMoves, MovesAdvance, Zenon DEF Moves
<1>28. UpgradeEnterprise => Advances /\ Stage = 50
  BY PlainMoves, MovesAdvance, Zenon DEF Moves
<1>29. CommitVersion => Advances /\ Stage = 51
  BY PlainMoves, MovesAdvance, Zenon DEF Moves
<1>30. UpgradeOrganizations => (Advances \/ Halted) /\ Stage = 7
  <2>1. Halts(7) => Halted /\ Stage = 7
    BY DEF Halted, Halts
  <2> QED
    BY <2>1, OrganizationsMove, MovesAdvance, Zenon DEF Moves
<1>31. AddProfile => Advances /\ Stage = 12
  BY ProfileMoves, MovesAdvance, Zenon DEF Moves
<1>32. SetRequestsAside => (Advances \/ Halted) /\ Stage = 19
  <2>1. Halts(19) => Halted /\ Stage = 19
    BY DEF Halted, Halts
  <2> QED
    BY <2>1, RequestsAsideMoves, MovesAdvance, RebuildsAdvance, Zenon DEF Moves, PutAside
<1>33. RenewRequestIds => Advances /\ Stage = 23
  BY RenewMoves, MovesAdvance, Zenon DEF Moves
<1>34. RebuildEvidence => (Advances \/ Halted) /\ Stage \in 26 .. 37
  <2> SUFFICES ASSUME RebuildEvidence PROVE (Advances \/ Halted) /\ Stage \in 26 .. 37
    OBVIOUS
  <2>1. PICK t \in Evidence : EvidenceStep(t)
    BY EvidenceMoves
  <2> DEFINE b == Rank(Do("aside", t))
  <2>2. b \in {26, 30, 34} /\ t # "cloud_accounts"
    BY EvidenceRanks DEF Evidence
  <2>3. CASE PutAside(t, b, b + 1)
    BY <2>2, <2>3, RebuildsAdvance DEF PutAside, Moves
  <2>4. CASE Halts(b)
    BY <2>2, <2>4 DEF Halted, Halts
  <2>5. CASE MadeAnew(t, b + 1, b + 2)
    BY <2>2, <2>5, RebuildsAdvance DEF MadeAnew, Moves
  <2>6. CASE Moves(b + 2, b + 3, {"now"})
    BY <2>2, <2>6, RebuildsAdvance DEF Moves
  <2>7. CASE Dropped(t, b + 3, b + 4)
    <3> DEFINE n == b + 3
    <3>1. n \in {29, 33, 37, 44, 45, 46} /\ Dropped(t, n, n + 1)
      BY <2>2, <2>7
    <3>2. Stage = n
      BY <2>7 DEF Dropped, Moves
    <3> HIDE DEF n
    <3>3. Advances
      BY <3>1, RebuildsAdvance
    <3> QED
      BY <2>2, <3>2, <3>3 DEF n
  <2> QED
    BY <2>1, <2>3, <2>4, <2>5, <2>6, <2>7 DEF EvidenceStep
<1>35. SetCloudAside => (Advances \/ Halted) /\ Stage \in 38 .. 40
  <2>1. /\ Halts(38) => Halted /\ Stage \in 38 .. 40
        /\ Halts(39) => Halted /\ Stage \in 38 .. 40
        /\ Halts(40) => Halted /\ Stage \in 38 .. 40
    BY DEF Halted, Halts
  <2>2. /\ PutAside("cloud_settings", 38, 39) => Advances /\ Stage \in 38 .. 40
        /\ PutAside("cloud_folder_mappings", 39, 40) => Advances /\ Stage \in 38 .. 40
        /\ PutAside("cloud_accounts", 40, 41) => Advances /\ Stage \in 38 .. 40
    BY RebuildsAdvance DEF PutAside, Moves
  <2> QED
    BY <2>1, <2>2, CloudAsideMoves, Zenon
<1>36. DropCloud => Advances /\ Stage \in 44 .. 46
  <2>1. /\ Dropped("cloud_folder_mappings", 44, 45) => Advances /\ Stage \in 44 .. 46
        /\ Dropped("cloud_settings", 45, 46) => Advances /\ Stage \in 44 .. 46
        /\ Dropped("cloud_accounts", 46, 47) => Advances /\ Stage \in 44 .. 46
    BY RebuildsAdvance DEF Dropped, Moves
  <2> QED
    BY <2>1, CloudDropMoves, Zenon
<1> QED
  BY <1>1, <1>2, <1>3, <1>4, <1>5, <1>6, <1>7, <1>8, <1>9, <1>10, <1>11, <1>12, <1>13,
     <1>14, <1>15, <1>16, <1>17, <1>18, <1>19, <1>20, <1>21, <1>22, <1>23, <1>24, <1>25,
     <1>26, <1>27, <1>28, <1>29, <1>30, <1>31, <1>32, <1>33, <1>34, <1>35, <1>36

\* Every statement is the one of its stage.
LEMMA StageActions ==
  ASSUME UpgradeTypes, Upgrade
  PROVE
    /\ Advances \/ Halted
    /\ Stage = 1 => SchemaTables
    /\ Stage = 2 => SchemaRows
    /\ Stage = 3 => SchemaMounts
    /\ Stage = 4 => SchemaVersion
    /\ Stage = 5 => CreateLegacyTables
    /\ Stage = 6 => UpgradeDocuments
    /\ Stage = 8 => UpgradeCloud
    /\ Stage = 9 => UpgradePeople
    /\ Stage = 10 => UpgradeQuotas
    /\ Stage = 11 => UpgradeCloudFolders
    /\ Stage = 13 => FillProfile
    /\ Stage = 14 => ProfileTables
    /\ Stage = 15 => UpgradeFeatures
    /\ Stage = 16 => UpgradeTransportJobs
    /\ Stage = 17 => CreateTarget
    /\ Stage = 18 => BindJobs
    /\ Stage = 20 => CreateRequests
    /\ Stage = 21 => CopyRequests
    /\ Stage = 22 => DropRequests
    /\ Stage = 24 => UpgradeDelivery
    /\ Stage = 25 => UpgradeReceipts
    /\ Stage = 41 => CreateCloud
    /\ Stage = 42 => FillCloud
    /\ Stage = 43 => ListOrphans
    /\ Stage = 47 => UpgradeMulticloud
    /\ Stage = 48 => UpgradeValidation
    /\ Stage = 49 => BeginEnterprise
    /\ Stage = 50 => UpgradeEnterprise
    /\ Stage = 51 => CommitVersion
    /\ Stage = 7 => UpgradeOrganizations
    /\ Stage = 12 => AddProfile
    /\ Stage = 19 => SetRequestsAside
    /\ Stage = 23 => RenewRequestIds
    /\ Stage \in 26 .. 37 => RebuildEvidence
    /\ Stage \in 38 .. 40 => SetCloudAside
    /\ Stage \in 44 .. 46 => DropCloud
  BY StatementsAdvance DEF Upgrade

\* A start, and what it starts with.
Began ==
  /\ Stage = 0 /\ UNCHANGED <<db, before, hurt>>
  /\ IF db.version = 0 /\ db.made = {} THEN Stage' = 1
     ELSE /\ db.version = 0 => Stage' = 5
          /\ db.version \in 1 .. 20 => Stage' = 6
          /\ db.version = 21 => Stage' = 47
          /\ db.version = 22 => Stage' = 48
          /\ db.version = 23 => Stage' = 49
          /\ db.version = 24 => Stage' = 52

\* An interruption, what it leaves and what it spoils.
Stops ==
  /\ Stage \in 1 .. 51 /\ Stage' = 0 /\ before' = before
  /\ db' = IF Stage \in {50, 51} THEN saved ELSE db
  /\ hurt \subseteq hurt'
  /\ Stage = 13 => "profile" \in hurt'
  /\ Stage = 21 => "requests" \in hurt'
  /\ Stage \in {22, 23} => "ids" \in hurt'
  /\ "remote_mounts" \in db.made /\ db.version < 21 => "mounts" \in hurt'

Same == Stage' = Stage /\ UNCHANGED <<db, saved, before, hurt>>

\* Only the end of the script has the number of the end.
Known == Stage = 52 => step = Done

\* The stages are those of the script.
LEMMA StageRange == Stage \in 0 .. 52 /\ (Stage = 0 => step = Off)
<1>1. Stage \in 0 .. 52
  BY SMTT(60) DEF Stage, Rank
<1>2. Stage = 0 => step = Off
  BY SMTT(60) DEF Stage, Rank
<1> QED
  BY <1>1, <1>2

\* A start begins where the version of the database says.
LEMMA StartBegins ==
  ASSUME Start, db.version \in 0 .. 24
  PROVE  Began /\ Known'
<1>1. step = Off /\ UNCHANGED <<db, before, hurt>> /\ Stage = 0
  BY RankOf DEF Start, Stage
<1>2. CASE db.version = 0 /\ db.made = {}
  <2>1. step' = Do("schema", "tables")
    BY <1>2 DEF Start
  <2>2. Stage' = 1
    BY <2>1, RankOf DEF Stage
  <2> QED
    BY <1>1, <1>2, <2>2 DEF Began, Known
<1>3. CASE ~(db.version = 0 /\ db.made = {})
  <2>1. step' = FirstStep
    BY <1>3 DEF Start
  <2>2. /\ db.version = 0 => FirstStep = Do("legacy", "all")
        /\ db.version \in 1 .. 20 => FirstStep = Do("documents", "all")
        /\ db.version = 21 => FirstStep = Do("multicloud", "all")
        /\ db.version = 22 => FirstStep = Do("validation", "all")
        /\ db.version = 23 => FirstStep = Do("begin", "all")
        /\ db.version = 24 => FirstStep = Done
    BY DEF FirstStep
  <2>3. Stage' = Rank(FirstStep)
    BY <2>1 DEF Stage
  <2>4. /\ db.version = 0 => Stage' = 5
        /\ db.version \in 1 .. 20 => Stage' = 6
        /\ db.version = 21 => Stage' = 47
        /\ db.version = 22 => Stage' = 48
        /\ db.version = 23 => Stage' = 49
        /\ db.version = 24 => Stage' = 52
    BY <2>2, <2>3, RankOf
  <2>5. Stage' = 52 => db.version = 24
    BY <2>4
  <2> QED
    BY <1>1, <1>3, <2>1, <2>2, <2>4, <2>5 DEF Began, Known
<1> QED
  BY <1>2, <1>3

\* An interruption leaves what is in the file.
LEMMA InterruptStops ==
  ASSUME Interrupt, Known
  PROVE  Stops /\ Known'
<1>1. Stage \in 1 .. 51
  BY StageRange DEF Interrupt, Known
<1>2. Stage' = 0
  BY RankOf DEF Interrupt, Stage
<1>3. db' = IF Stage \in {50, 51} THEN saved ELSE db
  <2>1. Stage \in {50, 51} <=> step \in {Do("enterprise", "all"), Do("commit", "all")}
    BY StageIs, RankOf DEF Stage
  <2> QED
    BY <2>1 DEF Interrupt, Committed
<1>4. hurt' = hurt \cup Harm /\ before' = before
  BY DEF Interrupt
<1>5. /\ Stage = 13 => "profile" \in Harm
      /\ Stage = 21 => "requests" \in Harm
      /\ Stage \in {22, 23} => "ids" \in Harm
      /\ "remote_mounts" \in db.made /\ db.version < 21 => "mounts" \in Harm
  BY StageIs DEF Harm
<1> QED
  BY <1>1, <1>2, <1>3, <1>4, <1>5 DEF Stops, Known

\* Every step of the upgrade is one of these.
LEMMA UpgradeSteps ==
  ASSUME UpgradeTypes, Known, db.version \in 0 .. 24, [UpgradeNext]_upgradeVars
  PROVE  /\ (Upgrade /\ Advances) \/ Halted \/ Began \/ Stops \/ Same
         /\ Known'
<1>1. CASE Start
  BY <1>1, StartBegins
<1>2. CASE Interrupt
  BY <1>2, InterruptStops
<1>3. CASE UNCHANGED upgradeVars
  BY <1>3 DEF upgradeVars, Same, Known, Stage
<1>4. CASE Upgrade
  <2>1. Advances \/ Halted
    BY <1>4, StageActions
  <2>2. CASE Halted
    BY <2>2 DEF Halted, Halts, Known
  <2>3. CASE Advances
    <3>1. CASE Stage' = 52
      <4>1. Stage \in {4, 51}
        BY <2>3, <3>1 DEF Advances
      <4>2. SchemaVersion \/ CommitVersion
        BY <1>4, <4>1, StageActions
      <4>3. step' = Done
        BY <4>2 DEF SchemaVersion, CommitVersion, Statement
      <4> QED
        BY <1>4, <2>3, <4>3 DEF Known
    <3>2. CASE Stage' # 52
      BY <1>4, <2>3, <3>2 DEF Known
    <3> QED
      BY <3>1, <3>2
  <2> QED
    BY <2>1, <2>2, <2>3
<1> QED
  BY <1>1, <1>2, <1>3, <1>4 DEF UpgradeNext

-----------------------------------------------------------------------------
(* The tables, step by step                                                *)

\* A table is its shape and its rows.
LEMMA TableForms ==
  /\ \A s : IsTable(Empty(s)) /\ Empty(s).rows = {} /\ Empty(s).shape = s
  /\ IsTable(NoTable) /\ NoTable.rows = {} /\ NoTable.shape = "none"
  /\ \A t, r : IsTable(t) =>
       LET u == [t EXCEPT !.rows = r] IN IsTable(u) /\ u.rows = r /\ u.shape = t.shape
  /\ \A t, u : IsTable(t) /\ IsTable(u) /\ t.shape = u.shape /\ t.rows = u.rows => t = u
<1>1. \A s : IsTable(Empty(s)) /\ Empty(s).rows = {} /\ Empty(s).shape = s
  BY DEF IsTable, Empty
<1>2. IsTable(NoTable) /\ NoTable.rows = {} /\ NoTable.shape = "none"
  BY DEF IsTable, NoTable, Empty
<1>3. \A t, r : IsTable(t) =>
       LET u == [t EXCEPT !.rows = r] IN IsTable(u) /\ u.rows = r /\ u.shape = t.shape
  BY DEF IsTable
<1>4. \A t, u : IsTable(t) /\ IsTable(u) /\ t.shape = u.shape /\ t.rows = u.rows => t = u
  BY DEF IsTable
<1> QED
  BY <1>1, <1>2, <1>3, <1>4

\* CREATE TABLE IF NOT EXISTS leaves the tables that are there.
LEMMA EnsuredTables ==
  ASSUME UpgradeTypes, NEW S, NEW s
  PROVE  /\ DOMAIN Ensured(S, s) = Tables
         /\ \A t \in Tables :
              /\ IsTable(Ensured(S, s)[t])
              /\ t \notin S \/ db.now[t] # NoTable => Ensured(S, s)[t] = db.now[t]
              /\ t \in S /\ db.now[t] = NoTable => Ensured(S, s)[t] = Empty(s)
              /\ Ensured(S, s)[t].rows = db.now[t].rows
  BY TableForms DEF UpgradeTypes, Ensured

\* The tables that may change at each stage, and how.
LEMMA TablesAt ==
  ASSUME UpgradeTypes, Upgrade, Advances
  PROVE
    /\ Stage = 1 => db'.now = Ensured(Tables \ {"sync_jobs"}, "new")
    /\ Stage = 2 => db'.now = [Ensured({"sync_jobs"}, "new") EXCEPT
                        !["cloud_settings"].rows = {Setting(Least(Orgs), "LOCAL", Null)}]
    /\ Stage = 8 =>
         LET now == Ensured({"cloud_accounts", "cloud_settings", "sync_jobs"}, "old") IN
         db'.now = [now EXCEPT !["cloud_settings"].rows =
                       now["cloud_settings"].rows \cup LocalSettings(now["cloud_settings"].rows)]
    /\ Stage = 11 => db'.now = Ensured({"cloud_folder_mappings"}, "old")
    /\ Stage = 14 => db'.now = Ensured({"document_requests"}, "old")
    /\ Stage = 19 =>
         \/ Moves(19, 24, {}) /\ db.now["document_requests"].shape = "new"
         \/ /\ PutAside("document_requests", 19, 20)
            /\ db.now["document_requests"].shape # "new"
    /\ Stage = 20 => db'.now = [db.now EXCEPT !["document_requests"] = Empty("new")]
    /\ Stage = 21 => db'.now = [db.now EXCEPT !["document_requests"].rows =
                     {[r EXCEPT !.uuid = "legacy"] : r \in db.aside["document_requests"].rows}]
    /\ Stage = 22 => db'.aside = [db.aside EXCEPT !["document_requests"] = NoTable]
    /\ Stage = 23 =>
         \/ /\ Moves(23, 23, {"now"})
            /\ \E r \in db.now["document_requests"].rows :
                 /\ r.uuid = "legacy"
                 /\ db'.now = [db.now EXCEPT !["document_requests"].rows =
                      (db.now["document_requests"].rows \ {r}) \cup {[r EXCEPT !.uuid = "own"]}]
         \/ /\ Moves(23, 24, {})
            /\ \A r \in db.now["document_requests"].rows : r.uuid # "legacy"
    /\ Stage = 24 => db'.now = Ensured(Evidence, "old")
    /\ Stage \in 26 .. 37 => \E t \in Evidence : EvidenceStep(t)
    /\ Stage = 38 => PutAside("cloud_settings", 38, 39)
    /\ Stage = 39 => PutAside("cloud_folder_mappings", 39, 40)
    /\ Stage = 40 => PutAside("cloud_accounts", 40, 41)
    /\ Stage = 41 => db'.now = Ensured(Cloud, "new")
    /\ Stage = 42 =>
         LET settings == {NewSetting(s) : s \in OldSettings} IN
         db'.now = [db.now EXCEPT
           !["cloud_accounts"].rows = {NewAccount(s) : s \in Linked},
           !["cloud_settings"].rows = settings \cup LocalSettings(settings),
           !["cloud_folder_mappings"].rows = NewMappings]
    /\ Stage = 44 => Dropped("cloud_folder_mappings", 44, 45)
    /\ Stage = 45 => Dropped("cloud_settings", 45, 46)
    /\ Stage = 46 => Dropped("cloud_accounts", 46, 47)
<1>1. ~Halts(19) /\ ~Halts(38) /\ ~Halts(39) /\ ~Halts(40)
  BY DEF Advances, Halts
<1>2. Stage \in 38 .. 40 =>
        \/ PutAside("cloud_settings", 38, 39)
        \/ PutAside("cloud_folder_mappings", 39, 40)
        \/ PutAside("cloud_accounts", 40, 41)
  BY <1>1, StageActions, CloudAsideMoves
<1>3. /\ PutAside("cloud_settings", 38, 39) => Stage = 38
      /\ PutAside("cloud_folder_mappings", 39, 40) => Stage = 39
      /\ PutAside("cloud_accounts", 40, 41) => Stage = 40
      /\ Dropped("cloud_folder_mappings", 44, 45) => Stage = 44
      /\ Dropped("cloud_settings", 45, 46) => Stage = 45
      /\ Dropped("cloud_accounts", 46, 47) => Stage = 46
  BY DEF PutAside, Dropped, Moves
<1>4. Stage \in 44 .. 46 =>
        \/ Dropped("cloud_folder_mappings", 44, 45)
        \/ Dropped("cloud_settings", 45, 46)
        \/ Dropped("cloud_accounts", 46, 47)
  BY StageActions, CloudDropMoves
<1>5. /\ Stage = 38 => PutAside("cloud_settings", 38, 39)
      /\ Stage = 39 => PutAside("cloud_folder_mappings", 39, 40)
      /\ Stage = 40 => PutAside("cloud_accounts", 40, 41)
  BY <1>2, <1>3
<1>6. /\ Stage = 44 => Dropped("cloud_folder_mappings", 44, 45)
      /\ Stage = 45 => Dropped("cloud_settings", 45, 46)
      /\ Stage = 46 => Dropped("cloud_accounts", 46, 47)
  BY <1>3, <1>4
<1>7. /\ Stage = 1 => SchemaTables
      /\ Stage = 2 => SchemaRows
      /\ Stage = 8 => UpgradeCloud
      /\ Stage = 11 => UpgradeCloudFolders
      /\ Stage = 14 => ProfileTables
      /\ Stage = 19 => SetRequestsAside
      /\ Stage = 20 => CreateRequests
      /\ Stage = 21 => CopyRequests
      /\ Stage = 22 => DropRequests
      /\ Stage = 23 => RenewRequestIds
      /\ Stage = 24 => UpgradeDelivery
      /\ Stage \in 26 .. 37 => RebuildEvidence
      /\ Stage = 41 => CreateCloud
      /\ Stage = 42 => FillCloud
  BY StageActions, Zenon
<1>8. Stage = 19 =>
         \/ Moves(19, 24, {}) /\ db.now["document_requests"].shape = "new"
         \/ /\ PutAside("document_requests", 19, 20)
            /\ db.now["document_requests"].shape # "new"
  BY <1>1, <1>7, RequestsAsideMoves, Zenon
<1>9. Stage = 23 =>
         \/ /\ Moves(23, 23, {"now"})
            /\ \E r \in db.now["document_requests"].rows :
                 /\ r.uuid = "legacy"
                 /\ db'.now = [db.now EXCEPT !["document_requests"].rows =
                      (db.now["document_requests"].rows \ {r}) \cup {[r EXCEPT !.uuid = "own"]}]
         \/ /\ Moves(23, 24, {})
            /\ \A r \in db.now["document_requests"].rows : r.uuid # "legacy"
  BY <1>7, RenewMoves, Zenon
<1>10. Stage \in 26 .. 37 => \E t \in Evidence : EvidenceStep(t)
  BY <1>7, EvidenceMoves, Zenon
<1>11. Stage = 8 =>
         LET now == Ensured({"cloud_accounts", "cloud_settings", "sync_jobs"}, "old") IN
         db'.now = [now EXCEPT !["cloud_settings"].rows =
                       now["cloud_settings"].rows \cup LocalSettings(now["cloud_settings"].rows)]
  BY <1>7, TablesWritten, Zenon
<1>12. /\ Stage = 1 => db'.now = Ensured(Tables \ {"sync_jobs"}, "new")
       /\ Stage = 2 => db'.now = [Ensured({"sync_jobs"}, "new") EXCEPT
                        !["cloud_settings"].rows = {Setting(Least(Orgs), "LOCAL", Null)}]
       /\ Stage = 11 => db'.now = Ensured({"cloud_folder_mappings"}, "old")
       /\ Stage = 14 => db'.now = Ensured({"document_requests"}, "old")
       /\ Stage = 20 => db'.now = [db.now EXCEPT !["document_requests"] = Empty("new")]
       /\ Stage = 21 => db'.now = [db.now EXCEPT !["document_requests"].rows =
                     {[r EXCEPT !.uuid = "legacy"] : r \in db.aside["document_requests"].rows}]
       /\ Stage = 22 => db'.aside = [db.aside EXCEPT !["document_requests"] = NoTable]
       /\ Stage = 24 => db'.now = Ensured(Evidence, "old")
       /\ Stage = 41 => db'.now = Ensured(Cloud, "new")
  BY <1>7, TablesWritten, Zenon
<1>13. Stage = 42 =>
         LET settings == {NewSetting(s) : s \in OldSettings} IN
         db'.now = [db.now EXCEPT
           !["cloud_accounts"].rows = {NewAccount(s) : s \in Linked},
           !["cloud_settings"].rows = settings \cup LocalSettings(settings),
           !["cloud_folder_mappings"].rows = NewMappings]
  BY <1>7, TablesWritten, Zenon
<1> QED
  BY <1>5, <1>6, <1>8, <1>9, <1>10, <1>11, <1>12, <1>13, Zenon

\* A table of evidence is none of the others.
LEMMA EvidenceApart ==
  ASSUME NEW t \in Evidence, NEW u \in Evidence, t # u
  PROVE  Rank(Do("aside", t)) # Rank(Do("aside", u))
  BY RankOf DEF Evidence

\* What a rebuilding does to its table, by the stage.
LEMMA EvidenceStepAt ==
  ASSUME UpgradeTypes, NEW t \in Evidence, EvidenceStep(t), Advances
  PROVE  LET b == Rank(Do("aside", t)) IN
         /\ \A u \in Tables \ {t} : db'.now[u] = db.now[u] /\ db'.aside[u] = db.aside[u]
         /\ DOMAIN db'.now = Tables /\ DOMAIN db'.aside = Tables
         /\ IsTable(db'.now[t]) /\ IsTable(db'.aside[t])
         /\ \/ /\ Stage = b /\ db.aside[t] = NoTable
               /\ db'.now[t] = NoTable /\ db'.aside[t] = db.now[t]
            \/ Stage = b + 1 /\ db'.now[t].rows = {} /\ db'.aside[t] = db.aside[t]
            \/ Stage = b + 2 /\ db'.now[t].rows = db.aside[t].rows /\ db'.aside[t] = db.aside[t]
            \/ Stage = b + 3 /\ db'.now[t] = db.now[t] /\ db'.aside[t] = NoTable
<1> DEFINE b == Rank(Do("aside", t))
<1>1. t \in Tables /\ b \in {26, 30, 34}
  BY EvidenceRanks
<1>2. CASE PutAside(t, b, b + 1)
  BY <1>1, <1>2, TableForms DEF PutAside, Moves, UpgradeTypes
<1>3. CASE Halts(b)
  BY <1>1, <1>3 DEF Halts, Advances
<1>4. CASE MadeAnew(t, b + 1, b + 2)
  <2>1. db'.aside = db.aside
    BY <1>4 DEF MadeAnew, Moves, Fields
  <2> QED
    BY <1>1, <1>4, <2>1, TableForms DEF MadeAnew, Moves, UpgradeTypes
<1>5. CASE /\ Moves(b + 2, b + 3, {"now"})
           /\ db'.now = [db.now EXCEPT ![t].rows = db.aside[t].rows]
  <2>1. db'.aside = db.aside /\ Stage = b + 2
    BY <1>5 DEF Moves, Fields
  <2>2. db'.now = [db.now EXCEPT ![t] = [db.now[t] EXCEPT !.rows = db.aside[t].rows]]
    BY <1>5
  <2>3. LET u == [db.now[t] EXCEPT !.rows = db.aside[t].rows]
        IN  IsTable(u) /\ u.rows = db.aside[t].rows
    <3>1. IsTable(db.now[t])
      BY <1>1 DEF UpgradeTypes
    <3> QED
      BY <3>1 DEF IsTable
  <2> QED
    BY <1>1, <2>1, <2>2, <2>3 DEF UpgradeTypes
<1>6. CASE Dropped(t, b + 3, b + 4)
  <2>1. db'.now = db.now
    BY <1>6 DEF Dropped, Moves, Fields
  <2> QED
    BY <1>1, <1>6, <2>1, TableForms DEF Dropped, Moves, UpgradeTypes
<1> QED
  BY <1>2, <1>3, <1>4, <1>5, <1>6 DEF EvidenceStep

\* A table put aside, or dropped, and the others.
LEMMA PutAsideAt ==
  ASSUME UpgradeTypes, NEW t \in Tables, NEW m, NEW n, PutAside(t, m, n)
  PROVE  /\ \A u \in Tables \ {t} : db'.now[u] = db.now[u] /\ db'.aside[u] = db.aside[u]
         /\ DOMAIN db'.now = Tables /\ DOMAIN db'.aside = Tables
         /\ db.aside[t] = NoTable /\ db'.now[t] = NoTable /\ db'.aside[t] = db.now[t]
         /\ Stage = m /\ Stage' = n
  BY DEF PutAside, Moves, UpgradeTypes

\* Dropping takes away the table put aside and nothing else.
LEMMA DroppedAt ==
  ASSUME UpgradeTypes, NEW t \in Tables, NEW m, NEW n, Dropped(t, m, n)
  PROVE  /\ \A u \in Tables \ {t} : db'.aside[u] = db.aside[u]
         /\ db'.now = db.now /\ DOMAIN db'.aside = Tables
         /\ db'.aside[t] = NoTable
  BY DEF Dropped, Moves, UpgradeTypes, Fields

\* A table stays, or is made with no rows in it.
Grown(t) ==
  db'.now[t] = db.now[t] \/ (db.now[t] = NoTable /\ db'.now[t].rows = {})

\* A table whose rows alone are written.
LEMMA RowsWritten ==
  ASSUME UpgradeTypes, NEW now, DOMAIN now = Tables, \A t \in Tables : IsTable(now[t]),
         NEW t \in Tables, NEW r
  PROVE  LET new == [now EXCEPT ![t].rows = r] IN
         /\ DOMAIN new = Tables
         /\ \A u \in Tables : IsTable(new[u])
         /\ \A u \in Tables \ {t} : new[u] = now[u]
         /\ new[t].rows = r /\ new[t].shape = now[t].shape
<1> DEFINE v == [now[t] EXCEPT !.rows = r]
<1>1. IsTable(v) /\ v.rows = r /\ v.shape = now[t].shape
  <2>1. IsTable(now[t])
    OBVIOUS
  <2> QED
    BY <2>1 DEF IsTable
<1>2. [now EXCEPT ![t].rows = r] = [now EXCEPT ![t] = v]
  OBVIOUS
<1> HIDE DEF v
<1>3. LET new == [now EXCEPT ![t] = v] IN
         /\ DOMAIN new = Tables
         /\ \A u \in Tables : IsTable(new[u])
         /\ \A u \in Tables \ {t} : new[u] = now[u]
         /\ new[t].rows = r /\ new[t].shape = now[t].shape
  BY <1>1
<1> QED
  BY <1>2, <1>3, Zenon

\* The three tables of cloud accounts with these rows.
Written(a, s, m) ==
  [db.now EXCEPT !["cloud_accounts"].rows = a, !["cloud_settings"].rows = s,
                 !["cloud_folder_mappings"].rows = m]

\* The tables after the rows of all three are written.
LEMMA CloudWritten ==
  ASSUME UpgradeTypes
  PROVE  \A a, s, m :
         /\ DOMAIN Written(a, s, m) = Tables
         /\ \A u \in Tables : IsTable(Written(a, s, m)[u])
         /\ \A u \in Tables \ Cloud : Written(a, s, m)[u] = db.now[u]
         /\ Written(a, s, m)["cloud_accounts"].rows = a
         /\ Written(a, s, m)["cloud_settings"].rows = s
         /\ Written(a, s, m)["cloud_folder_mappings"].rows = m
         /\ \A u \in Cloud : Written(a, s, m)[u].shape = db.now[u].shape
<1> TAKE a, s, m
<1> DEFINE x == [db.now EXCEPT !["cloud_accounts"].rows = a]
           y == [x EXCEPT !["cloud_settings"].rows = s]
           z == [y EXCEPT !["cloud_folder_mappings"].rows = m]
<1>1. DOMAIN db.now = Tables /\ \A t \in Tables : IsTable(db.now[t])
  BY DEF UpgradeTypes
<1>2. /\ DOMAIN x = Tables /\ \A u \in Tables : IsTable(x[u])
      /\ \A u \in Tables \ {"cloud_accounts"} : x[u] = db.now[u]
      /\ x["cloud_accounts"].rows = a
      /\ x["cloud_accounts"].shape = db.now["cloud_accounts"].shape
  <2>1. "cloud_accounts" \in Tables
    BY CloudTables
  <2> QED
    BY <1>1, <2>1, RowsWritten
<1> HIDE DEF x
<1>3. /\ DOMAIN y = Tables /\ \A u \in Tables : IsTable(y[u])
      /\ \A u \in Tables \ {"cloud_settings"} : y[u] = x[u]
      /\ y["cloud_settings"].rows = s
      /\ y["cloud_settings"].shape = x["cloud_settings"].shape
  <2>1. "cloud_settings" \in Tables
    BY CloudTables
  <2> QED
    BY <1>2, <2>1, RowsWritten
<1> HIDE DEF y
<1>4. /\ DOMAIN z = Tables /\ \A u \in Tables : IsTable(z[u])
      /\ \A u \in Tables \ {"cloud_folder_mappings"} : z[u] = y[u]
      /\ z["cloud_folder_mappings"].rows = m
      /\ z["cloud_folder_mappings"].shape = y["cloud_folder_mappings"].shape
  <2>1. "cloud_folder_mappings" \in Tables
    BY CloudTables
  <2> QED
    BY <1>3, <2>1, RowsWritten
<1>5. z = Written(a, s, m)
  BY Zenon DEF x, y, Written
<1> HIDE DEF z
<1>6. /\ DOMAIN z = Tables
      /\ \A u \in Tables : IsTable(z[u])
      /\ \A u \in Tables \ Cloud : z[u] = db.now[u]
      /\ z["cloud_accounts"].rows = a
      /\ z["cloud_settings"].rows = s
      /\ z["cloud_folder_mappings"].rows = m
      /\ \A u \in Cloud : z[u].shape = db.now[u].shape
  BY <1>2, <1>3, <1>4, CloudTables DEF Cloud
<1> QED
  BY <1>5, <1>6, Zenon

\* What each stage does to tables it is not about.
LEMMA TablesMove ==
  ASSUME UpgradeTypes, Upgrade, Advances
  PROVE
    /\ DOMAIN db'.now = Tables /\ DOMAIN db'.aside = Tables
    /\ \A t \in Tables : IsTable(db'.now[t]) /\ IsTable(db'.aside[t])
    /\ \A t \in Tables :
         /\ Stage \in {1, 11, 14, 24, 41} \/ (Stage \in {2, 8} /\ t # "cloud_settings") => Grown(t)
         /\ Stage \in {19, 20, 21, 22, 23} /\ t # "document_requests" =>
              db'.now[t] = db.now[t] /\ db'.aside[t] = db.aside[t]
         /\ Stage \in 26 .. 37 /\ t \notin Evidence =>
              db'.now[t] = db.now[t] /\ db'.aside[t] = db.aside[t]
         /\ Stage \in {38, 39, 40, 42, 44, 45, 46} /\ t \notin Cloud =>
              db'.now[t] = db.now[t] /\ db'.aside[t] = db.aside[t]
<1>1. /\ DOMAIN db.now = Tables /\ DOMAIN db.aside = Tables
      /\ \A t \in Tables : IsTable(db.now[t]) /\ IsTable(db.aside[t])
  BY DEF UpgradeTypes
<1>2. CASE Stage \notin {1, 2, 8, 11, 14, 19, 20, 21, 22, 23, 24} \cup 26 .. 42 \cup 44 .. 46
  <2>1. db'.now = db.now /\ db'.aside = db.aside
    BY <1>2, StageRange DEF Advances
  <2> QED
    BY <1>1, <1>2, <2>1
<1>3. CASE Stage \in {1, 11, 14, 24, 41}
  <2>1. \E S, s : db'.now = Ensured(S, s)
    <3>1. /\ Stage = 1 => db'.now = Ensured(Tables \ {"sync_jobs"}, "new")
          /\ Stage = 11 => db'.now = Ensured({"cloud_folder_mappings"}, "old")
          /\ Stage = 14 => db'.now = Ensured({"document_requests"}, "old")
          /\ Stage = 24 => db'.now = Ensured(Evidence, "old")
          /\ Stage = 41 => db'.now = Ensured(Cloud, "new")
      BY TablesAt, Zenon
    <3> QED
      BY <1>3, <3>1, Zenon
  <2>2. PICK S, s : db'.now = Ensured(S, s)
    BY <2>1
  <2>3. db'.aside = db.aside
    BY <1>3 DEF Advances
  <2>4. /\ DOMAIN db'.now = Tables
        /\ \A t \in Tables :
              /\ IsTable(db'.now[t])
              /\ db'.now[t] = db.now[t] \/ (db.now[t] = NoTable /\ db'.now[t] = Empty(s))
    BY <2>2, EnsuredTables
  <2> QED
    BY <1>1, <1>3, <2>3, <2>4, TableForms DEF Grown
<1>4. CASE Stage = 2
  <2>1. db'.aside = db.aside
    BY <1>4 DEF Advances
  <2> DEFINE e == Ensured({"sync_jobs"}, "new")
             r == {Setting(Least(Orgs), "LOCAL", Null)}
  <2>2. db'.now = [e EXCEPT !["cloud_settings"].rows = r]
    BY <1>4, TablesAt, Zenon
  <2>3. DOMAIN e = Tables /\ \A t \in Tables : IsTable(e[t])
    BY EnsuredTables
  <2>4. \A t \in Tables : \/ e[t] = db.now[t]
                          \/ db.now[t] = NoTable /\ e[t].rows = {}
    BY EnsuredTables, TableForms
  <2> HIDE DEF e, r
  <2>5. /\ DOMAIN db'.now = Tables /\ \A t \in Tables : IsTable(db'.now[t])
        /\ \A t \in Tables \ {"cloud_settings"} : db'.now[t] = e[t]
    BY <2>2, <2>3, CloudTables, RowsWritten
  <2> QED
    BY <1>1, <1>4, <2>1, <2>4, <2>5 DEF Grown
<1>5. CASE Stage = 8
  <2>1. db'.aside = db.aside
    BY <1>5 DEF Advances
  <2> DEFINE e == Ensured({"cloud_accounts", "cloud_settings", "sync_jobs"}, "old")
             r == e["cloud_settings"].rows \cup LocalSettings(e["cloud_settings"].rows)
  <2>2. db'.now = [e EXCEPT !["cloud_settings"].rows = r]
    BY <1>5, TablesAt, Zenon
  <2>3. DOMAIN e = Tables /\ \A t \in Tables : IsTable(e[t])
    BY EnsuredTables
  <2>4. \A t \in Tables : \/ e[t] = db.now[t]
                          \/ db.now[t] = NoTable /\ e[t].rows = {}
    BY EnsuredTables, TableForms
  <2> HIDE DEF e, r
  <2>5. /\ DOMAIN db'.now = Tables /\ \A t \in Tables : IsTable(db'.now[t])
        /\ \A t \in Tables \ {"cloud_settings"} : db'.now[t] = e[t]
    BY <2>2, <2>3, CloudTables, RowsWritten
  <2> QED
    BY <1>1, <1>5, <2>1, <2>4, <2>5 DEF Grown
<1>6. CASE Stage = 19
  <2>1. CASE Moves(19, 24, {})
    <3>1. db'.now = db.now /\ db'.aside = db.aside
      BY <2>1 DEF Moves, Fields
    <3> QED
      BY <1>1, <1>6, <3>1
  <2>2. CASE PutAside("document_requests", 19, 20)
    <3> DEFINE q == "document_requests"
    <3>1. q \in Tables
      BY CloudTables
    <3>2. /\ \A u \in Tables \ {q} : db'.now[u] = db.now[u] /\ db'.aside[u] = db.aside[u]
          /\ DOMAIN db'.now = Tables /\ DOMAIN db'.aside = Tables
          /\ db'.now[q] = NoTable /\ db'.aside[q] = db.now[q]
      BY <2>2, <3>1, PutAsideAt, Zenon
    <3> QED
      BY <1>1, <1>6, <3>1, <3>2, TableForms
  <2> QED
    BY <1>6, <2>1, <2>2, TablesAt
<1>7. CASE Stage = 20
  <2>1. db'.aside = db.aside
    BY <1>7 DEF Advances
  <2>2. db'.now = [db.now EXCEPT !["document_requests"] = Empty("new")]
    BY <1>7, TablesAt
  <2> QED
    BY <1>1, <1>7, <2>1, <2>2, TableForms
<1>8. CASE Stage \in {21, 23}
  <2>1. db'.aside = db.aside
    BY <1>8 DEF Advances
  <2>2. (\E r : db'.now = [db.now EXCEPT !["document_requests"].rows = r]) \/ db'.now = db.now
    <3>1. Moves(23, 24, {}) => db'.now = db.now
      BY DEF Moves, Fields
    <3> QED
      BY <1>8, <3>1, TablesAt, Zenon
  <2>3. CASE db'.now = db.now
    BY <1>1, <1>8, <2>1, <2>3
  <2>4. CASE \E r : db'.now = [db.now EXCEPT !["document_requests"].rows = r]
    <3>1. PICK r : db'.now = [db.now EXCEPT !["document_requests"].rows = r]
      BY <2>4
    <3>2. /\ DOMAIN db'.now = Tables /\ \A t \in Tables : IsTable(db'.now[t])
          /\ \A t \in Tables \ {"document_requests"} : db'.now[t] = db.now[t]
      BY <1>1, <3>1, CloudTables, RowsWritten
    <3> QED
      BY <1>1, <1>8, <2>1, <3>2
  <2> QED
    BY <2>2, <2>3, <2>4
<1>9. CASE Stage = 22
  <2>1. db'.now = db.now
    BY <1>9 DEF Advances
  <2>2. db'.aside = [db.aside EXCEPT !["document_requests"] = NoTable]
    BY <1>9, TablesAt
  <2> QED
    BY <1>1, <1>9, <2>1, <2>2, TableForms
<1>10. CASE Stage \in 26 .. 37
  <2>1. PICK t \in Evidence : EvidenceStep(t)
    BY <1>10, TablesAt
  <2>2. /\ \A u \in Tables \ {t} : db'.now[u] = db.now[u] /\ db'.aside[u] = db.aside[u]
        /\ DOMAIN db'.now = Tables /\ DOMAIN db'.aside = Tables
        /\ IsTable(db'.now[t]) /\ IsTable(db'.aside[t])
    BY <2>1, EvidenceStepAt, Zenon
  <2> QED
    BY <1>1, <1>10, <2>2
<1>11. CASE Stage \in 38 .. 40
  <2>1. PICK t \in Cloud : \E m, n : PutAside(t, m, n)
    BY <1>11, TablesAt DEF Cloud
  <2>2. t \in Tables
    BY CloudTables
  <2>3. /\ \A u \in Tables \ {t} : db'.now[u] = db.now[u] /\ db'.aside[u] = db.aside[u]
        /\ DOMAIN db'.now = Tables /\ DOMAIN db'.aside = Tables
        /\ db'.now[t] = NoTable /\ db'.aside[t] = db.now[t]
    BY <2>1, <2>2, PutAsideAt, Zenon
  <2> QED
    BY <1>1, <1>11, <2>2, <2>3, TableForms
<1>12. CASE Stage = 42
  <2> DEFINE set   == {NewSetting(x) : x \in OldSettings}
             all   == set \cup LocalSettings(set)
             owned == {NewAccount(x) : x \in Linked}
  <2>1. db'.now = Written(owned, all, NewMappings)
    BY <1>12, TablesAt, Zenon DEF Written
  <2> HIDE DEF owned, all
  <2>2. /\ DOMAIN db'.now = Tables
        /\ \A u \in Tables : IsTable(db'.now[u])
        /\ \A u \in Tables \ Cloud : db'.now[u] = db.now[u]
    BY <2>1, CloudWritten, SMT
  <2>3. db'.aside = db.aside
    BY <1>12 DEF Advances
  <2> QED
    BY <1>1, <1>12, <2>2, <2>3
<1>13. CASE Stage \in 44 .. 46
  <2>1. PICK t \in Cloud : \E m, n : Dropped(t, m, n)
    BY <1>13, TablesAt DEF Cloud
  <2>2. t \in Tables
    BY CloudTables
  <2>3. /\ \A u \in Tables \ {t} : db'.aside[u] = db.aside[u]
        /\ db'.now = db.now /\ DOMAIN db'.aside = Tables
        /\ db'.aside[t] = NoTable
    BY <2>1, <2>2, DroppedAt, Zenon
  <2> QED
    BY <1>1, <1>13, <2>2, <2>3, TableForms
<1>14. \/ Stage \notin {1, 2, 8, 11, 14, 19, 20, 21, 22, 23, 24} \cup 26 .. 42 \cup 44 .. 46
       \/ Stage \in {1, 11, 14, 24, 41} \/ Stage = 2 \/ Stage = 8 \/ Stage = 19 \/ Stage = 20
       \/ Stage \in {21, 23} \/ Stage = 22 \/ Stage \in 26 .. 37 \/ Stage \in 38 .. 40
       \/ Stage = 42 \/ Stage \in 44 .. 46
  BY StageRange
<1> QED
  BY <1>2, <1>3, <1>4, <1>5, <1>6, <1>7, <1>8, <1>9, <1>10, <1>11, <1>12, <1>13, <1>14, Zenon

-----------------------------------------------------------------------------
(* The way through the script                                              *)

Fresh == [h \in {} |-> 0]

\* The database of a first start is empty.
LEMMA BaseZero ==
  /\ DOMAIN Base(0) = Fields
  /\ Base(0).version = 0 /\ Base(0).made = {} /\ Base(0).users = {} /\ Base(0).admins = {}
  /\ Base(0).jobs = {} /\ Base(0).history = {} /\ Base(0).audit = Fresh
  /\ DOMAIN Base(0).docs = {} /\ Base(0).parent = "cloud_accounts" /\ Base(0).orphans = {}
  /\ Base(0).org = [o \in Orgs |-> NoOrganization]
  /\ Base(0).now = [t \in Tables |-> NoTable]
<1>1. PartsOf(0) = {}
  <2>1. \A p \in Parts : Introduced[p] >= 1
    BY DEF Parts, Introduced
  <2>2. \A p \in Parts : ~(Introduced[p] <= 0)
    <3>1. \A p \in Parts : Introduced[p] \in Nat
      BY DEF Parts, Introduced
    <3> QED
      BY <2>1, <3>1
  <2> QED
    BY <2>2 DEF PartsOf
<1>2. DOMAIN Base(0) = Fields
  BY DEF Base, Fields
<1>3. /\ Base(0).version = 0 /\ Base(0).made = PartsOf(0) /\ Base(0).users = {}
      /\ Base(0).admins = {}
      /\ Base(0).jobs = {} /\ Base(0).history = {} /\ Base(0).audit = Fresh
      /\ DOMAIN Base(0).docs = {} /\ Base(0).parent = "cloud_accounts" /\ Base(0).orphans = {}
  BY DEF Base, Fresh
<1>4. Base(0).org = [o \in Orgs |-> NoOrganization]
  BY DEF Base
<1>5. Base(0).now = [t \in Tables |-> NoTable]
  BY DEF Base
<1> QED
  BY <1>1, <1>2, <1>3, <1>4, <1>5

\* Where the program is in the script, by what it was started on.
Way ==
  /\ Known
  /\ before \in Databases
  /\ Stage \in 1 .. 4 => before.made = {}
  /\ Stage \in 5 .. 46 => before.version <= 20
  /\ Stage = 47 => before.version <= 21
  /\ Stage = 48 => before.version <= 22
  /\ Stage \in 49 .. 51 => before.version <= 23
  /\ Stage # 52 => db.version = before.version
  /\ db.made = {} => db = before /\ Stage \in {0, 1}
  /\ Stage = 1 => db.made = {}
  /\ db.users = before.users /\ db.history = before.history
  /\ DOMAIN db.docs = DOMAIN before.docs

\* The transaction of version 24, and what is outside it.
Opened ==
  /\ Stage = 50 => saved = db
  /\ Stage = 51 => /\ DOMAIN saved = Fields
                   /\ \A f \in Fields \ {"made", "audit"} : saved[f] = db[f]
                   /\ saved.made # {} /\ saved.made \subseteq db.made
                   /\ saved.audit = Fresh

Stopped ==
  /\ Stage \in 1 .. 51 /\ Stage' = 0 /\ before' = before
  /\ DOMAIN db' = Fields /\ \A f \in Fields \ {"made", "audit"} : db'[f] = db[f]
  /\ db'.made \subseteq db.made /\ (Stage >= 5 => db'.made # {})
  /\ Stage # 51 => db' = db
  /\ Stage = 51 => db'.audit = Fresh
  /\ hurt \subseteq hurt'
  /\ Stage = 13 => "profile" \in hurt'
  /\ Stage = 21 => "requests" \in hurt'
  /\ Stage \in {22, 23} => "ids" \in hurt'
  /\ "remote_mounts" \in db.made /\ db.version < 21 => "mounts" \in hurt'

\* What an interruption leaves, the open transaction undone.
LEMMA StopLeaves ==
  ASSUME UpgradeTypes, Way, Opened, Stops
  PROVE  Stopped
<1>1. CASE Stage \notin {50, 51}
  BY <1>1 DEF Stops, Stopped, Way, UpgradeTypes
<1>2. CASE Stage = 50
  BY <1>2 DEF Stops, Stopped, Way, UpgradeTypes, Opened
<1>3. CASE Stage = 51
  BY <1>3 DEF Stops, Stopped, Way, UpgradeTypes, Opened
<1> QED
  BY <1>1, <1>2, <1>3

\* The program was first started on a database an earlier one left.
LEMMA LeftBefore ==
  ASSUME Way
  PROVE  /\ LeftByProgram(before) /\ before.version \in 0 .. 24
         /\ before.made = {} => before = Base(0)
<1>1. LeftByProgram(before)
  BY DatabasesAssumption DEF Way
<1> QED
  BY <1>1 DEF LeftByProgram, WellFormed, Current

\* The parts made on the way.
LEMMA MadeAt ==
  ASSUME UpgradeTypes, Upgrade, Advances
  PROVE
    /\ Stage # 1 => db.made \subseteq db'.made
    /\ Stage = 1 => "profile_code" \in db'.made /\ "remote_mounts" \notin db'.made
    /\ Stage \notin {3, 47} /\ "remote_mounts" \in db'.made => "remote_mounts" \in db.made
    /\ Stage \notin {1, 12} /\ "profile_code" \in db'.made => "profile_code" \in db.made
    /\ Stage = 12 => "profile_code" \in db'.made
<1>1. CASE Stage = 12
  <2>1. AddProfile
    BY <1>1, StageActions, Zenon
  <2>2. Moves(12, 14, {}) => db'.made = db.made
    BY DEF Moves, Fields
  <2> QED
    BY <1>1, <2>1, <2>2, ProfileMoves
<1>2. CASE Stage = 1
  <2>1. db'.made = Parts \ {"history", "documents", "quotas", "remote_mounts", "validation_records"}
    BY <1>2, StageActions, PartsMade, Zenon
  <2>2. "profile_code" \in Parts
    BY DEF Parts, Introduced
  <2> QED
    BY <1>2, <2>1, <2>2
<1>3. CASE Stage \notin {1, 12}
  <2>1. CASE Stage \in {2, 3, 5, 6, 9, 10, 11}
    <3>1. /\ Stage = 2 => SchemaRows
          /\ Stage = 3 => SchemaMounts
          /\ Stage = 5 => CreateLegacyTables
          /\ Stage = 6 => UpgradeDocuments
          /\ Stage = 9 => UpgradePeople
          /\ Stage = 10 => UpgradeQuotas
          /\ Stage = 11 => UpgradeCloudFolders
      BY StageActions, Zenon
    <3>2. /\ Stage = 2 => db'.made = db.made \cup {"history", "documents", "quotas"}
          /\ Stage = 3 => db'.made = db.made \cup {"remote_mounts", "validation_records"}
          /\ Stage = 5 => db'.made = db.made \cup {"history"}
          /\ Stage = 6 => db'.made = db.made \cup {"documents"}
          /\ Stage = 9 => db'.made = db.made \cup {"people"}
          /\ Stage = 10 => db'.made = db.made \cup {"quotas"}
          /\ Stage = 11 => db'.made = db.made \cup {"cloud_folder_adoption"}
      BY <3>1, PartsMade, Zenon
    <3> QED
      BY <2>1, <3>2
  <2>2. CASE Stage \in {15, 16, 17, 24, 25}
    <3>1. /\ Stage = 15 => UpgradeFeatures
          /\ Stage = 16 => UpgradeTransportJobs
          /\ Stage = 17 => CreateTarget
          /\ Stage = 24 => UpgradeDelivery
          /\ Stage = 25 => UpgradeReceipts
      BY StageActions, Zenon
    <3>2. /\ Stage = 15 => db'.made = db.made \cup {"organization_feature_settings"}
          /\ Stage = 16 => db'.made = db.made \cup {"transport_jobs"}
          /\ Stage = 17 => db'.made = db.made \cup {"organization_transport_targets"}
          /\ Stage = 24 => db'.made = db.made \cup {"document_deliveries"}
          /\ Stage = 25 => db'.made = db.made \cup {"delivery_acknowledgement_receipts"}
      BY <3>1, PartsMade, Zenon
    <3> QED
      BY <2>2, <3>2
  <2>3. CASE Stage \in {47, 48, 50}
    <3>1. /\ Stage = 47 => UpgradeMulticloud
          /\ Stage = 48 => UpgradeValidation
          /\ Stage = 50 => UpgradeEnterprise
      BY StageActions, Zenon
    <3>2. /\ Stage = 47 => db'.made = db.made \cup {"remote_mounts"}
          /\ Stage = 48 => db'.made = db.made \cup {"validation_records"}
          /\ Stage = 50 => db'.made = db.made \cup {"public_uuid"}
      BY <3>1, PartsMade, Zenon
    <3> QED
      BY <2>3, <3>2
  <2>4. CASE Stage \notin {1, 2, 3, 5, 6, 9, 10, 11, 12, 15, 16, 17, 24, 25, 47, 48, 50}
    BY <2>4 DEF Advances
  <2> QED
    BY <1>3, <2>1, <2>2, <2>3, <2>4
<1> QED
  BY <1>1, <1>2, <1>3

\* The organizations, row by row.
LEMMA OrgsAt ==
  ASSUME UpgradeTypes, Upgrade, Advances
  PROVE
    /\ DOMAIN db'.org = Orgs
    /\ \A o \in Orgs :
         /\ DOMAIN db'.org[o] = DOMAIN NoOrganization
         /\ db'.org[o].template = db.org[o].template
         /\ Stage # 13 => db'.org[o].profile = db.org[o].profile
         /\ Stage = 13 => db'.org[o].profile = db.org[o].template
         /\ Stage \notin {2, 10} => db'.org[o].used = db.org[o].used
         /\ Stage \notin {2, 7} => db'.org[o].status = db.org[o].status
         /\ Stage = 10 => db'.org[o].used = IF db.org[o].used = Absent /\ Exists(o)
                                            THEN Held(db, o) ELSE db.org[o].used
         /\ Stage = 2 => db'.org[o].used \in {db.org[o].used, 0}
         /\ Stage = 2 /\ db'.org[o].status # db.org[o].status => db'.org[o].used = 0
<1>1. /\ DOMAIN db.org = Orgs
      /\ \A o \in Orgs : DOMAIN db.org[o] = {"status", "template", "profile", "enabled", "used"}
      /\ DOMAIN NoOrganization = {"status", "template", "profile", "enabled", "used"}
  BY DEF UpgradeTypes, NoOrganization
<1>2. CASE Stage \notin {2, 7, 10, 13, 15, 47}
  <2>1. db'.org = db.org
    BY <1>2 DEF Advances
  <2> QED
    BY <1>1, <1>2, <2>1
<1>3. CASE Stage = 2
  <2> DEFINE l == Least(Orgs)
  <2>1. db'.org = [db.org EXCEPT ![l] = [db.org[l] EXCEPT !.status = "ACTIVE", !.used = 0]]
    BY <1>3, StageActions, OrgsWritten, Zenon
  <2> HIDE DEF l
  <2> QED
    BY <1>1, <1>3, <2>1
<1>4. CASE Stage = 7
  <2>1. db'.org = OrgsOpened
    <3>1. UpgradeOrganizations /\ ~Halts(7)
      BY <1>4, StageActions DEF Advances, Halts
    <3> QED
      BY <3>1, OrganizationsMove
  <2> DEFINE l == Least(Orgs)
  <2>2. db'.org = db.org \/ db'.org = [db.org EXCEPT ![l].status = "ACTIVE"]
    BY <2>1, Zenon DEF OrgsOpened
  <2> HIDE DEF l
  <2> QED
    BY <1>1, <1>4, <2>2
<1>5. CASE Stage = 10
  <2>1. db'.org = [o \in Orgs |->
         IF db.org[o].used = Absent /\ Exists(o) THEN [db.org[o] EXCEPT !.used = Held(db, o)]
         ELSE db.org[o]]
    BY <1>5, StageActions, OrgsWritten, Zenon
  <2> QED
    BY <1>1, <1>5, <2>1
<1>6. CASE Stage = 13
  <2>1. db'.org = [o \in Orgs |-> [db.org[o] EXCEPT !.profile = db.org[o].template]]
    BY <1>6, StageActions, OrgsWritten, Zenon
  <2> QED
    BY <1>1, <1>6, <2>1
<1>7. CASE Stage = 15
  <2>1. db'.org = [o \in Orgs |->
         IF Exists(o) /\ db.org[o].enabled = Absent
         THEN [db.org[o] EXCEPT !.enabled = FirstFeatures(o)] ELSE db.org[o]]
    BY <1>7, StageActions, OrgsWritten, Zenon
  <2> QED
    BY <1>1, <1>7, <2>1
<1>8. CASE Stage = 47
  <2>1. db'.org = [o \in Orgs |->
         IF Exists(o) /\ db.org[o].profile = "STUDENT"
         THEN [db.org[o] EXCEPT !.enabled = db.org[o].enabled \cup {"multicloud_workspace"}]
         ELSE db.org[o]]
    BY <1>8, StageActions, OrgsWritten, Zenon
  <2> QED
    BY <1>1, <1>8, <2>1
<1> QED
  BY <1>2, <1>3, <1>4, <1>5, <1>6, <1>7, <1>8

\* A statement keeps the parts of the database.
LEMMA TypesMove ==
  ASSUME UpgradeTypes, Upgrade, Advances
  PROVE  UpgradeTypes'
  BY OrgsAt, TablesMove DEF UpgradeTypes, Advances

\* So does every step.
LEMMA TypesKept ==
  ASSUME UpgradeTypes, Way, Opened, (Upgrade /\ Advances) \/ Halted \/ Began \/ Stops \/ Same
  PROVE  UpgradeTypes'
<1>1. CASE Upgrade /\ Advances
  BY <1>1, TypesMove
<1>2. CASE Halted \/ Began \/ Same
  BY <1>2 DEF Halted, Halts, Began, Same, UpgradeTypes
<1>3. CASE Stops
  BY <1>3, StopLeaves DEF Stopped, UpgradeTypes, Fields
<1> QED
  BY <1>1, <1>2, <1>3

\* The transaction, as the steps leave it.
LEMMA OpenedKept ==
  ASSUME UpgradeTypes, Way, Opened, before.version < 24 => (Stage <= 50 => db.audit = Fresh),
         (Upgrade /\ Advances) \/ Halted \/ Began \/ Stops \/ Same
  PROVE  Opened'
<1>1. CASE Upgrade /\ Advances
  <2>1. CASE Stage = 49
    <3>1. BeginEnterprise
      BY <1>1, <2>1, StageActions, Zenon
    <3>2. saved' = db /\ db' = db
      BY <3>1 DEF BeginEnterprise
    <3>3. Stage' = 50
      BY <1>1, <2>1 DEF Advances
    <3> QED
      BY <3>2, <3>3 DEF Opened
  <2>2. CASE Stage = 50
    <3>1. UpgradeEnterprise
      BY <1>1, <2>2, StageActions, Zenon
    <3>2. saved' = saved
      BY <3>1, Zenon DEF UpgradeEnterprise, Plain, Statement
    <3>3. UpgradeEnterprise => Moves(50, 51, {"made", "audit"})
      BY PlainMoves, Zenon
    <3>4. saved' = db /\ db.audit = Fresh /\ db.made # {}
      BY <2>2, <3>2, LeftBefore DEF Opened, Way
    <3> QED
      BY <1>1, <2>2, <3>1, <3>3, <3>4, MadeAt DEF Opened, Moves, UpgradeTypes
  <2>3. CASE Stage \notin {49, 50}
    BY <1>1, <2>3 DEF Advances, Opened
  <2> QED
    BY <2>1, <2>2, <2>3
<1>2. CASE Halted \/ Stops
  BY <1>2 DEF Halted, Halts, Stops, Opened
<1>3. CASE Began
  <2>1. Stage' \notin {50, 51}
    BY <1>3, LeftBefore DEF Began, Way
  <2> QED
    BY <2>1 DEF Opened
<1>4. CASE Same
  BY <1>4 DEF Same, Opened
<1> QED
  BY <1>1, <1>2, <1>3, <1>4

\* The script is followed from the version the database has.
LEMMA WayKept ==
  ASSUME UpgradeTypes, Way, Opened, Known',
         (Upgrade /\ Advances) \/ Halted \/ Began \/ Stops \/ Same
  PROVE  Way'
<1>1. CASE Upgrade /\ Advances
  <2>1. before' = before /\ db'.users = db.users /\ db'.history = db.history
    BY <1>1 DEF Advances
  <2>2. DOMAIN db'.docs = DOMAIN db.docs
    <3>1. CASE Stage = 7
      <4>1. UpgradeOrganizations /\ ~Halts(7)
        BY <1>1, <3>1, StageActions DEF Advances, Halts
      <4>2. db'.docs = DocsPlaced
        BY <4>1, OrganizationsMove
      <4> QED
        BY <4>2 DEF DocsPlaced
    <3>2. CASE Stage # 7
      BY <1>1, <3>2 DEF Advances
    <3> QED
      BY <3>1, <3>2
  <2>3. db'.made # {} /\ Stage' # 1
    BY <1>1, MadeAt DEF Way, Advances
  <2>4. Stage' # 52 => db'.version = db.version /\ Stage # 52
    BY <1>1 DEF Advances
  <2>5. /\ Stage' \in 1 .. 4 => Stage \in 1 .. 4
        /\ Stage' \in 5 .. 46 => Stage \in 5 .. 46
        /\ Stage' = 47 => Stage = 46
        /\ Stage' = 48 => Stage = 47
        /\ Stage' \in 49 .. 51 => Stage \in 48 .. 50
    BY <1>1 DEF Advances
  <2>6. before.version \in 0 .. 24
    BY LeftBefore
  <2> QED
    BY <2>1, <2>2, <2>3, <2>4, <2>5, <2>6 DEF Way
<1>2. CASE Halted
  BY <1>2 DEF Halted, Halts, Way
<1>3. CASE Began
  <2>1. before.version \in 0 .. 24 /\ (before.made = {} => before.version = 0)
    BY LeftBefore, BaseZero
  <2>2. UNCHANGED <<db, before>> /\ Stage = 0 /\ db.version = before.version
    BY <1>3 DEF Began, Way
  <2>3. CASE db.version = 0 /\ db.made = {}
    <3>1. Stage' = 1
      BY <1>3, <2>3 DEF Began
    <3> QED
      BY <2>1, <2>2, <2>3, <3>1 DEF Way
  <2>4. CASE ~(db.version = 0 /\ db.made = {})
    <3>1. /\ db.version = 0 => Stage' = 5
          /\ db.version \in 1 .. 20 => Stage' = 6
          /\ db.version = 21 => Stage' = 47
          /\ db.version = 22 => Stage' = 48
          /\ db.version = 23 => Stage' = 49
          /\ db.version = 24 => Stage' = 52
      BY <1>3, <2>4 DEF Began
    <3>2. db.made # {}
      BY <2>1, <2>2, <2>4 DEF Way
    <3> QED
      BY <2>1, <2>2, <3>1, <3>2 DEF Way
  <2> QED
    BY <2>3, <2>4
<1>4. CASE Stops
  <2>1. Stopped
    BY <1>4, StopLeaves
  <2>2. db'.version = db.version /\ db'.users = db.users /\ db'.history = db.history
        /\ db'.docs = db.docs
    BY <2>1 DEF Stopped, Fields
  <2>3. db'.made = {} => db' = db /\ db.made = {}
    BY <2>1 DEF Stopped, Way
  <2> QED
    BY <2>1, <2>2, <2>3 DEF Way, Stopped
<1>5. CASE Same
  BY <1>5 DEF Same, Way
<1> QED
  BY <1>1, <1>2, <1>3, <1>4, <1>5

-----------------------------------------------------------------------------
(* What is counted, filled, named and bound                                *)

\* The space of an organization is not counted, or it is what its documents hold.
Space ==
  /\ \A o \in Orgs : db.org[o].used \in {Absent, Held(db, o)}
  /\ (\E o \in Orgs : db.org[o].used # Absent) \/ Stage \in 8 .. 52 \/ before.version > 20
       => \A x \in DOMAIN db.docs : db.docs[x] # Null
  /\ Stage >= 11 \/ Stage \in {3, 4} \/ before.version > 20
       => \A o \in Orgs : Exists(o) => db.org[o].used = Held(db, o)
  /\ Stage \in {1, 2} => db.org = before.org

\* Where there are no documents nobody holds one.
LEMMA HeldByNone ==
  ASSUME NEW d, DOMAIN d.docs = {}, NEW o
  PROVE  Held(d, o) = 0
<1>1. {x \in DOMAIN d.docs : d.docs[x] = o} = {}
  OBVIOUS
<1> QED
  BY <1>1, FS_EmptySet DEF Held

\* A set of numbers has a least one.
LEMMA LeastIn ==
  ASSUME NEW S, S \subseteq Nat, S # {}
  PROVE  Least(S) \in S /\ \A y \in S : Least(S) <= y
<1> DEFINE Less == OpToRel(<, Nat)
<1>1. \A x, y \in Nat : x < y => <<x, y>> \in Less
  BY DEF OpToRel
<1>2. IsWellFoundedOn(Less, Nat)
  BY NatLessThanWellFounded
<1> HIDE DEF Less
<1>3. PICK x \in S : \A y \in S : ~(<<y, x>> \in Less)
  BY <1>2, WFMin
<1>4. \A y \in S : ~(y < x)
  BY <1>1, <1>3
<1>5. \A y \in S : x <= y
  BY <1>4
<1> QED
  BY <1>5 DEF Least

\* The space used stays counted.
LEMMA SpaceKept ==
  ASSUME UpgradeTypes, Way, Opened, Space, Way',
         (Upgrade /\ Advances) \/ Halted \/ Began \/ Stops \/ Same
  PROVE  Space'
<1>1. db'.docs = db.docs => \A o : Held(db', o) = Held(db, o)
  BY DEF Held
<1>0. DOMAIN db'.docs = DOMAIN db.docs /\ (\A x \in DOMAIN db.docs : db'.docs[x] = db.docs[x])
        => \A o : Held(db', o) = Held(db, o)
  <2> SUFFICES ASSUME DOMAIN db'.docs = DOMAIN db.docs,
                      \A x \in DOMAIN db.docs : db'.docs[x] = db.docs[x], NEW o
               PROVE  Held(db', o) = Held(db, o)
    OBVIOUS
  <2>1. {x \in DOMAIN db'.docs : db'.docs[x] = o} = {x \in DOMAIN db.docs : db.docs[x] = o}
    OBVIOUS
  <2> QED
    BY <2>1 DEF Held
<1>2. CASE Upgrade /\ Advances
  <2>1. CASE Stage = 7
    <3>1. UpgradeOrganizations /\ ~Halts(7)
      BY <1>2, <2>1, StageActions DEF Advances, Halts
    <3>2. OpenOrgs # {} /\ db'.docs = DocsPlaced
      BY <3>1, OrganizationsMove
    <3>3. Least(OpenOrgs) # Null
      <4>1. OpenOrgs \subseteq Nat
        BY OrderAssumption DEF OpenOrgs
      <4>2. Least(OpenOrgs) \in OpenOrgs
        BY <3>2, <4>1, LeastIn
      <4> QED
        BY <4>1, <4>2, NullAssumption
    <3>4. \A x \in DOMAIN db'.docs : db'.docs[x] # Null
      BY <3>2, <3>3 DEF DocsPlaced
    <3>5. \A o \in Orgs : db'.org[o].used = db.org[o].used
      BY <1>2, <2>1, OrgsAt
    <3>6. before' = before /\ Stage' = 8 /\ before.version \in 0 .. 20
      BY <1>2, <2>1, LeftBefore DEF Advances, Way
    <3>7. (\E o \in Orgs : db.org[o].used # Absent) =>
            DOMAIN db'.docs = DOMAIN db.docs /\ \A x \in DOMAIN db.docs : db'.docs[x] = db.docs[x]
      BY <3>2 DEF DocsPlaced, Space
    <3>8. (\E o \in Orgs : db.org[o].used # Absent) => \A o : Held(db', o) = Held(db, o)
      BY <1>0, <3>7
    <3> QED
      BY <3>4, <3>5, <3>6, <3>8 DEF Space
  <2>2. CASE Stage = 10
    <3>1. db'.docs = db.docs /\ before' = before /\ Stage' = 11
      BY <1>2, <2>2 DEF Advances
    <3>2. \A o \in Orgs : /\ db'.org[o].used = (IF db.org[o].used = Absent /\ Exists(o)
                                                  THEN Held(db, o) ELSE db.org[o].used)
                          /\ db'.org[o].status = db.org[o].status
      BY <1>2, <2>2, OrgsAt
    <3>3. \A o \in Orgs : Exists(o)' <=> Exists(o)
      BY <3>2 DEF Exists
    <3> QED
      BY <1>1, <2>2, <3>1, <3>2, <3>3 DEF Space
  <2>3. CASE Stage = 2
    <3>1. db'.docs = db.docs /\ before' = before /\ Stage' = 3
      BY <1>2, <2>3 DEF Advances
    <3>2. before = Base(0) /\ DOMAIN db.docs = {}
      BY <2>3, LeftBefore, BaseZero DEF Way
    <3>3. \A o \in Orgs : db.org[o] = NoOrganization
      BY <2>3, <3>2, BaseZero DEF Space
    <3>4. \A o \in Orgs : Held(db', o) = 0
      BY <3>1, <3>2, HeldByNone
    <3>5. \A o \in Orgs : db.org[o].used = Absent /\ db.org[o].status = "none"
      BY <3>3 DEF NoOrganization
    <3>6. \A o \in Orgs : /\ db'.org[o].used \in {Absent, 0}
                          /\ db'.org[o].status # "none" => db'.org[o].used = 0
      BY <1>2, <2>3, <3>5, OrgsAt
    <3> QED
      BY <3>1, <3>2, <3>4, <3>6 DEF Space, Exists
  <2>4. CASE Stage \notin {2, 7, 10}
    <3>1. db'.docs = db.docs /\ before' = before
      BY <1>2, <2>4 DEF Advances
    <3>2. \A o \in Orgs : /\ db'.org[o].used = db.org[o].used
                          /\ db'.org[o].status = db.org[o].status
      BY <1>2, <2>4, OrgsAt
    <3>3. \A o \in Orgs : Exists(o)' <=> Exists(o)
      BY <3>2 DEF Exists
    <3>4. Stage' = 2 => db'.org = db.org /\ Stage = 1
      BY <1>2 DEF Advances
    <3>5. /\ Stage' \in 8 .. 52 => Stage \in 8 .. 52 \/ Stage = 4
          /\ Stage' >= 11 \/ Stage' \in {3, 4} => Stage >= 11 \/ Stage \in {3, 4}
          /\ Stage' # 1
      BY <1>2, <2>4 DEF Advances
    <3>6. Stage = 4 => DOMAIN db.docs = {}
      BY LeftBefore, BaseZero DEF Way
    <3> QED
      BY <1>1, <3>1, <3>2, <3>3, <3>4, <3>5, <3>6 DEF Space
  <2> QED
    BY <2>1, <2>2, <2>3, <2>4
<1>3. CASE Halted
  BY <1>1, <1>3 DEF Halted, Halts, Space, Exists
<1>4. CASE Began
  <2>1. UNCHANGED <<db, before>> /\ db.version = before.version /\ before.version \in 0 .. 24
    BY <1>4, LeftBefore DEF Began, Way
  <2>2. Stage' \in {1, 5, 6} \/ before.version > 20
    BY <1>4, <2>1 DEF Began
  <2>3. Stage' = 1 => db = before
    BY <1>4, <2>1 DEF Began, Way
  <2>4. Stage' \in {1, 5, 6} => Stage' \notin {2, 3, 4} \cup 8 .. 52 /\ ~(Stage' >= 11)
    OBVIOUS
  <2>5. before.version > 20 => Stage' \notin {1, 2}
    BY <1>4, <2>1 DEF Began
  <2> QED
    BY <2>1, <2>2, <2>3, <2>4, <2>5 DEF Space, Exists
<1>5. CASE Stops
  <2>1. Stopped
    BY <1>5, StopLeaves
  <2>2. db'.org = db.org /\ db'.docs = db.docs /\ before' = before /\ Stage' = 0
    BY <2>1 DEF Stopped, Fields
  <2> QED
    BY <1>1, <2>2 DEF Space, Exists
<1>6. CASE Same
  BY <1>6 DEF Same, Space, Exists
<1> QED
  BY <1>2, <1>3, <1>4, <1>5, <1>6

\* A profile that was filled follows its template, unless a start stopped between
\* the column and its values.
Profiles ==
  /\ before.version < 14 /\ "profile_code" \in db.made /\ Stage # 13 /\ "profile" \notin hurt
       => \A o \in Orgs : db.org[o].profile = db.org[o].template
  /\ Stage \in 2 .. 4 \/ (Stage >= 13 /\ before.version < 14) => "profile_code" \in db.made

\* Mounts refer to the accounts, unless a start stopped after making them.
Mounts ==
  /\ "mounts" \notin hurt => db.parent = "cloud_accounts"
  /\ Stage <= 47 /\ Stage # 4 /\ before.version <= 20 /\ "remote_mounts" \in db.made
       => "mounts" \in hurt

Admins ==
  Stage >= 10 \/ Stage \in 1 .. 4 \/ before.version > 20 =>
    db.users = {} \/ db.admins \cap db.users # {}

Jobs ==
  /\ \A j \in db.jobs : DOMAIN j = {"id", "path", "target"}
  /\ before.jobs = {} => db.jobs = {}
  /\ before.version < 21 /\ (Stage >= 19 \/ Stage \in 1 .. 4) =>
       \A j \in db.jobs : j.target # Null => j.path = j.target

Audit ==
  before.version < 24 =>
    /\ Stage <= 50 => db.audit = Fresh
    /\ Stage >= 51 => db.audit = [h \in db.history |-> 1]

\* What a start on a database may lead to.
LEMMA BeganAt ==
  ASSUME Way, Began
  PROVE  /\ UNCHANGED <<db, before, hurt>> /\ Stage = 0 /\ db.version = before.version
         /\ before.version \in 0 .. 24
         /\ Stage' = 1 => before = Base(0) /\ db = before
         /\ before.version <= 20 => Stage' \in {1, 5, 6}
         /\ before.version = 21 => Stage' = 47
         /\ before.version = 22 => Stage' = 48
         /\ before.version = 23 => Stage' = 49
         /\ before.version = 24 => Stage' = 52
<1>1. UNCHANGED <<db, before, hurt>> /\ Stage = 0 /\ db.version = before.version
  BY DEF Began, Way
<1>2. before.version \in 0 .. 24 /\ (before.made = {} => before = Base(0))
  BY LeftBefore
<1>3. db.made = {} => db = before
  BY DEF Way
<1> QED
  BY <1>1, <1>2, <1>3 DEF Began

\* The parts an interruption does not touch.
LEMMA StoppedAt ==
  ASSUME UpgradeTypes, Way, Opened, Stops
  PROVE  /\ Stopped
         /\ db'.version = db.version /\ db'.org = db.org /\ db'.docs = db.docs
         /\ db'.admins = db.admins /\ db'.users = db.users /\ db'.now = db.now
         /\ db'.aside = db.aside /\ db'.orphans = db.orphans /\ db'.parent = db.parent
         /\ db'.jobs = db.jobs /\ db'.history = db.history
  BY StopLeaves DEF Stopped, Fields

\* A filled profile follows its template.
LEMMA ProfilesKept ==
  ASSUME UpgradeTypes, Way, Opened, Space, Profiles, Way',
         (Upgrade /\ Advances) \/ Halted \/ Began \/ Stops \/ Same
  PROVE  Profiles'
<1>1. CASE Upgrade /\ Advances
  <2>1. before' = before /\ hurt' = hurt
    BY <1>1 DEF Advances
  <2>2. \A o \in Orgs : /\ db'.org[o].template = db.org[o].template
                        /\ Stage # 13 => db'.org[o].profile = db.org[o].profile
                        /\ Stage = 13 => db'.org[o].profile = db.org[o].template
    BY <1>1, OrgsAt
  <2>3. /\ Stage # 1 => db.made \subseteq db'.made
        /\ Stage = 1 => "profile_code" \in db'.made
        /\ Stage \notin {1, 12} /\ "profile_code" \in db'.made => "profile_code" \in db.made
        /\ Stage = 12 => "profile_code" \in db'.made
    BY <1>1, MadeAt
  <2>4. CASE Stage = 1
    <3>1. \A o \in Orgs : db.org[o].profile = db.org[o].template
      <4>1. before = Base(0) /\ db.org = before.org
        BY <2>4, LeftBefore DEF Way, Space
      <4>2. \A o \in Orgs : db.org[o] = NoOrganization
        BY <4>1, BaseZero
      <4> QED
        BY <4>2 DEF NoOrganization
    <3> QED
      BY <1>1, <2>1, <2>2, <2>3, <2>4, <3>1 DEF Profiles, Advances
  <2>5. CASE Stage = 12
    <3>1. AddProfile
      BY <1>1, <2>5, StageActions, Zenon
    <3>2. (Stage' = 14 /\ "profile_code" \in db.made) \/ Stage' = 13
      BY <3>1, ProfileMoves DEF Moves
    <3> QED
      BY <1>1, <2>1, <2>2, <2>3, <2>5, <3>2 DEF Profiles
  <2>6. CASE Stage = 13
    <3>1. \A o \in Orgs : db'.org[o].profile = db'.org[o].template
      BY <2>2, <2>6
    <3> QED
      BY <1>1, <2>1, <2>3, <2>6, <3>1 DEF Profiles, Advances
  <2>7. CASE Stage \notin {1, 12, 13}
    <3>1. Stage' # 13 /\ (Stage' \in 2 .. 4 => Stage \in 2 .. 4)
          /\ (Stage' >= 13 => Stage >= 13 \/ Stage = 4)
      BY <1>1, <2>7 DEF Advances
    <3> QED
      BY <2>1, <2>2, <2>3, <2>7, <3>1 DEF Profiles
  <2> QED
    BY <2>4, <2>5, <2>6, <2>7
<1>2. CASE Halted
  BY <1>2 DEF Halted, Halts, Profiles
<1>3. CASE Began
  BY <1>3, BeganAt DEF Profiles
<1>4. CASE Stops
  <2>1. Stopped /\ db'.org = db.org
    BY <1>4, StoppedAt
  <2>2. Stage' = 0 /\ before' = before /\ hurt \subseteq hurt' /\ db'.made \subseteq db.made
        /\ (Stage = 13 => "profile" \in hurt')
    BY <2>1 DEF Stopped
  <2> QED
    BY <2>1, <2>2 DEF Profiles
<1>5. CASE Same
  BY <1>5 DEF Same, Profiles
<1> QED
  BY <1>1, <1>2, <1>3, <1>4, <1>5

\* The reference of the mounts is lost only by an interruption after version 22.
LEMMA MountsKept ==
  ASSUME UpgradeTypes, Way, Opened, Mounts,
         (Upgrade /\ Advances) \/ Halted \/ Began \/ Stops \/ Same
  PROVE  Mounts'
<1>1. CASE Upgrade /\ Advances
  <2>1. before' = before /\ hurt' = hurt
    BY <1>1 DEF Advances
  <2>2. /\ Stage = 1 => "remote_mounts" \notin db'.made
        /\ Stage \notin {3, 47} /\ "remote_mounts" \in db'.made => "remote_mounts" \in db.made
    BY <1>1, MadeAt
  <2>3. CASE Stage = 40
    <3>1. PutAside("cloud_accounts", 40, 41)
      BY <1>1, <2>3, TablesAt
    <3>2. db'.parent = db.parent \/ "remote_mounts" \in db.made
      BY <3>1 DEF PutAside
    <3>3. before.version <= 20
      BY <2>3 DEF Way
    <3> QED
      BY <1>1, <2>1, <2>2, <2>3, <3>2, <3>3 DEF Mounts, Advances
  <2>4. CASE Stage # 40
    <3>1. db'.parent = db.parent
      BY <1>1, <2>4 DEF Advances
    <3>2. Stage' <= 47 /\ Stage' # 4 => Stage <= 47 /\ Stage \notin {3, 4, 47}
      BY <1>1 DEF Advances
    <3> QED
      BY <2>1, <2>2, <3>1, <3>2 DEF Mounts
  <2> QED
    BY <2>3, <2>4
<1>2. CASE Halted
  <2>1. Stage <= 47 /\ Stage # 4
    BY <1>2 DEF Halted, Halts
  <2> QED
    BY <1>2, <2>1 DEF Halted, Halts, Mounts
<1>3. CASE Began
  BY <1>3, BeganAt DEF Mounts
<1>4. CASE Stops
  <2>1. Stopped /\ db'.parent = db.parent /\ db.version = before.version
    BY <1>4, StoppedAt DEF Way, Stopped
  <2>2. Stage' = 0 /\ before' = before /\ hurt \subseteq hurt' /\ db'.made \subseteq db.made
        /\ ("remote_mounts" \in db.made /\ db.version < 21 => "mounts" \in hurt')
    BY <2>1 DEF Stopped
  <2>3. before.version \in 0 .. 24
    BY LeftBefore
  <2> QED
    BY <2>1, <2>2, <2>3 DEF Mounts
<1>5. CASE Same
  BY <1>5 DEF Same, Mounts
<1> QED
  BY <1>1, <1>2, <1>3, <1>4, <1>5

\* An active user administers from the tables of people on.
LEMMA AdminsKept ==
  ASSUME UpgradeTypes, Way, Opened, Admins,
         (Upgrade /\ Advances) \/ Halted \/ Began \/ Stops \/ Same
  PROVE  Admins'
<1>1. CASE Upgrade /\ Advances
  <2>1. before' = before /\ db'.users = db.users
    BY <1>1 DEF Advances
  <2>2. CASE Stage = 9
    <3>1. UpgradePeople
      BY <1>1, <2>2, StageActions, Zenon
    <3> DEFINE a == IF db.admins \cap db.users # {} \/ db.users = {} THEN db.admins
                    ELSE db.admins \cup {Least(db.users)}
               x == db.made \cup {"people"}
    <3>2. db' = [db EXCEPT !.made = x, !.admins = a]
      BY <3>1, Zenon DEF UpgradePeople
    <3>3. db'.admins = a
      <4> HIDE DEF a, x
      <4> QED
        BY <3>2 DEF UpgradeTypes, Fields
    <3>4. db.users \subseteq Nat
      BY LeftBefore, OrderAssumption DEF Way, LeftByProgram, WellFormed
    <3>5. db.users # {} => Least(db.users) \in db.users
      BY <3>4, LeastIn
    <3> QED
      BY <2>1, <3>3, <3>5 DEF Admins
  <2>3. CASE Stage # 9
    <3>1. db'.admins = db.admins
      BY <1>1, <2>3 DEF Advances
    <3>2. Stage' >= 10 \/ Stage' \in 1 .. 4 => Stage >= 10 \/ Stage \in 1 .. 4
      BY <1>1, <2>3 DEF Advances
    <3> QED
      BY <2>1, <3>1, <3>2 DEF Admins
  <2> QED
    BY <2>2, <2>3
<1>2. CASE Halted
  BY <1>2 DEF Halted, Halts, Admins
<1>3. CASE Began
  <2>1. Stage' = 1 => db.users = {}
    BY <1>3, BeganAt, BaseZero
  <2>2. db' = db /\ before' = before /\ before.version \in 0 .. 24
        /\ (before.version <= 20 => Stage' \in {1, 5, 6})
    BY <1>3, BeganAt
  <2> QED
    BY <2>1, <2>2 DEF Admins
<1>4. CASE Stops
  <2>1. Stage' = 0 /\ before' = before /\ db'.admins = db.admins /\ db'.users = db.users
    BY <1>4, StoppedAt DEF Stopped
  <2> QED
    BY <2>1 DEF Admins
<1>5. CASE Same
  BY <1>5 DEF Same, Admins
<1> QED
  BY <1>1, <1>2, <1>3, <1>4, <1>5

\* A bound job is where its file went.
LEMMA JobsKept ==
  ASSUME UpgradeTypes, Way, Opened, Jobs,
         (Upgrade /\ Advances) \/ Halted \/ Began \/ Stops \/ Same
  PROVE  Jobs'
<1>1. CASE Upgrade /\ Advances
  <2>1. before' = before
    BY <1>1 DEF Advances
  <2>2. CASE Stage = 18
    <3>1. BindJobs
      BY <1>1, <2>2, StageActions, Zenon
    <3> DEFINE bound == {BindJob(j) : j \in db.jobs}
    <3>2. db' = [db EXCEPT !.jobs = bound]
      BY <3>1, Zenon DEF BindJobs
    <3>3. db'.jobs = bound
      <4> HIDE DEF bound
      <4> QED
        BY <3>2 DEF UpgradeTypes, Fields
    <3>4. \A j \in db.jobs : /\ DOMAIN BindJob(j) = {"id", "path", "target"}
                             /\ BindJob(j).target # Null => BindJob(j).path = BindJob(j).target
      BY DEF Jobs, BindJob
    <3> QED
      BY <2>1, <3>3, <3>4 DEF Jobs
  <2>3. CASE Stage # 18
    <3>1. db'.jobs = db.jobs
      BY <1>1, <2>3 DEF Advances
    <3>2. Stage' >= 19 \/ Stage' \in 1 .. 4 => Stage >= 19 \/ Stage \in 1 .. 4
      BY <1>1, <2>3 DEF Advances
    <3> QED
      BY <2>1, <3>1, <3>2 DEF Jobs
  <2> QED
    BY <2>2, <2>3
<1>2. CASE Halted
  BY <1>2 DEF Halted, Halts, Jobs
<1>3. CASE Began
  <2>1. Stage' = 1 => before.jobs = {}
    BY <1>3, BeganAt, BaseZero
  <2>2. db' = db /\ before' = before /\ before.version \in 0 .. 24
        /\ (before.version <= 20 => Stage' \in {1, 5, 6})
    BY <1>3, BeganAt
  <2> QED
    BY <2>1, <2>2 DEF Jobs
<1>4. CASE Stops
  <2>1. Stage' = 0 /\ before' = before /\ db'.jobs = db.jobs
    BY <1>4, StoppedAt DEF Stopped
  <2> QED
    BY <2>1 DEF Jobs
<1>5. CASE Same
  BY <1>5 DEF Same, Jobs
<1> QED
  BY <1>1, <1>2, <1>3, <1>4, <1>5

\* The old history is copied once.
LEMMA AuditKept ==
  ASSUME UpgradeTypes, Way, Opened, Audit,
         (Upgrade /\ Advances) \/ Halted \/ Began \/ Stops \/ Same
  PROVE  Audit'
<1>1. CASE Upgrade /\ Advances
  <2>1. before' = before /\ db'.history = db.history
    BY <1>1 DEF Advances
  <2>2. CASE Stage = 50
    <3>1. UpgradeEnterprise
      BY <1>1, <2>2, StageActions, Zenon
    <3> DEFINE a == [h \in DOMAIN db.audit \cup db.history |->
               (IF h \in DOMAIN db.audit THEN db.audit[h] ELSE 0) + (IF h \in db.history THEN 1 ELSE 0)]
               x == db.made \cup {"public_uuid"}
    <3>2. db' = [db EXCEPT !.made = x, !.audit = a]
      BY <3>1, Zenon DEF UpgradeEnterprise
    <3>3. db'.audit = a
      <4> HIDE DEF a, x
      <4> QED
        BY <3>2 DEF UpgradeTypes, Fields
    <3>4. db.audit = Fresh => a = [h \in db.history |-> 1]
      <4>1. DOMAIN Fresh = {}
        BY DEF Fresh
      <4> QED
        BY <4>1
    <3> QED
      BY <1>1, <2>1, <2>2, <3>3, <3>4 DEF Audit, Advances
  <2>3. CASE Stage # 50
    <3>1. db'.audit = db.audit
      BY <1>1, <2>3 DEF Advances
    <3>2. (Stage' <= 50 => Stage <= 50) /\ (Stage' >= 51 => Stage >= 51 \/ Stage = 4)
      BY <1>1, <2>3 DEF Advances
    <3>3. Stage = 4 => db.history = {}
      BY LeftBefore, BaseZero DEF Way
    <3>4. db.history = {} => Fresh = [h \in db.history |-> 1]
      BY DEF Fresh
    <3> QED
      BY <2>1, <3>1, <3>2, <3>3, <3>4 DEF Audit
  <2> QED
    BY <2>2, <2>3
<1>2. CASE Halted
  <2>1. Stage <= 50
    BY <1>2 DEF Halted, Halts
  <2> QED
    BY <1>2, <2>1 DEF Halted, Halts, Audit
<1>3. CASE Began
  <2>1. before.version < 24 => Stage' \in {1, 5, 6, 47, 48, 49}
    BY <1>3, BeganAt
  <2>2. db' = db /\ before' = before /\ Stage = 0
    BY <1>3, BeganAt
  <2> QED
    BY <2>1, <2>2 DEF Audit
<1>4. CASE Stops
  <2>1. Stage' = 0 /\ before' = before /\ (Stage # 51 => db' = db) /\ (Stage = 51 => db'.audit = Fresh)
        /\ Stage \in 1 .. 51
    BY <1>4, StoppedAt DEF Stopped
  <2> QED
    BY <2>1 DEF Audit
<1>5. CASE Same
  BY <1>5 DEF Same, Audit
<1> QED
  BY <1>1, <1>2, <1>3, <1>4, <1>5

-----------------------------------------------------------------------------
(* The evidence and the requests                                           *)

\* What happens to a table of evidence, stage by stage.
LEMMA EvidenceAt ==
  ASSUME UpgradeTypes, Upgrade, Advances, NEW t \in Evidence
  PROVE  LET b == Rank(Do("aside", t)) IN
         /\ Stage \notin b .. b + 3 =>
              db'.now[t].rows = db.now[t].rows /\ db'.aside[t] = db.aside[t]
         /\ Stage = b => db.aside[t] = NoTable /\ db'.aside[t] = db.now[t] /\ Stage' = b + 1
         /\ Stage = b + 1 => db'.aside[t] = db.aside[t]
         /\ Stage = b + 2 => db'.now[t].rows = db.aside[t].rows /\ db'.aside[t] = db.aside[t]
         /\ Stage = b + 3 => db'.now[t] = db.now[t] /\ db'.aside[t] = NoTable
<1> DEFINE b == Rank(Do("aside", t))
<1>1. b \in {26, 30, 34} /\ t \in Tables /\ t # "cloud_settings" /\ t # "document_requests"
      /\ t \notin Cloud
  BY EvidenceRanks, CloudTables DEF Evidence
<1>2. CASE Stage \in 26 .. 37
  <2>1. PICK u \in Evidence : EvidenceStep(u)
    BY <1>2, TablesAt
  <2> DEFINE c == Rank(Do("aside", u))
  <2>2. /\ \A w \in Tables \ {u} : db'.now[w] = db.now[w] /\ db'.aside[w] = db.aside[w]
        /\ \/ /\ Stage = c /\ db.aside[u] = NoTable
              /\ db'.now[u] = NoTable /\ db'.aside[u] = db.now[u]
           \/ Stage = c + 1 /\ db'.now[u].rows = {} /\ db'.aside[u] = db.aside[u]
           \/ Stage = c + 2 /\ db'.now[u].rows = db.aside[u].rows /\ db'.aside[u] = db.aside[u]
           \/ Stage = c + 3 /\ db'.now[u] = db.now[u] /\ db'.aside[u] = NoTable
    BY <2>1, EvidenceStepAt
  <2>3. c \in {26, 30, 34} /\ (t # u => b # c) /\ (t = u => b = c)
    BY EvidenceRanks, EvidenceApart
  <2>4. Stage = b => Stage' = b + 1
    BY <1>1 DEF Advances
  <2> HIDE DEF b, c
  <2>5. CASE u = t
    BY <1>1, <2>2, <2>3, <2>4, <2>5 DEF b
  <2>6. CASE u # t
    BY <1>1, <2>2, <2>3, <2>4, <2>6 DEF b
  <2> QED
    BY <2>5, <2>6
<1>3. CASE Stage \notin 26 .. 37
  <2>1. Stage \notin b .. b + 3
    BY <1>1, <1>3
  <2>2. db'.aside[t] = db.aside[t]
    BY <1>1, <1>3, TablesMove DEF Advances
  <2>3. db'.now[t].rows = db.now[t].rows
    <3>1. Grown(t) => db'.now[t].rows = db.now[t].rows
      BY TableForms DEF Grown
    <3>2. CASE Stage \in {1, 2, 8, 11, 14, 24, 41}
      BY <1>1, <3>1, <3>2, TablesMove
    <3>3. CASE Stage \in {19, 20, 21, 23, 38, 39, 40, 42}
      BY <1>1, <3>3, TablesMove
    <3>4. CASE Stage \notin {1, 2, 8, 11, 14, 24, 41} \cup {19, 20, 21, 23, 38, 39, 40, 42}
      BY <1>3, <3>4, StageRange DEF Advances
    <3> QED
      BY <3>2, <3>3, <3>4
  <2> HIDE DEF b
  <2> QED
    BY <1>1, <2>1, <2>2, <2>3 DEF b
<1> QED
  BY <1>2, <1>3

\* The evidence of a table is in it or in the one put aside, which is gone once the
\* table has been rebuilt.
EvidenceIn(t) ==
  LET ids == RowIds(before.now[t])
      b   == Rank(Do("aside", t))
  IN  /\ ids \subseteq RowIds(db.now[t]) \cup RowIds(db.aside[t])
      /\ Stage \in {b + 1, b + 2} => ids \subseteq RowIds(db.aside[t])
      /\ Stage = b + 3 => ids \subseteq RowIds(db.now[t])
      /\ Stage > b + 3 \/ Stage \in 1 .. 4 \/ before.version > 20 => db.aside[t] = NoTable

EvidenceHeld == \A t \in Evidence : EvidenceIn(t)

\* A database that was just started on has put nothing aside.
LEMMA NothingAside ==
  ASSUME Way, NEW t \in Tables
  PROVE  before.aside[t] = NoTable
  BY LeftBefore DEF LeftByProgram

\* No piece of evidence or queued job is lost at any stage.
LEMMA EvidenceStays ==
  ASSUME UpgradeTypes, Way, Opened, EvidenceHeld,
         (Upgrade /\ Advances) \/ Halted \/ Began \/ Stops \/ Same
  PROVE  EvidenceHeld'
<1> SUFFICES ASSUME NEW t \in Evidence
             PROVE  EvidenceIn(t)'
  BY DEF EvidenceHeld
<1> DEFINE b == Rank(Do("aside", t))
<1>1. b \in {26, 30, 34} /\ t \in Tables /\ EvidenceIn(t)
  BY EvidenceRanks DEF EvidenceHeld
<1>2. CASE Upgrade /\ Advances
  <2>1. before' = before /\ Stage \in 1 .. 51 /\ (Stage' = Stage + 1 \/ Stage = 4 \/ Stage = 12
             \/ Stage = 19 \/ Stage = 23)
        /\ (Stage = 12 => Stage' \in {13, 14}) /\ (Stage = 19 => Stage' \in {20, 24})
        /\ (Stage = 23 => Stage' \in {23, 24}) /\ (Stage = 4 => Stage' = 52)
    BY <1>2 DEF Advances
  <2>2. /\ Stage \notin b .. b + 3 =>
             db'.now[t].rows = db.now[t].rows /\ db'.aside[t] = db.aside[t]
        /\ Stage = b => db.aside[t] = NoTable /\ db'.aside[t] = db.now[t] /\ Stage' = b + 1
        /\ Stage = b + 1 => db'.aside[t] = db.aside[t]
        /\ Stage = b + 2 => db'.now[t].rows = db.aside[t].rows /\ db'.aside[t] = db.aside[t]
        /\ Stage = b + 3 => db'.now[t] = db.now[t] /\ db'.aside[t] = NoTable
    BY <1>2, EvidenceAt
  <2>3. RowIds(NoTable) = {}
    BY TableForms DEF RowIds
  <2>4. before.version > 20 => Stage \notin 1 .. 46
    <3>1. before.version \in 0 .. 24 /\ (before.made = {} => before.version = 0)
      BY LeftBefore, BaseZero
    <3> QED
      BY <3>1 DEF Way
  <2> HIDE DEF b
  <2>5. CASE Stage \notin b .. b + 3
    <3>1. RowIds(db'.now[t]) = RowIds(db.now[t]) /\ db'.aside[t] = db.aside[t]
      BY <2>2, <2>5 DEF RowIds
    <3>2. /\ Stage' \notin {b + 1, b + 2, b + 3}
          /\ Stage' > b + 3 \/ Stage' \in 1 .. 4 => Stage > b + 3 \/ Stage \in 1 .. 4
      BY <1>1, <2>1, <2>5
    <3> QED
      BY <1>1, <2>1, <3>1, <3>2 DEF EvidenceIn, b
  <2>6. CASE Stage = b
    BY <1>1, <2>1, <2>2, <2>3, <2>4, <2>6 DEF EvidenceIn, b
  <2>7. CASE Stage = b + 1
    BY <1>1, <2>1, <2>2, <2>4, <2>7 DEF EvidenceIn, b
  <2>8. CASE Stage = b + 2
    <3>1. RowIds(db'.now[t]) = RowIds(db.aside[t])
      BY <2>2, <2>8 DEF RowIds
    <3> QED
      BY <1>1, <2>1, <2>2, <2>4, <2>8, <3>1 DEF EvidenceIn, b
  <2>9. CASE Stage = b + 3
    BY <1>1, <2>1, <2>2, <2>3, <2>9 DEF EvidenceIn, b
  <2> QED
    BY <1>1, <2>5, <2>6, <2>7, <2>8, <2>9
<1>3. CASE Halted
  BY <1>1, <1>3 DEF Halted, Halts, EvidenceIn
<1>4. CASE Began
  <2>1. db' = db /\ before' = before /\ before.version \in 0 .. 24
        /\ (before.version <= 20 => Stage' \in {1, 5, 6})
        /\ (before.version > 20 => Stage' \in {47, 48, 49, 52})
        /\ (Stage' = 1 => db = before)
    BY <1>4, BeganAt
  <2>2. before.aside[t] = NoTable
    BY <1>1, NothingAside
  <2> HIDE DEF b
  <2> QED
    BY <1>1, <2>1, <2>2 DEF EvidenceIn, b
<1>5. CASE Stops
  <2>1. Stage' = 0 /\ before' = before /\ db'.now = db.now /\ db'.aside = db.aside
    BY <1>5, StoppedAt DEF Stopped
  <2> HIDE DEF b
  <2> QED
    BY <1>1, <2>1 DEF EvidenceIn, b
<1>6. CASE Same
  BY <1>1, <1>6 DEF Same, EvidenceIn
<1> QED
  BY <1>2, <1>3, <1>4, <1>5, <1>6

\* What happens to the table of requests, stage by stage.
LEMMA RequestsAt ==
  ASSUME UpgradeTypes, Upgrade, Advances
  PROVE  LET q == "document_requests"
             now == db.now[q]
             aside == db.aside[q]
         IN
         /\ Stage \notin {1, 14} \cup 19 .. 23 => db'.now[q] = now
         /\ Stage \notin 19 .. 23 => db'.aside[q] = aside
         /\ Stage = 1 => db'.now[q] = (IF now = NoTable THEN Empty("new") ELSE now)
         /\ Stage = 14 => db'.now[q] = (IF now = NoTable THEN Empty("old") ELSE now)
         /\ Stage = 19 =>
              \/ Stage' = 24 /\ now.shape = "new" /\ db'.now[q] = now /\ db'.aside[q] = aside
              \/ Stage' = 20 /\ aside = NoTable /\ db'.now[q] = NoTable /\ db'.aside[q] = now
         /\ Stage = 20 => db'.now[q] = Empty("new") /\ db'.aside[q] = aside
         /\ Stage = 21 => /\ db'.now[q].rows = {[r EXCEPT !.uuid = "legacy"] : r \in aside.rows}
                          /\ db'.now[q].shape = now.shape /\ db'.aside[q] = aside
         /\ Stage = 22 => db'.now[q] = now /\ db'.aside[q] = NoTable
         /\ Stage = 23 =>
              /\ db'.aside[q] = aside
              /\ \/ /\ Stage' = 23 /\ db'.now[q].shape = now.shape
                    /\ \E r \in now.rows :
                         db'.now[q].rows = (now.rows \ {r}) \cup {[r EXCEPT !.uuid = "own"]}
                 \/ /\ Stage' = 24 /\ db'.now[q] = now
                    /\ \A r \in now.rows : r.uuid # "legacy"
<1> DEFINE q == "document_requests"
<1>1. q \in Tables /\ q # "cloud_settings" /\ q \notin Cloud /\ q \notin Evidence
      /\ q # "cloud_folder_mappings"
      /\ q \notin {"cloud_accounts", "cloud_settings", "sync_jobs"} /\ q # "sync_jobs"
  BY CloudTables
<1>2. DOMAIN db.now = Tables /\ \A t \in Tables : IsTable(db.now[t])
  BY DEF UpgradeTypes
<1>3. Stage \notin {1, 14} \cup 19 .. 23 => db'.now[q] = db.now[q]
  <2>1. CASE Stage = 2
    <3> DEFINE e == Ensured({"sync_jobs"}, "new")
               r == {Setting(Least(Orgs), "LOCAL", Null)}
    <3>1. db'.now = [e EXCEPT !["cloud_settings"].rows = r]
      BY <2>1, TablesAt, Zenon
    <3>2. DOMAIN e = Tables /\ e[q] = db.now[q]
      BY <1>1, EnsuredTables
    <3> HIDE DEF e, r
    <3> QED
      BY <1>1, <3>1, <3>2
  <2>2. CASE Stage = 8
    <3> DEFINE e == Ensured({"cloud_accounts", "cloud_settings", "sync_jobs"}, "old")
               r == e["cloud_settings"].rows \cup LocalSettings(e["cloud_settings"].rows)
    <3>1. db'.now = [e EXCEPT !["cloud_settings"].rows = r]
      BY <2>2, TablesAt, Zenon
    <3>2. DOMAIN e = Tables /\ e[q] = db.now[q]
      BY <1>1, EnsuredTables
    <3> HIDE DEF e, r
    <3> QED
      BY <1>1, <3>1, <3>2
  <2>3. CASE Stage \in {11, 24, 41}
    <3>1. \A S, s : q \notin S => Ensured(S, s)[q] = db.now[q]
      BY <1>1 DEF Ensured
    <3>2. q \notin {"cloud_folder_mappings"}
      BY <1>1
    <3>3. CASE Stage = 11
      <4>1. db'.now = Ensured({"cloud_folder_mappings"}, "old")
        BY <3>3, TablesAt, Zenon
      <4> HIDE DEF q
      <4> QED
        BY <3>1, <3>2, <4>1, Zenon
    <3>4. CASE Stage = 24
      <4>1. db'.now = Ensured(Evidence, "old")
        BY <3>4, TablesAt, Zenon
      <4> HIDE DEF q
      <4> QED
        BY <1>1, <3>1, <4>1, Zenon
    <3>5. CASE Stage = 41
      <4>1. db'.now = Ensured(Cloud, "new")
        BY <3>5, TablesAt, Zenon
      <4> HIDE DEF q
      <4> QED
        BY <1>1, <3>1, <4>1, Zenon
    <3> QED
      BY <2>3, <3>3, <3>4, <3>5
  <2>4. CASE Stage \in 26 .. 37 \cup {38, 39, 40, 42}
    BY <1>1, <2>4, TablesMove
  <2>5. CASE Stage \notin {1, 2, 8, 11, 14, 24, 41} \cup 19 .. 23 \cup 26 .. 37 \cup {38, 39, 40, 42}
    BY <2>5, StageRange DEF Advances
  <2> QED
    BY <2>1, <2>2, <2>3, <2>4, <2>5
<1>4. Stage \notin 19 .. 23 => db'.aside[q] = db.aside[q]
  <2>1. CASE Stage \in 26 .. 37 \cup {38, 39, 40, 44, 45, 46}
    BY <1>1, <2>1, TablesMove
  <2>2. CASE Stage \notin 19 .. 23 \cup 26 .. 37 \cup {38, 39, 40, 44, 45, 46}
    BY <2>2, StageRange DEF Advances
  <2> QED
    BY <2>1, <2>2
<1>5. Stage = 1 => db'.now[q] = (IF db.now[q] = NoTable THEN Empty("new") ELSE db.now[q])
  <2>1. q \in Tables \ {"sync_jobs"}
    BY <1>1
  <2>2. Stage = 1 => db'.now = Ensured(Tables \ {"sync_jobs"}, "new")
    BY TablesAt, Zenon
  <2> QED
    BY <1>1, <2>1, <2>2, EnsuredTables
<1>6. Stage = 14 => db'.now[q] = (IF db.now[q] = NoTable THEN Empty("old") ELSE db.now[q])
  <2>1. q \in {"document_requests"}
    OBVIOUS
  <2>2. Stage = 14 => db'.now = Ensured({"document_requests"}, "old")
    BY TablesAt, Zenon
  <2> QED
    BY <1>1, <2>1, <2>2, EnsuredTables
<1>7. Stage = 19 =>
         \/ /\ Stage' = 24 /\ db.now[q].shape = "new"
            /\ db'.now[q] = db.now[q] /\ db'.aside[q] = db.aside[q]
         \/ /\ Stage' = 20 /\ db.aside[q] = NoTable
            /\ db'.now[q] = NoTable /\ db'.aside[q] = db.now[q]
  <2>1. Moves(19, 24, {}) => Stage' = 24 /\ db'.now = db.now /\ db'.aside = db.aside
    BY DEF Moves, Fields
  <2>2. PutAside(q, 19, 20) => /\ db.aside[q] = NoTable /\ Stage' = 20
                               /\ db'.now[q] = NoTable /\ db'.aside[q] = db.now[q]
    BY <1>1, PutAsideAt
  <2> QED
    BY <2>1, <2>2, TablesAt
<1>8. Stage = 20 => db'.now[q] = Empty("new") /\ db'.aside[q] = db.aside[q]
  <2>1. Stage = 20 => db'.aside = db.aside
    BY DEF Advances
  <2> QED
    BY <1>1, <1>2, <2>1, TablesAt
<1>9. Stage = 21 =>
        /\ db'.now[q].rows = {[r EXCEPT !.uuid = "legacy"] : r \in db.aside[q].rows}
        /\ db'.now[q].shape = db.now[q].shape /\ db'.aside[q] = db.aside[q]
  <2>1. Stage = 21 => db'.aside = db.aside
    BY DEF Advances
  <2> DEFINE new == {[r EXCEPT !.uuid = "legacy"] : r \in db.aside[q].rows}
  <2>2. Stage = 21 => db'.now = [db.now EXCEPT !["document_requests"].rows = new]
    BY TablesAt, Zenon
  <2> HIDE DEF new
  <2>3. Stage = 21 => db'.now[q].rows = new /\ db'.now[q].shape = db.now[q].shape
    <3>1. IsTable(db.now[q])
      BY <1>1, <1>2
    <3> DEFINE v == [db.now[q] EXCEPT !.rows = new]
    <3>2. v.rows = new /\ v.shape = db.now[q].shape
      BY <3>1 DEF IsTable
    <3>3. Stage = 21 => db'.now = [db.now EXCEPT ![q] = v]
      BY <2>2
    <3> HIDE DEF v
    <3>4. Stage = 21 => db'.now[q] = v
      BY <1>1, <1>2, <3>3
    <3> QED
      BY <3>2, <3>4
  <2> QED
    BY <2>1, <2>3 DEF new
<1>10. Stage = 22 => db'.now[q] = db.now[q] /\ db'.aside[q] = NoTable
  <2>1. Stage = 22 => db'.now = db.now
    BY DEF Advances
  <2>2. DOMAIN db.aside = Tables
    BY DEF UpgradeTypes
  <2> QED
    BY <1>1, <2>1, <2>2, TablesAt
<1>11. Stage = 23 =>
         /\ db'.aside[q] = db.aside[q]
         /\ \/ /\ Stage' = 23 /\ db'.now[q].shape = db.now[q].shape
               /\ \E r \in db.now[q].rows :
                    db'.now[q].rows = (db.now[q].rows \ {r}) \cup {[r EXCEPT !.uuid = "own"]}
            \/ /\ Stage' = 24 /\ db'.now[q] = db.now[q]
               /\ \A r \in db.now[q].rows : r.uuid # "legacy"
  <2> SUFFICES ASSUME Stage = 23
               PROVE  /\ db'.aside[q] = db.aside[q]
                      /\ \/ /\ Stage' = 23 /\ db'.now[q].shape = db.now[q].shape
                            /\ \E r \in db.now[q].rows :
                                 db'.now[q].rows =
                                   (db.now[q].rows \ {r}) \cup {[r EXCEPT !.uuid = "own"]}
                         \/ /\ Stage' = 24 /\ db'.now[q] = db.now[q]
                            /\ \A r \in db.now[q].rows : r.uuid # "legacy"
    OBVIOUS
  <2>1. db'.aside = db.aside
    BY DEF Advances
  <2>2. CASE /\ Moves(23, 23, {"now"})
             /\ \E r \in db.now[q].rows :
                 /\ r.uuid = "legacy"
                 /\ db'.now = [db.now EXCEPT ![q].rows =
                      (db.now[q].rows \ {r}) \cup {[r EXCEPT !.uuid = "own"]}]
    <3>1. PICK r \in db.now[q].rows :
            db'.now = [db.now EXCEPT ![q].rows =
                         (db.now[q].rows \ {r}) \cup {[r EXCEPT !.uuid = "own"]}]
      BY <2>2
    <3> DEFINE new == (db.now[q].rows \ {r}) \cup {[r EXCEPT !.uuid = "own"]}
    <3>2. db'.now = [db.now EXCEPT ![q].rows = new]
      BY <3>1, Zenon
    <3>3. Stage' = 23
      BY <2>2 DEF Moves
    <3> HIDE DEF new
    <3>4. db'.now[q].rows = new /\ db'.now[q].shape = db.now[q].shape
      BY <1>1, <1>2, <3>2, RowsWritten
    <3> QED
      BY <2>1, <3>3, <3>4 DEF new
  <2>3. CASE /\ Moves(23, 24, {})
             /\ \A r \in db.now[q].rows : r.uuid # "legacy"
    BY <2>1, <2>3 DEF Moves, Fields
  <2> QED
    BY <2>2, <2>3, TablesAt, Zenon
<1> HIDE DEF q
<1> QED
  BY <1>3, <1>4, <1>5, <1>6, <1>7, <1>8, <1>9, <1>10, <1>11, Zenon DEF q

-----------------------------------------------------------------------------
(* The table of requests, and the one put aside                            *)

RequestFields == {"id", "org", "uuid"}

\* Every request is in one of the two, once in each.
RequestRows(now, aside, ids) ==
  /\ ids = RowIds(now) \cup RowIds(aside)
  /\ Keyed(now.rows, "id") /\ Keyed(aside.rows, "id")
  /\ \A r \in now.rows \cup aside.rows : DOMAIN r = RequestFields

\* While the table is rebuilt.
RequestsMoved(now, aside, ids, k) ==
  /\ k \in 20 .. 22 => ids = RowIds(aside)
  /\ k = 20 => now = NoTable
  /\ k = 21 => now = Empty("new")
  /\ k \in 22 .. 23 => ids = RowIds(now) /\ \A r \in now.rows : r.uuid \in {"legacy", "own"}
  /\ k \in 2 .. 4 \cup 22 .. 52 => now.shape = "new"

\* Before and after, unless an interruption has spoilt it.
RequestsWhole(now, aside, ids, k, spoilt) ==
  now.shape = "new" =>
    /\ k \notin 20 .. 22 /\ "requests" \notin spoilt => ids = RowIds(now)
    /\ k \notin 20 .. 22 /\ spoilt \cap {"requests", "ids"} = {} => aside = NoTable
    /\ k \notin 22 .. 23 /\ "ids" \notin spoilt => \A r \in now.rows : r.uuid = "own"

RequestsAre(now, aside, ids, k, spoilt) ==
  /\ RequestRows(now, aside, ids)
  /\ RequestsMoved(now, aside, ids, k)
  /\ RequestsWhole(now, aside, ids, k, spoilt)

OldRequests == RowIds(before.now["document_requests"])

Requests ==
  /\ RequestsAre(db.now["document_requests"], db.aside["document_requests"], OldRequests,
                 Stage, hurt)
  /\ before.version > 20 => db.now["document_requests"].shape = "new"

\* A row with another identity.
LEMMA Reidentified ==
  \A r, u : DOMAIN r = RequestFields =>
     LET n == [r EXCEPT !.uuid = u] IN DOMAIN n = RequestFields /\ n.id = r.id /\ n.uuid = u
BY DEF RequestFields

\* The copy of the table put aside, with identities to come.
LEMMA RequestsCopied ==
  ASSUME NEW now, NEW aside, NEW copied, NEW ids, NEW spoilt,
         RequestsAre(now, aside, ids, 21, spoilt),
         copied.shape = now.shape,
         copied.rows = {[r EXCEPT !.uuid = "legacy"] : r \in aside.rows}
  PROVE  RequestsAre(copied, aside, ids, 22, spoilt)
<1>1. now.shape = "new" /\ now.rows = {} /\ ids = RowIds(aside)
  BY TableForms DEF RequestsAre, RequestsMoved
<1>2. \A r \in aside.rows : DOMAIN r = RequestFields
  BY DEF RequestsAre, RequestRows
<1>3. \A n \in copied.rows : \E r \in aside.rows :
        n = [r EXCEPT !.uuid = "legacy"] /\ n.id = r.id /\ n.uuid = "legacy"
        /\ DOMAIN n = RequestFields
  <2>1. SUFFICES ASSUME NEW r \in aside.rows
                 PROVE  LET n == [r EXCEPT !.uuid = "legacy"] IN
                        n.id = r.id /\ n.uuid = "legacy" /\ DOMAIN n = RequestFields
    OBVIOUS
  <2> QED
    BY <1>2, Reidentified
<1>4. \A r \in aside.rows : \E n \in copied.rows : n.id = r.id
  <2>1. SUFFICES ASSUME NEW r \in aside.rows
                 PROVE  [r EXCEPT !.uuid = "legacy"].id = r.id
    OBVIOUS
  <2> QED
    BY <1>2, Reidentified
<1>5. RowIds(copied) = RowIds(aside)
  <2>1. \A i : (\E n \in copied.rows : i = n.id) <=> (\E r \in aside.rows : i = r.id)
    <3>1. ASSUME NEW n \in copied.rows
          PROVE  \E r \in aside.rows : n.id = r.id
      BY <1>3
    <3> QED
      BY <1>4, <3>1
  <2> QED
    BY <2>1, Zenon DEF RowIds
<1>6. Keyed(copied.rows, "id")
  <2> SUFFICES ASSUME NEW m \in copied.rows, NEW n \in copied.rows, m.id = n.id
               PROVE  m = n
    BY DEF Keyed
  <2>1. PICK r \in aside.rows : m = [r EXCEPT !.uuid = "legacy"] /\ m.id = r.id
    BY <1>3
  <2>2. PICK s \in aside.rows : n = [s EXCEPT !.uuid = "legacy"] /\ n.id = s.id
    BY <1>3
  <2>3. r = s
    BY <2>1, <2>2 DEF RequestsAre, RequestRows, Keyed
  <2> QED
    BY <2>1, <2>2, <2>3
<1>7. RequestRows(copied, aside, ids)
  BY <1>1, <1>3, <1>5, <1>6 DEF RequestsAre, RequestRows
<1>8. RequestsMoved(copied, aside, ids, 22)
  BY <1>1, <1>3, <1>5 DEF RequestsMoved
<1>9. RequestsWhole(copied, aside, ids, 22, spoilt)
  BY DEF RequestsWhole
<1> QED
  BY <1>7, <1>8, <1>9 DEF RequestsAre

\* One row with its own identity.
LEMMA RequestRenewed ==
  ASSUME NEW now, NEW aside, NEW renewed, NEW ids, NEW spoilt,
         RequestsAre(now, aside, ids, 23, spoilt),
         renewed.shape = now.shape, NEW r \in now.rows,
         renewed.rows = (now.rows \ {r}) \cup {[r EXCEPT !.uuid = "own"]}
  PROVE  RequestsAre(renewed, aside, ids, 23, spoilt)
<1> DEFINE n == [r EXCEPT !.uuid = "own"]
<1>1. DOMAIN n = RequestFields /\ n.id = r.id /\ n.uuid = "own"
  BY Reidentified DEF RequestsAre, RequestRows
<1>2. renewed.rows = (now.rows \ {r}) \cup {n}
  OBVIOUS
<1> HIDE DEF n
<1>3. RowIds(renewed) = RowIds(now)
  BY <1>1, <1>2 DEF RowIds
<1>4. Keyed(renewed.rows, "id")
  BY <1>1, <1>2 DEF RequestsAre, RequestRows, Keyed
<1>5. RequestRows(renewed, aside, ids)
  BY <1>1, <1>2, <1>3, <1>4 DEF RequestsAre, RequestRows
<1>6. RequestsMoved(renewed, aside, ids, 23)
  BY <1>1, <1>2, <1>3 DEF RequestsAre, RequestsMoved
<1>7. RequestsWhole(renewed, aside, ids, 23, spoilt)
  BY <1>3 DEF RequestsAre, RequestsWhole
<1> QED
  BY <1>5, <1>6, <1>7 DEF RequestsAre

\* The other statements of the rebuilding.
LEMMA RequestsRebuilt ==
  ASSUME NEW now, NEW aside, NEW ids, NEW spoilt, RequestRows(now, aside, ids)
  PROVE  /\ aside = NoTable => RequestsAre(NoTable, now, ids, 20, spoilt)
         /\ RequestsAre(now, aside, ids, 20, spoilt)
              => RequestsAre(Empty("new"), aside, ids, 21, spoilt)
         /\ RequestsAre(now, aside, ids, 22, spoilt)
              => RequestsAre(now, NoTable, ids, 23, spoilt)
         /\ RequestsAre(now, aside, ids, 23, spoilt) /\ (\A r \in now.rows : r.uuid # "legacy")
              => RequestsAre(now, aside, ids, 24, spoilt)
<1>1. RowIds(NoTable) = {} /\ RowIds(Empty("new")) = {} /\ NoTable.rows = {}
      /\ Empty("new").rows = {} /\ Keyed({}, "id") /\ NoTable.shape = "none"
      /\ Empty("new").shape = "new"
  BY TableForms DEF RowIds, Keyed
<1>2. aside = NoTable => RequestsAre(NoTable, now, ids, 20, spoilt)
  BY <1>1 DEF RequestsAre, RequestRows, RequestsMoved, RequestsWhole
<1>3. RequestsAre(now, aside, ids, 20, spoilt) => RequestsAre(Empty("new"), aside, ids, 21, spoilt)
  BY <1>1 DEF RequestsAre, RequestRows, RequestsMoved, RequestsWhole
<1>4. RequestsAre(now, aside, ids, 22, spoilt) => RequestsAre(now, NoTable, ids, 23, spoilt)
  BY <1>1 DEF RequestsAre, RequestRows, RequestsMoved, RequestsWhole
<1>5. RequestsAre(now, aside, ids, 23, spoilt) /\ (\A r \in now.rows : r.uuid # "legacy")
        => RequestsAre(now, aside, ids, 24, spoilt)
  BY <1>1 DEF RequestsAre, RequestRows, RequestsMoved, RequestsWhole
<1> QED
  BY <1>2, <1>3, <1>4, <1>5

\* No request is lost, doubled or left without an identity, but for the interruptions that spoil it.
LEMMA RequestsKept ==
  ASSUME UpgradeTypes, Way, Opened, Requests,
         (Upgrade /\ Advances) \/ Halted \/ Began \/ Stops \/ Same
  PROVE  Requests'
<1> DEFINE now == db.now["document_requests"]
           aside == db.aside["document_requests"]
<1>1. CASE Upgrade /\ Advances
  <2>1. before' = before /\ hurt' = hurt /\ OldRequests' = OldRequests /\ Stage \in 1 .. 51
    BY <1>1 DEF Advances, OldRequests
  <2>2. before.version \in 0 .. 24 /\ (before.version > 20 => Stage \in 47 .. 51)
    <3>1. before.version \in 0 .. 24 /\ (before.made = {} => before.version = 0)
      BY LeftBefore, BaseZero
    <3> QED
      BY <2>1, <3>1 DEF Way
  <2>3. RequestsAre(now, aside, OldRequests, Stage, hurt)
        /\ RequestRows(now, aside, OldRequests)
        /\ (before.version > 20 => now.shape = "new")
    BY DEF Requests, RequestsAre
  <2>4. SUFFICES /\ RequestsAre(now', aside', OldRequests, Stage', hurt)
                 /\ before.version > 20 => now'.shape = "new"
    BY <2>1 DEF Requests
  <2> HIDE DEF now, aside
  <2>5. CASE Stage \notin {1, 14} \cup 19 .. 23
    <3>1. now' = now /\ aside' = aside
      BY <1>1, <2>5, RequestsAt DEF now, aside
    <3>2. Stage' \notin 20 .. 23 /\ (Stage' \in 2 .. 4 => Stage \in 2 .. 4)
          /\ (Stage' >= 22 => Stage = 4 \/ Stage >= 22)
      BY <1>1, <2>5 DEF Advances
    <3> QED
      BY <2>1, <2>3, <2>5, <3>1, <3>2 DEF RequestsAre, RequestsMoved, RequestsWhole
  <2>6. CASE Stage \in {1, 14}
    <3>1. aside' = aside
      BY <1>1, <2>6, RequestsAt DEF now, aside
    <3>2. Stage' = Stage + 1 /\ before.version <= 20
      BY <1>1, <2>2, <2>6 DEF Advances
    <3>3. CASE now # NoTable
      <4>1. now' = now
        BY <1>1, <2>6, <3>3, RequestsAt DEF now, aside
      <4>2. Stage = 1 => now = NoTable
        <5>1. Stage = 1 => db = before /\ before = Base(0)
          BY LeftBefore DEF Way
        <5> QED
          BY <5>1, BaseZero, CloudTables DEF now
      <4> QED
        BY <2>3, <2>6, <3>1, <3>2, <3>3, <4>1, <4>2 DEF RequestsAre, RequestsMoved, RequestsWhole
    <3>4. CASE now = NoTable
      <4>1. /\ Stage = 1 => now' = Empty("new")
            /\ Stage = 14 => now' = Empty("old")
        BY <1>1, <3>4, RequestsAt DEF now, aside
      <4>2. Stage = 1 => aside = NoTable
        <5>1. Stage = 1 => db = before
          BY DEF Way
        <5> QED
          BY <5>1, NothingAside, CloudTables DEF aside
      <4>3. now'.rows = {} /\ now.rows = {} /\ RowIds(now') = {} /\ RowIds(now) = {}
            /\ (Stage = 1 => now'.shape = "new") /\ (Stage = 14 => now'.shape = "old")
            /\ RowIds(NoTable) = {}
        BY <2>6, <3>4, <4>1, TableForms DEF RowIds
      <4>4. RequestRows(now', aside, OldRequests)
        BY <2>3, <4>3 DEF RequestRows
      <4>5. RequestsMoved(now', aside, OldRequests, Stage')
        BY <2>6, <3>2, <4>3 DEF RequestsMoved
      <4>6. RequestsWhole(now', aside, OldRequests, Stage', hurt)
        BY <2>3, <2>6, <3>2, <4>2, <4>3 DEF RequestsWhole, RequestRows
      <4>7. RequestsAre(now', aside, OldRequests, Stage', hurt)
        BY <4>4, <4>5, <4>6 DEF RequestsAre
      <4>8. before.version <= 20 => ~(before.version > 20)
        BY <2>2
      <4> QED
        BY <3>1, <3>2, <4>7, <4>8, Zenon
    <3> QED
      BY <3>3, <3>4
  <2>7. CASE Stage = 19
    <3>1. CASE Stage' = 24 /\ now.shape = "new" /\ now' = now /\ aside' = aside
      BY <2>2, <2>3, <2>7, <3>1 DEF RequestsAre, RequestsMoved, RequestsWhole
    <3>2. CASE Stage' = 20 /\ aside = NoTable /\ now' = NoTable /\ aside' = now
      BY <2>2, <2>3, <2>7, <3>2, RequestsRebuilt
    <3> QED
      BY <1>1, <2>7, <3>1, <3>2, RequestsAt DEF now, aside
  <2>8. CASE Stage = 20
    <3>1. now' = Empty("new") /\ aside' = aside /\ Stage' = 21
      BY <1>1, <2>8, RequestsAt DEF now, aside, Advances
    <3> QED
      BY <2>2, <2>3, <2>8, <3>1, RequestsRebuilt
  <2>9. CASE Stage = 21
    <3>1. now'.rows = {[r EXCEPT !.uuid = "legacy"] : r \in aside.rows}
          /\ now'.shape = now.shape /\ aside' = aside /\ Stage' = 22
      BY <1>1, <2>9, RequestsAt DEF now, aside, Advances
    <3>2. RequestsAre(now, aside, OldRequests, 21, hurt)
      BY <2>3, <2>9
    <3>3. RequestsAre(now', aside, OldRequests, 22, hurt)
      BY <3>1, <3>2, RequestsCopied
    <3> QED
      BY <2>2, <2>9, <3>1, <3>3
  <2>10. CASE Stage = 22
    <3>1. now' = now /\ aside' = NoTable /\ Stage' = 23
      BY <1>1, <2>10, RequestsAt DEF now, aside, Advances
    <3> QED
      BY <2>2, <2>3, <2>10, <3>1, RequestsRebuilt
  <2>11. CASE Stage = 23
    <3>1. aside' = aside
      BY <1>1, <2>11, RequestsAt DEF now, aside
    <3>2. CASE /\ Stage' = 23 /\ now'.shape = now.shape
               /\ \E r \in now.rows :
                    now'.rows = (now.rows \ {r}) \cup {[r EXCEPT !.uuid = "own"]}
      <4>1. PICK r \in now.rows : now'.rows = (now.rows \ {r}) \cup {[r EXCEPT !.uuid = "own"]}
        BY <3>2
      <4>2. RequestsAre(now, aside, OldRequests, 23, hurt)
        BY <2>3, <2>11
      <4>3. RequestsAre(now', aside, OldRequests, 23, hurt)
        BY <3>2, <4>1, <4>2, RequestRenewed
      <4> QED
        BY <2>2, <2>11, <3>1, <3>2, <4>3
    <3>3. CASE Stage' = 24 /\ now' = now /\ \A r \in now.rows : r.uuid # "legacy"
      BY <2>2, <2>3, <2>11, <3>1, <3>3, RequestsRebuilt
    <3> QED
      BY <1>1, <2>11, <3>2, <3>3, RequestsAt DEF now, aside
  <2> QED
    BY <2>5, <2>6, <2>7, <2>8, <2>9, <2>10, <2>11
<1>2. CASE Halted
  <2>1. Stage \in {7, 19, 26, 30, 34, 38, 39, 40} /\ Stage' = 0 /\ UNCHANGED <<db, before, hurt>>
    BY <1>2 DEF Halted, Halts
  <2> QED
    BY <2>1 DEF Requests, RequestsAre, RequestsMoved, RequestsWhole, OldRequests
<1>3. CASE Began
  <2>1. UNCHANGED <<db, before, hurt>> /\ Stage = 0 /\ before.version \in 0 .. 24
        /\ (before.version <= 20 => Stage' \in {1, 5, 6})
        /\ (before.version > 20 => Stage' \in {47, 48, 49, 52})
    BY <1>3, BeganAt
  <2> QED
    BY <2>1 DEF Requests, RequestsAre, RequestsMoved, RequestsWhole, OldRequests
<1>4. CASE Stops
  <2>1. /\ Stage \in 1 .. 51 /\ Stage' = 0 /\ before' = before /\ hurt \subseteq hurt'
        /\ db'.now = db.now /\ db'.aside = db.aside
        /\ Stage = 21 => "requests" \in hurt'
        /\ Stage \in {22, 23} => "ids" \in hurt'
    BY <1>4, StoppedAt DEF Stopped
  <2>2. now' = now /\ aside' = aside /\ OldRequests' = OldRequests
    BY <2>1 DEF OldRequests
  <2>3. RequestsAre(now, aside, OldRequests, Stage, hurt)
    BY DEF Requests
  <2>4. NoTable.shape # "new" /\ Empty("new").rows = {} /\ NoTable.rows = {}
    BY TableForms
  <2> HIDE DEF now, aside
  <2>5. RequestRows(now, aside, OldRequests)
    BY <2>3 DEF RequestsAre
  <2>6. RequestsMoved(now, aside, OldRequests, 0)
    BY DEF RequestsMoved
  <2>7. RequestsWhole(now, aside, OldRequests, 0, hurt')
    <3> SUFFICES ASSUME now.shape = "new"
                 PROVE  /\ "requests" \notin hurt' => OldRequests = RowIds(now)
                        /\ hurt' \cap {"requests", "ids"} = {} => aside = NoTable
                        /\ "ids" \notin hurt' => \A r \in now.rows : r.uuid = "own"
      BY DEF RequestsWhole
    <3>1. Stage # 20
      BY <2>3, <2>4 DEF RequestsAre, RequestsMoved
    <3>2. CASE Stage = 21
      BY <2>1, <2>3, <2>4, <3>2 DEF RequestsAre, RequestsMoved
    <3>3. CASE Stage = 22
      BY <2>1, <2>3, <3>3 DEF RequestsAre, RequestsMoved
    <3>4. CASE Stage = 23
      BY <2>1, <2>3, <3>4 DEF RequestsAre, RequestsMoved, RequestsWhole
    <3>5. CASE Stage \notin 20 .. 23
      BY <2>1, <2>3, <3>5 DEF RequestsAre, RequestsWhole
    <3> QED
      BY <2>1, <3>1, <3>2, <3>3, <3>4, <3>5
  <2> QED
    BY <2>1, <2>2, <2>5, <2>6, <2>7 DEF Requests, RequestsAre, now, aside
<1>5. CASE Same
  BY <1>5 DEF Same, Requests, OldRequests
<1> QED
  BY <1>1, <1>2, <1>3, <1>4, <1>5

-----------------------------------------------------------------------------
(* An account for each organization that uses one                          *)

SettingRows(rows) ==
  /\ Keyed(rows, "org")
  /\ \A s \in rows : s.org \in Orgs /\ s = Setting(s.org, s.mode, s.account)

AccountRows(rows) ==
  Keyed(rows, "id") /\ IsFiniteSet(rows) /\ \A a \in rows : a.id \in Nat

MappingRows(rows) == \A m \in rows : DOMAIN m = {"org", "provider", "account"}

OldAccounts == db.aside["cloud_accounts"].rows

\* The tables put aside, as the new ones are filled from them.
Fillable == SettingRows(OldSettings) /\ AccountRows(OldAccounts)

\* A proper part of a finite set has fewer elements.
LEMMA FewerElements ==
  ASSUME NEW S, IsFiniteSet(S), NEW T, T \subseteq S, NEW x \in S, x \notin T
  PROVE  IsFiniteSet(T) /\ Cardinality(T) \in Nat /\ Cardinality(S) \in Nat
         /\ Cardinality(T) < Cardinality(S)
<1>1. T \in SUBSET S /\ T # S
  OBVIOUS
<1>2. IsFiniteSet(T) /\ Cardinality(T) <= Cardinality(S)
      /\ (Cardinality(S) = Cardinality(T) => S = T)
  BY <1>1, FS_Subset
<1>3. Cardinality(T) \in Nat /\ Cardinality(S) \in Nat
  BY <1>2, FS_CardinalityType
<1> QED
  BY <1>1, <1>2, <1>3

\* The account a row of settings uses is the only one of that number.
LEMMA LinkedRows ==
  ASSUME Fillable
  PROVE  /\ \A s \in Linked :
              /\ s \in OldSettings /\ s.org \in Orgs /\ s.org \in Nat
              /\ s = Setting(s.org, s.mode, s.account)
              /\ AccountOf(s) \in OldAccounts /\ AccountOf(s).id = s.account
              /\ AccountOf(s).provider = s.mode /\ s.account \in Nat
              /\ \A a \in OldAccounts : a.id = s.account => a = AccountOf(s)
         /\ \A r, s \in Linked : r.org = s.org => r = s
         /\ \A r, s \in Linked : r.account = s.account => AccountOf(r) = AccountOf(s)
<1>1. \A s \in Linked : s \in OldSettings /\ \E a \in OldAccounts : a \in UsedAccounts(s)
  BY DEF Linked, UsedAccounts, OldAccounts
<1>2. \A s \in Linked : AccountOf(s) \in UsedAccounts(s)
  BY <1>1, Zenon DEF AccountOf
<1>3. \A s \in Linked : AccountOf(s) \in OldAccounts /\ AccountOf(s).id = s.account
                        /\ AccountOf(s).provider = s.mode
  BY <1>2 DEF UsedAccounts, OldAccounts
<1>4. \A s \in Linked : s.org \in Orgs /\ s.org \in Nat /\ s = Setting(s.org, s.mode, s.account)
  BY <1>1, OrderAssumption DEF Fillable, SettingRows
<1>5. \A s \in Linked : s.account \in Nat /\ \A a \in OldAccounts : a.id = s.account => a = AccountOf(s)
  BY <1>3 DEF Fillable, AccountRows, Keyed
<1>6. \A r, s \in Linked : r.org = s.org => r = s
  BY <1>1 DEF Fillable, SettingRows, Keyed
<1>7. \A r, s \in Linked : r.account = s.account => AccountOf(r) = AccountOf(s)
  BY <1>3, <1>5
<1> HIDE DEF Fillable
<1> QED
  BY <1>1, <1>3, <1>4, <1>5, <1>6, <1>7

\* There are finitely many settings that use an account.
LEMMA LinkedFinite ==
  ASSUME Fillable
  PROVE  IsFiniteSet(Linked)
<1> DEFINE f == [s \in Linked |-> s.org]
<1>1. f \in Injection(Linked, Orgs)
  BY LinkedRows DEF Injection, IsInjective
<1>2. IsFiniteSet(Orgs)
  BY OrderAssumption
<1> HIDE DEF f
<1> QED
  BY <1>1, <1>2, FS_Injection

\* The largest number of an account.
LargestId == CHOOSE n \in {a.id : a \in OldAccounts} : \A a \in OldAccounts : a.id <= n

\* The largest number of an account is one, and no account has a larger.
LEMMA LargestIdIs ==
  ASSUME Fillable, OldAccounts # {}
  PROVE  LargestId \in Nat /\ \A a \in OldAccounts : a.id <= LargestId
<1> DEFINE Above(a) == {b \in OldAccounts : a.id < b.id}
           N == {Cardinality(Above(a)) : a \in OldAccounts}
<1>1. IsFiniteSet(OldAccounts) /\ \A a \in OldAccounts : a.id \in Nat
  BY DEF Fillable, AccountRows
<1>2. \A a \in OldAccounts : IsFiniteSet(Above(a)) /\ Cardinality(Above(a)) \in Nat
  <2> SUFFICES ASSUME NEW a \in OldAccounts
               PROVE  IsFiniteSet(Above(a)) /\ Cardinality(Above(a)) \in Nat
    OBVIOUS
  <2>1. Above(a) \in SUBSET OldAccounts
    OBVIOUS
  <2> HIDE DEF Above
  <2> QED
    BY <1>1, <2>1, FS_Subset, FS_CardinalityType
<1>3. N \subseteq Nat /\ N # {}
  BY <1>2
<1>4. Least(N) \in N /\ \A y \in N : Least(N) <= y
  <2> HIDE DEF N
  <2> QED
    BY <1>3, LeastIn
<1>5. PICK a \in OldAccounts : Least(N) = Cardinality(Above(a))
  BY <1>4
<1>6. ASSUME NEW b \in OldAccounts, a.id < b.id
      PROVE  FALSE
  <2>1. Above(b) \subseteq Above(a) /\ b \in Above(a) /\ b \notin Above(b)
    BY <1>1, <1>6
  <2>2. Cardinality(Above(b)) < Cardinality(Above(a))
    <3> HIDE DEF Above
    <3> QED
      BY <1>2, <2>1, FewerElements
  <2>3. Cardinality(Above(a)) <= Cardinality(Above(b))
    BY <1>4, <1>5
  <2> HIDE DEF Above
  <2> QED
    BY <1>2, <2>2, <2>3
<1>7. \A b \in OldAccounts : b.id <= a.id
  BY <1>1, <1>6
<1>8. \E n \in {x.id : x \in OldAccounts} : \A b \in OldAccounts : b.id <= n
  BY <1>7
<1>9. LargestId \in {x.id : x \in OldAccounts} /\ \A b \in OldAccounts : b.id <= LargestId
  BY <1>8, Zenon DEF LargestId
<1> QED
  BY <1>1, <1>9

\* The settings, up to this one, that get a new account.
Apart(s) == {r \in Linked : r.org <= s.org /\ ~KeepsSecret(r)}

\* What the new accounts are.
LEMMA NewAccountIs ==
  \A s : /\ NewAccount(s).id = NewId(s) /\ NewAccount(s).org = s.org
         /\ NewAccount(s).provider = s.mode
         /\ KeepsSecret(s) => NewAccount(s).token = AccountOf(s).token
         /\ ~KeepsSecret(s) => NewAccount(s).token = Null
         /\ KeepsSecret(s) => NewId(s) = s.account
         /\ ~KeepsSecret(s) => NewId(s) = Cardinality(Apart(s)) + LargestId
<1> TAKE s
<1>1. /\ KeepsSecret(s) => NewId(s) = s.account
      /\ ~KeepsSecret(s) => NewId(s) = Cardinality(Apart(s)) + LargestId
  BY Zenon DEF NewId, Apart, LargestId, OldAccounts
<1>2. /\ NewAccount(s).id = NewId(s) /\ NewAccount(s).org = s.org
      /\ NewAccount(s).provider = s.mode
      /\ KeepsSecret(s) => NewAccount(s).token = AccountOf(s).token
      /\ ~KeepsSecret(s) => NewAccount(s).token = Null
  BY DEF NewAccount
<1> QED
  BY <1>1, <1>2

\* A number of a new account is larger than any before.
LEMMA NewIdIs ==
  ASSUME Fillable, NEW s \in Linked
  PROVE  /\ NewId(s) \in Nat
         /\ ~KeepsSecret(s) => /\ Cardinality(Apart(s)) \in Nat /\ IsFiniteSet(Apart(s))
                               /\ LargestId \in Nat /\ LargestId < NewId(s)
         /\ KeepsSecret(s) => NewId(s) <= LargestId /\ NewId(s) = s.account
<1>1. s.account \in Nat /\ AccountOf(s) \in OldAccounts /\ AccountOf(s).id = s.account
      /\ s.org \in Nat
  BY LinkedRows
<1>2. LargestId \in Nat /\ \A a \in OldAccounts : a.id <= LargestId
  BY <1>1, LargestIdIs
<1>3. IsFiniteSet(Apart(s)) /\ Cardinality(Apart(s)) \in Nat
  <2>1. Apart(s) \in SUBSET Linked
    BY DEF Apart
  <2> QED
    BY <2>1, LinkedFinite, FS_Subset, FS_CardinalityType
<1>4. ~KeepsSecret(s) => 1 <= Cardinality(Apart(s))
  <2> SUFFICES ASSUME ~KeepsSecret(s)
               PROVE  Cardinality(Apart(s)) # 0
    BY <1>3
  <2>1. s \in Apart(s)
    BY <1>1 DEF Apart
  <2> QED
    BY <1>3, <2>1, FS_EmptySet
<1>5. KeepsSecret(s) => NewId(s) = s.account
  BY NewAccountIs
<1>6. ~KeepsSecret(s) => NewId(s) = Cardinality(Apart(s)) + LargestId
  BY NewAccountIs
<1> QED
  BY <1>1, <1>2, <1>3, <1>4, <1>5, <1>6

\* Two organizations never get the same number, nor the same secret.
LEMMA NewAccountsApart ==
  ASSUME Fillable, NEW r \in Linked, NEW s \in Linked, r.org < s.org
  PROVE  /\ NewId(r) # NewId(s)
         /\ KeepsSecret(r) /\ KeepsSecret(s) /\ AccountOf(s).token # Null
              => AccountOf(r).token # AccountOf(s).token
<1>1. KeepsSecret(s) => r.account # s.account
                        /\ (AccountOf(s).token # Null => AccountOf(r).token # AccountOf(s).token)
  BY DEF KeepsSecret
<1>2. CASE KeepsSecret(r) /\ KeepsSecret(s)
  BY <1>1, <1>2, NewIdIs
<1>3. CASE KeepsSecret(r) /\ ~KeepsSecret(s)
  <2>1. NewId(r) \in Nat /\ NewId(s) \in Nat /\ LargestId \in Nat
        /\ NewId(r) <= LargestId /\ LargestId < NewId(s)
    BY <1>3, NewIdIs
  <2> QED
    BY <1>3, <2>1
<1>4. CASE ~KeepsSecret(r) /\ KeepsSecret(s)
  <2>1. NewId(r) \in Nat /\ NewId(s) \in Nat /\ LargestId \in Nat
        /\ NewId(s) <= LargestId /\ LargestId < NewId(r)
    BY <1>4, NewIdIs
  <2> QED
    BY <1>4, <2>1
<1>5. CASE ~KeepsSecret(r) /\ ~KeepsSecret(s)
  <2>1. IsFiniteSet(Apart(s)) /\ LargestId \in Nat
    BY <1>5, NewIdIs
  <2>2. r.org \in Nat /\ s.org \in Nat /\ \A x \in Linked : x.org \in Nat
    BY LinkedRows
  <2>3. Apart(r) \subseteq Apart(s) /\ s \in Apart(s) /\ s \notin Apart(r)
    BY <1>5, <2>2 DEF Apart
  <2>4. /\ Cardinality(Apart(r)) \in Nat /\ Cardinality(Apart(s)) \in Nat
        /\ Cardinality(Apart(r)) < Cardinality(Apart(s))
    BY <2>1, <2>3, FewerElements
  <2>5. /\ NewId(r) = Cardinality(Apart(r)) + LargestId
        /\ NewId(s) = Cardinality(Apart(s)) + LargestId
    BY <1>5, NewAccountIs
  <2> QED
    BY <1>5, <2>1, <2>4, <2>5
<1> QED
  BY <1>2, <1>3, <1>4, <1>5

\* An account is told by its number, and by its secret.
LEMMA NewAccountsDiffer ==
  ASSUME Fillable, NEW r \in Linked, NEW s \in Linked,
         \/ NewId(r) = NewId(s)
         \/ NewAccount(r).token # Null /\ NewAccount(r).token = NewAccount(s).token
  PROVE  r = s
<1>1. r.org \in Nat /\ s.org \in Nat /\ (r.org = s.org => r = s)
  BY LinkedRows
<1>2. NewAccount(r).token # Null /\ NewAccount(r).token = NewAccount(s).token =>
        /\ KeepsSecret(r) /\ KeepsSecret(s)
        /\ AccountOf(r).token = AccountOf(s).token /\ AccountOf(s).token # Null
  BY NewAccountIs
<1>3. ~(r.org < s.org)
  BY <1>2, NewAccountsApart
<1>4. ~(s.org < r.org)
  BY <1>2, NewAccountsApart
<1> QED
  BY <1>1, <1>3, <1>4

\* The rows of settings after the filling.
LEMMA NewSettingIs ==
  ASSUME Fillable, NEW s \in OldSettings
  PROVE  /\ NewSetting(s).org = s.org /\ s.org \in Orgs
         /\ NewSetting(s) = Setting(s.org, NewSetting(s).mode, NewSetting(s).account)
         /\ s \in Linked => NewSetting(s).account = NewId(s) /\ NewSetting(s).mode = s.mode
         /\ s \notin Linked => NewSetting(s).account = Null /\ NewSetting(s).mode = "LOCAL"
<1>1. s.org \in Orgs /\ s = Setting(s.org, s.mode, s.account)
  BY DEF Fillable, SettingRows
<1>2. \A x : LET n == [s EXCEPT !.account = x] IN
        n.org = s.org /\ n.mode = s.mode /\ n.account = x /\ n = Setting(n.org, n.mode, n.account)
  <2> DEFINE o == s.org  m == s.mode  a == s.account
  <2>1. s = [org |-> o, mode |-> m, account |-> a]
    BY <1>1 DEF Setting
  <2> HIDE DEF o, m, a
  <2> QED
    BY <2>1 DEF Setting
<1>3. LET n == [s EXCEPT !.account = Null, !.mode = "LOCAL"] IN
        n.org = s.org /\ n.mode = "LOCAL" /\ n.account = Null
        /\ n = Setting(n.org, n.mode, n.account)
  <2> DEFINE o == s.org  m == s.mode  a == s.account
             x == [s EXCEPT !.account = Null]
             y == [x EXCEPT !.mode = "LOCAL"]
  <2>1. s = [org |-> o, mode |-> m, account |-> a]
    BY <1>1 DEF Setting
  <2>2. y = [s EXCEPT !.account = Null, !.mode = "LOCAL"]
    BY Zenon
  <2> HIDE DEF o, m, a, y
  <2>3. x = [org |-> o, mode |-> m, account |-> Null]
    BY <2>1
  <2> HIDE DEF x
  <2>4. y = [org |-> o, mode |-> "LOCAL", account |-> Null]
    BY <2>3 DEF y
  <2>5. y.org = s.org /\ y.mode = "LOCAL" /\ y.account = Null
        /\ y = Setting(y.org, y.mode, y.account)
    BY <2>4 DEF Setting, o
  <2> QED
    BY <2>2, <2>5
<1> QED
  BY <1>1, <1>2, <1>3 DEF NewSetting

FilledAccounts == {NewAccount(s) : s \in Linked}
FilledSettings ==
  LET settings == {NewSetting(s) : s \in OldSettings} IN settings \cup LocalSettings(settings)

\* Each account belongs to the organization whose settings name it, and a secret
\* to one account.
Owned(settings, accounts) ==
  /\ \A a, b \in accounts :
       a.id = b.id \/ (a.token # Null /\ a.token = b.token) => a = b
  /\ \A a \in accounts : a.id \in Nat
       /\ \E s \in settings : s.org = a.org /\ s.account = a.id /\ s.mode = a.provider
  /\ \A s \in settings : \/ s.account = Null /\ s.mode = "LOCAL"
                         \/ \E a \in accounts : a.id = s.account /\ a.provider = s.mode
                                                /\ a.org = s.org

\* The settings added are local and of organizations that had none.
LEMMA LocalRows ==
  ASSUME NEW rows
  PROVE  \A s \in LocalSettings(rows) :
           /\ s = Setting(s.org, "LOCAL", Null) /\ s.org \in Orgs
           /\ s.account = Null /\ s.mode = "LOCAL" /\ \A r \in rows : r.org # s.org
<1> SUFFICES ASSUME NEW o \in {x \in Orgs : Exists(x) /\ ~HasSetting(x, rows)}
             PROVE  LET s == Setting(o, "LOCAL", Null) IN
                    /\ s = Setting(s.org, "LOCAL", Null) /\ s.org \in Orgs
                    /\ s.account = Null /\ s.mode = "LOCAL" /\ \A r \in rows : r.org # s.org
  BY DEF LocalSettings
<1> QED
  BY DEF Setting, HasSetting

\* More settings, of organizations that had none.
LEMMA LocalAdded ==
  ASSUME NEW rows, SettingRows(rows)
  PROVE  SettingRows(rows \cup LocalSettings(rows))
<1>1. \A s \in LocalSettings(rows) :
        s.org \in Orgs /\ s = Setting(s.org, s.mode, s.account) /\ \A r \in rows : r.org # s.org
  BY LocalRows
<1>2. \A r, s \in LocalSettings(rows) : r.org = s.org => r = s
  BY LocalRows
<1> QED
  BY <1>1, <1>2 DEF SettingRows, Keyed

\* The filled tables: one row of settings for each organization, accounts with owners.
LEMMA FilledForms ==
  ASSUME Fillable
  PROVE  /\ SettingRows(FilledSettings)
         /\ AccountRows(FilledAccounts)
         /\ Owned(FilledSettings, FilledAccounts)
<1> DEFINE fresh == {NewSetting(s) : s \in OldSettings}
<1>1. \A n \in fresh : \E s \in OldSettings : n = NewSetting(s) /\ n.org = s.org
        /\ n.org \in Orgs /\ n = Setting(n.org, n.mode, n.account)
  <2> SUFFICES ASSUME NEW s \in OldSettings
               PROVE  LET n == NewSetting(s) IN n.org = s.org
                        /\ n.org \in Orgs /\ n = Setting(n.org, n.mode, n.account)
    BY Zenon
  <2> QED
    BY NewSettingIs
<1>2. \A m, n \in fresh : m.org = n.org => m = n
  <2> SUFFICES ASSUME NEW m \in fresh, NEW n \in fresh, m.org = n.org
               PROVE  m = n
    OBVIOUS
  <2>1. PICK r \in OldSettings : m = NewSetting(r) /\ m.org = r.org
    BY <1>1, Zenon
  <2>2. PICK s \in OldSettings : n = NewSetting(s) /\ n.org = s.org
    BY <1>1, Zenon
  <2>3. r = s
    BY <2>1, <2>2 DEF Fillable, SettingRows, Keyed
  <2> QED
    BY <2>1, <2>2, <2>3
<1>3. SettingRows(fresh)
  <2> HIDE DEF fresh
  <2> QED
    BY <1>1, <1>2 DEF SettingRows, Keyed
<1>4. SettingRows(FilledSettings)
  <2>1. FilledSettings = fresh \cup LocalSettings(fresh)
    BY Zenon DEF FilledSettings
  <2> HIDE DEF fresh
  <2> QED
    BY <1>3, <2>1, LocalAdded
<1>5. \A a \in FilledAccounts : \E s \in Linked : a = NewAccount(s)
  BY Zenon DEF FilledAccounts
<1>6. \A a, b \in FilledAccounts :
        a.id = b.id \/ (a.token # Null /\ a.token = b.token) => a = b
  <2> SUFFICES ASSUME NEW a \in FilledAccounts, NEW b \in FilledAccounts,
                      a.id = b.id \/ (a.token # Null /\ a.token = b.token)
               PROVE  a = b
    OBVIOUS
  <2>1. PICK r \in Linked : a = NewAccount(r)
    BY <1>5, Zenon
  <2>2. PICK s \in Linked : b = NewAccount(s)
    BY <1>5, Zenon
  <2>3. a.id = NewId(r) /\ b.id = NewId(s)
    BY <2>1, <2>2, NewAccountIs
  <2>4. r = s
    BY <2>1, <2>2, <2>3, NewAccountsDiffer
  <2> QED
    BY <2>1, <2>2, <2>4
<1>7. \A a \in FilledAccounts : a.id \in Nat
        /\ \E s \in FilledSettings : s.org = a.org /\ s.account = a.id /\ s.mode = a.provider
  <2> SUFFICES ASSUME NEW s \in Linked
               PROVE  LET a == NewAccount(s) IN a.id \in Nat
                        /\ \E n \in FilledSettings :
                             n.org = a.org /\ n.account = a.id /\ n.mode = a.provider
    BY <1>5, Zenon
  <2>1. s \in OldSettings
    BY LinkedRows
  <2>2. NewSetting(s) \in FilledSettings
    BY <2>1, Zenon DEF FilledSettings
  <2>3. NewAccount(s).id = NewId(s) /\ NewAccount(s).org = s.org
        /\ NewAccount(s).provider = s.mode /\ NewId(s) \in Nat
    BY NewAccountIs, NewIdIs
  <2>4. NewSetting(s).org = s.org /\ NewSetting(s).account = NewId(s)
        /\ NewSetting(s).mode = s.mode
    BY <2>1, NewSettingIs
  <2> QED
    BY <2>2, <2>3, <2>4
<1>8. \A s \in FilledSettings : \/ s.account = Null /\ s.mode = "LOCAL"
                                \/ \E a \in FilledAccounts : a.id = s.account
                                     /\ a.provider = s.mode /\ a.org = s.org
  <2> SUFFICES ASSUME NEW n \in FilledSettings
               PROVE  \/ n.account = Null /\ n.mode = "LOCAL"
                      \/ \E a \in FilledAccounts : a.id = n.account
                           /\ a.provider = n.mode /\ a.org = n.org
    OBVIOUS
  <2>1. CASE n \in LocalSettings(fresh)
    <3> HIDE DEF fresh
    <3> QED
      BY <2>1, LocalRows
  <2>2. CASE n \in fresh
    <3>1. PICK s \in OldSettings : n = NewSetting(s)
      BY <2>2, Zenon
    <3>2. CASE s \notin Linked
      BY <3>1, <3>2, NewSettingIs
    <3>3. CASE s \in Linked
      <4>1. NewAccount(s) \in FilledAccounts
        BY <3>3, Zenon DEF FilledAccounts
      <4> QED
        BY <3>1, <3>3, <4>1, NewAccountIs, NewSettingIs
    <3> QED
      BY <3>2, <3>3
  <2>3. n \in fresh \/ n \in LocalSettings(fresh)
    BY Zenon DEF FilledSettings
  <2> QED
    BY <2>1, <2>2, <2>3
<1>9. IsFiniteSet(FilledAccounts)
  <2> DEFINE f == [s \in Linked |-> NewAccount(s)]
  <2>1. f \in Surjection(Linked, FilledAccounts)
    BY DEF Surjection, FilledAccounts
  <2> HIDE DEF f
  <2> QED
    BY <2>1, LinkedFinite, FS_Surjection
<1>10. Owned(FilledSettings, FilledAccounts)
  BY <1>6, <1>7, <1>8 DEF Owned
<1>11. AccountRows(FilledAccounts)
  BY <1>6, <1>7, <1>9 DEF AccountRows, Keyed
<1> QED
  BY <1>4, <1>10, <1>11

\* The account the settings of an organization used in the old database.
Had(s) == {a \in before.now["cloud_accounts"].rows : a.id = s.account /\ a.provider = s.mode}

\* Every organization that had an account has one of its own, and every secret
\* that was used is held.
Kept(settings, accounts) ==
  /\ \A s \in before.now["cloud_settings"].rows :
       \E r \in settings : r.org = s.org /\
         IF Had(s) = {} THEN r.account = Null /\ r.mode = "LOCAL"
         ELSE r.mode = s.mode /\ \E a \in accounts : a.id = r.account /\ a.org = s.org
  /\ \A s \in before.now["cloud_settings"].rows : \A h \in Had(s) :
       h.token # Null => \E a \in accounts : a.token = h.token

\* Each row of settings put aside gives one of the new table.
LEMMA FilledRow ==
  ASSUME Fillable, NEW s \in OldSettings
  PROVE  /\ NewSetting(s) \in FilledSettings
         /\ s \in Linked => NewAccount(s) \in FilledAccounts
  BY Zenon DEF FilledSettings, FilledAccounts

\* The first of those that used a secret keeps it.
LEMMA SecretKeeper ==
  ASSUME Fillable, NEW s \in Linked
  PROVE  \E r \in Linked : KeepsSecret(r) /\ AccountOf(r).token = AccountOf(s).token
<1> DEFINE M == {r \in Linked : AccountOf(r).token = AccountOf(s).token}
           N == {r.org : r \in M}
<1>1. N \subseteq Nat /\ N # {}
  BY LinkedRows
<1>2. Least(N) \in N /\ \A y \in N : Least(N) <= y
  <2> HIDE DEF N
  <2> QED
    BY <1>1, LeastIn
<1>3. PICK r \in M : r.org = Least(N)
  BY <1>2
<1>4. r \in Linked /\ AccountOf(r).token = AccountOf(s).token
  BY <1>3
<1>5. ASSUME NEW x \in Linked, x.org < r.org
      PROVE  /\ x.account # r.account
             /\ AccountOf(r).token # Null => AccountOf(x).token # AccountOf(r).token
  <2>1. x.org \in Nat /\ r.org \in Nat
    BY <1>4, LinkedRows
  <2>2. x \notin M
    <3>1. x \in M => x.org \in N
      OBVIOUS
    <3> HIDE DEF M, N
    <3> QED
      BY <1>2, <1>3, <1>5, <2>1, <3>1
  <2>3. AccountOf(x).token # AccountOf(s).token
    BY <2>2
  <2>4. x.account # r.account
    BY <1>4, <2>3, LinkedRows
  <2> QED
    BY <1>4, <2>3, <2>4
<1> HIDE DEF M, N
<1>6. KeepsSecret(r)
  BY <1>5 DEF KeepsSecret
<1> QED
  BY <1>4, <1>6

\* The first time, from what the old database had.
LEMMA FirstFilling ==
  ASSUME Fillable, OldAccounts = before.now["cloud_accounts"].rows,
         before.now["cloud_settings"].rows \subseteq OldSettings
  PROVE  Kept(FilledSettings, FilledAccounts)
<1>1. \A s : Had(s) = UsedAccounts(s)
  BY DEF Had, UsedAccounts, OldAccounts
<1>2. \A s \in OldSettings : s \in Linked <=> Had(s) # {}
  BY <1>1 DEF Linked
<1>3. ASSUME NEW s \in before.now["cloud_settings"].rows
      PROVE  \E r \in FilledSettings : r.org = s.org /\
               IF Had(s) = {} THEN r.account = Null /\ r.mode = "LOCAL"
               ELSE r.mode = s.mode
                    /\ \E a \in FilledAccounts : a.id = r.account /\ a.org = s.org
  <2>1. s \in OldSettings
    OBVIOUS
  <2>2. NewSetting(s) \in FilledSettings /\ (s \in Linked => NewAccount(s) \in FilledAccounts)
    BY <2>1, FilledRow
  <2>3. NewSetting(s).org = s.org
    BY <2>1, NewSettingIs
  <2>4. CASE Had(s) = {}
    <3>1. NewSetting(s).account = Null /\ NewSetting(s).mode = "LOCAL"
      BY <1>2, <2>1, <2>4, NewSettingIs
    <3> QED
      BY <2>2, <2>3, <2>4, <3>1
  <2>5. CASE Had(s) # {}
    <3>1. s \in Linked
      BY <1>2, <2>1, <2>5
    <3>2. NewSetting(s).account = NewId(s) /\ NewSetting(s).mode = s.mode
      BY <2>1, <3>1, NewSettingIs
    <3>3. NewAccount(s).id = NewId(s) /\ NewAccount(s).org = s.org
      BY NewAccountIs
    <3> QED
      BY <2>2, <2>3, <2>5, <3>1, <3>2, <3>3
  <2> QED
    BY <2>4, <2>5
<1>4. ASSUME NEW s \in before.now["cloud_settings"].rows, NEW h \in Had(s), h.token # Null
      PROVE  \E a \in FilledAccounts : a.token = h.token
  <2>1. s \in OldSettings /\ s \in Linked
    BY <1>2
  <2>2. h = AccountOf(s)
    <3>1. h \in OldAccounts /\ h.id = s.account
      BY DEF Had
    <3> QED
      BY <2>1, <3>1, LinkedRows
  <2>3. PICK r \in Linked : KeepsSecret(r) /\ AccountOf(r).token = AccountOf(s).token
    BY <2>1, SecretKeeper
  <2>4. NewAccount(r) \in FilledAccounts /\ NewAccount(r).token = h.token
    <3>1. r \in OldSettings
      BY LinkedRows
    <3> QED
      BY <2>2, <2>3, <3>1, FilledRow, NewAccountIs
  <2> QED
    BY <2>4
<1> QED
  BY <1>3, <1>4 DEF Kept

\* Tables that were filled before are filled again with the same accounts.
LEMMA FilledAgain ==
  ASSUME Fillable, Owned(OldSettings, OldAccounts)
  PROVE  /\ \A s \in Linked : KeepsSecret(s) /\ AccountOf(s).org = s.org
         /\ \A s \in Linked : NewId(s) = s.account
         /\ \A a \in OldAccounts : \E s \in Linked : AccountOf(s) = a
<1>1. \A s \in Linked : AccountOf(s).org = s.org
  <2> SUFFICES ASSUME NEW s \in Linked
               PROVE  AccountOf(s).org = s.org
    OBVIOUS
  <2>1. s \in OldSettings /\ s.account \in Nat
        /\ \A a \in OldAccounts : a.id = s.account => a = AccountOf(s)
    BY LinkedRows
  <2>2. s.account # Null
    BY <2>1, NullAssumption
  <2>3. PICK a \in OldAccounts : a.id = s.account /\ a.org = s.org
    BY <2>1, <2>2 DEF Owned
  <2> QED
    BY <2>1, <2>3
<1>2. \A s \in Linked : KeepsSecret(s)
  <2> SUFFICES ASSUME NEW s \in Linked, NEW r \in Linked, r.org < s.org
               PROVE  /\ r.account # s.account
                      /\ AccountOf(s).token # Null => AccountOf(r).token # AccountOf(s).token
    BY DEF KeepsSecret
  <2>1. r.org \in Nat /\ s.org \in Nat /\ AccountOf(r) \in OldAccounts
        /\ AccountOf(s) \in OldAccounts
        /\ (r.account = s.account => AccountOf(r) = AccountOf(s))
    BY LinkedRows
  <2>2. AccountOf(r) # AccountOf(s)
    BY <1>1, <2>1
  <2> QED
    BY <2>1, <2>2 DEF Owned
<1>3. \A s \in Linked : NewId(s) = s.account
  BY <1>2, NewAccountIs
<1>4. ASSUME NEW a \in OldAccounts
      PROVE  \E s \in Linked : AccountOf(s) = a
  <2>1. PICK s \in OldSettings : s.account = a.id /\ s.mode = a.provider
    BY DEF Owned
  <2>2. s \in Linked
    BY <2>1 DEF Linked, UsedAccounts, OldAccounts
  <2> QED
    BY <2>1, <2>2, LinkedRows
<1> QED
  BY <1>1, <1>2, <1>3, <1>4

\* A later filling keeps what the first one gave.
LEMMA NextFilling ==
  ASSUME Fillable, Owned(OldSettings, OldAccounts), Kept(OldSettings, OldAccounts)
  PROVE  /\ Kept(FilledSettings, FilledAccounts)
         /\ \A a \in OldAccounts : \E n \in FilledAccounts : n.token = a.token
<1>1. \A a \in OldAccounts : \E n \in FilledAccounts : n.token = a.token
  <2> SUFFICES ASSUME NEW a \in OldAccounts
               PROVE  \E n \in FilledAccounts : n.token = a.token
    OBVIOUS
  <2>1. PICK s \in Linked : AccountOf(s) = a /\ KeepsSecret(s) /\ s \in OldSettings
    BY FilledAgain, LinkedRows
  <2>2. NewAccount(s) \in FilledAccounts /\ NewAccount(s).token = a.token
    BY <2>1, FilledRow, NewAccountIs
  <2> QED
    BY <2>2
<1>2. ASSUME NEW s \in before.now["cloud_settings"].rows
      PROVE  \E r \in FilledSettings : r.org = s.org /\
               IF Had(s) = {} THEN r.account = Null /\ r.mode = "LOCAL"
               ELSE r.mode = s.mode
                    /\ \E a \in FilledAccounts : a.id = r.account /\ a.org = s.org
  <2>1. PICK r \in OldSettings : r.org = s.org /\
           IF Had(s) = {} THEN r.account = Null /\ r.mode = "LOCAL"
           ELSE r.mode = s.mode /\ \E a \in OldAccounts : a.id = r.account /\ a.org = s.org
    BY DEF Kept
  <2>2. NewSetting(r) \in FilledSettings /\ NewSetting(r).org = s.org
        /\ (r \in Linked => NewAccount(r) \in FilledAccounts)
    BY <2>1, FilledRow, NewSettingIs
  <2>3. CASE Had(s) = {}
    <3>1. r \notin Linked
      BY <2>1, <2>3, LinkedRows, NullAssumption
    <3>2. NewSetting(r).account = Null /\ NewSetting(r).mode = "LOCAL"
      BY <3>1, NewSettingIs
    <3> QED
      BY <2>2, <2>3, <3>2
  <2>4. CASE Had(s) # {}
    <3>1. PICK a \in OldAccounts : a.id = r.account /\ a.org = s.org /\ r.mode = s.mode
      BY <2>1, <2>4
    <3>2. a.id \in Nat /\ a.id # Null
      BY NullAssumption DEF Fillable, AccountRows
    <3>3. PICK b \in OldAccounts : b.id = r.account /\ b.provider = r.mode
      BY <3>1, <3>2 DEF Owned
    <3>4. r \in Linked
      BY <3>3 DEF Linked, UsedAccounts, OldAccounts
    <3>5. NewSetting(r).account = NewId(r) /\ NewSetting(r).mode = s.mode
      BY <3>1, <3>4, NewSettingIs
    <3>6. NewAccount(r).id = NewId(r) /\ NewAccount(r).org = s.org
      BY <2>1, NewAccountIs
    <3> QED
      BY <2>2, <2>4, <3>4, <3>5, <3>6
  <2> QED
    BY <2>3, <2>4
<1>3. ASSUME NEW s \in before.now["cloud_settings"].rows, NEW h \in Had(s), h.token # Null
      PROVE  \E a \in FilledAccounts : a.token = h.token
  <2>1. PICK a \in OldAccounts : a.token = h.token
    BY <1>3 DEF Kept
  <2> QED
    BY <1>1, <2>1
<1> QED
  BY <1>1, <1>2, <1>3 DEF Kept

\* A mapping names the account its organization's settings name, or none.
MappingsOf(settings, mappings) ==
  \A m \in mappings : m.account # Null =>
    \E s \in settings : s.org = m.org /\ s.account = m.account

\* The mappings follow the settings of their organization.
LEMMA FilledMappings ==
  ASSUME Fillable, MappingRows(db.aside["cloud_folder_mappings"].rows)
  PROVE  MappingRows(NewMappings) /\ MappingsOf(FilledSettings, NewMappings)
<1> DEFINE rows == db.aside["cloud_folder_mappings"].rows
<1>1. \A n \in NewMappings : \E m \in rows :
        \/ n = [m EXCEPT !.account = Null]
        \/ \E s \in Linked : s.org = m.org /\ n = [m EXCEPT !.account = NewId(s)]
  <2> DEFINE OldId(m) ==
               IF m.account # Null THEN m.account
               ELSE LET s == {x \in OldSettings : x.org = m.org} IN
                    IF s = {} THEN Null ELSE (CHOOSE x \in s : TRUE).account
             Owner(m) == {s \in Linked : s.org = m.org /\ s.account = OldId(m)}
             unnamed == {x \in rows : OldId(x) = Null}
             named == {x \in rows : \E s \in Owner(x) : s.mode = x.provider}
  <2>1. NewMappings = {[m EXCEPT !.account = Null] : m \in unnamed}
           \cup {[m EXCEPT !.account = NewId(CHOOSE s \in Owner(m) : TRUE)] : m \in named}
    BY Zenon DEF NewMappings
  <2>2. \A m \in named : (CHOOSE s \in Owner(m) : TRUE) \in Owner(m)
    <3> SUFFICES ASSUME NEW m \in named
                 PROVE  (CHOOSE s \in Owner(m) : TRUE) \in Owner(m)
      BY Zenon
    <3>1. \E s : s \in Owner(m)
      BY Zenon
    <3> HIDE DEF Owner
    <3> QED
      BY <3>1, Zenon
  <2>3. \A m : \A s \in Owner(m) : s \in Linked /\ s.org = m.org
    OBVIOUS
  <2>4. unnamed \subseteq rows /\ named \subseteq rows
    OBVIOUS
  <2> HIDE DEF OldId, Owner, unnamed, named, rows
  <2> SUFFICES ASSUME NEW n \in NewMappings
               PROVE  \E m \in rows :
                        \/ n = [m EXCEPT !.account = Null]
                        \/ \E s \in Linked : s.org = m.org /\ n = [m EXCEPT !.account = NewId(s)]
    BY Zenon
  <2>5. CASE \E m \in unnamed : n = [m EXCEPT !.account = Null]
    BY <2>4, <2>5, Zenon
  <2>6. CASE \E m \in named : n = [m EXCEPT !.account = NewId(CHOOSE s \in Owner(m) : TRUE)]
    <3>1. PICK m \in named : n = [m EXCEPT !.account = NewId(CHOOSE s \in Owner(m) : TRUE)]
      BY <2>6
    <3> DEFINE s == CHOOSE x \in Owner(m) : TRUE
    <3>2. s \in Linked /\ s.org = m.org
      BY <2>2, <2>3, Zenon
    <3>3. n = [m EXCEPT !.account = NewId(s)]
      BY <3>1, Zenon
    <3> HIDE DEF s
    <3> QED
      BY <2>4, <3>2, <3>3, Zenon
  <2> QED
    BY <2>1, <2>5, <2>6, Zenon
<1>2. \A m \in rows : DOMAIN m = {"org", "provider", "account"}
  BY DEF MappingRows
<1>3. \A m \in rows : \A x : LET n == [m EXCEPT !.account = x] IN
        DOMAIN n = {"org", "provider", "account"} /\ n.account = x /\ n.org = m.org
  BY <1>2
<1> HIDE DEF rows
<1>4. MappingRows(NewMappings)
  <2> SUFFICES ASSUME NEW n \in NewMappings
               PROVE  DOMAIN n = {"org", "provider", "account"}
    BY DEF MappingRows
  <2> QED
    BY <1>1, <1>3
<1>5. ASSUME NEW n \in NewMappings, n.account # Null
      PROVE  \E s \in FilledSettings : s.org = n.org /\ s.account = n.account
  <2>1. PICK m \in rows : \/ n = [m EXCEPT !.account = Null]
                          \/ \E s \in Linked : s.org = m.org /\ n = [m EXCEPT !.account = NewId(s)]
    BY <1>1
  <2>2. n # [m EXCEPT !.account = Null]
    BY <1>3, <1>5
  <2>3. PICK s \in Linked : s.org = m.org /\ n = [m EXCEPT !.account = NewId(s)]
    BY <2>1, <2>2
  <2>4. n.account = NewId(s) /\ n.org = s.org
    BY <1>3, <2>3
  <2>5. s \in OldSettings
    BY LinkedRows
  <2>6. NewSetting(s) \in FilledSettings /\ NewSetting(s).org = s.org
        /\ NewSetting(s).account = NewId(s)
    BY <2>5, FilledRow, NewSettingIs
  <2> QED
    BY <2>4, <2>6
<1> QED
  BY <1>4, <1>5 DEF MappingsOf

-----------------------------------------------------------------------------
(* The tables of cloud accounts, step by step                              *)

\* The stages a table is put aside and dropped at.
PutAt(t) ==
  IF t = "cloud_settings" THEN 38 ELSE IF t = "cloud_folder_mappings" THEN 39 ELSE 40
DropAt(t) ==
  IF t = "cloud_folder_mappings" THEN 44 ELSE IF t = "cloud_settings" THEN 45 ELSE 46

\* The stages, and the tables, by name.
LEMMA CloudStages ==
  /\ PutAt("cloud_settings") = 38 /\ PutAt("cloud_folder_mappings") = 39
  /\ PutAt("cloud_accounts") = 40 /\ DropAt("cloud_folder_mappings") = 44
  /\ DropAt("cloud_settings") = 45 /\ DropAt("cloud_accounts") = 46
  /\ \A t \in Cloud : /\ PutAt(t) \in 38 .. 40 /\ DropAt(t) \in 44 .. 46
                      /\ t \in Tables /\ t \notin Evidence /\ t # "document_requests"
                      /\ t \in {"cloud_settings", "cloud_folder_mappings", "cloud_accounts"}
  BY CloudTables DEF PutAt, DropAt, Cloud

\* The rows stay, and the table is not taken away.
RowsStay(t) ==
  db'.now[t].rows = db.now[t].rows /\ (db.now[t] # NoTable => db'.now[t] # NoTable)

\* A table that is ensured keeps its rows.
LEMMA GrownStays ==
  ASSUME NEW t, Grown(t)
  PROVE  RowsStay(t)
BY TableForms DEF Grown, RowsStay

\* Where a table of cloud accounts is, stage by stage.
LEMMA CloudAside ==
  ASSUME UpgradeTypes, Upgrade, Advances, NEW t \in Cloud
  PROVE  /\ Stage = PutAt(t) =>
              db.aside[t] = NoTable /\ db'.now[t] = NoTable /\ db'.aside[t] = db.now[t]
         /\ Stage = DropAt(t) => db'.now[t] = db.now[t] /\ db'.aside[t] = NoTable
         /\ Stage \notin {PutAt(t), DropAt(t)} => db'.aside[t] = db.aside[t]
         /\ Stage \in 38 .. 40 /\ Stage # PutAt(t) => db'.now[t] = db.now[t]
<1>1. t \in Tables /\ t \notin Evidence /\ t # "document_requests"
      /\ t \in {"cloud_settings", "cloud_folder_mappings", "cloud_accounts"}
      /\ PutAt(t) \in 38 .. 40 /\ DropAt(t) \in 44 .. 46
  BY CloudStages
<1>2. CASE Stage \in 38 .. 40
  <2>1. \E u \in Cloud : PutAside(u, Stage, Stage + 1) /\ PutAt(u) = Stage
    BY <1>2, TablesAt, CloudStages DEF Cloud
  <2>2. PICK u \in Cloud : PutAside(u, Stage, Stage + 1) /\ PutAt(u) = Stage
    BY <2>1
  <2>3. u \in Tables /\ (u # t => PutAt(t) # PutAt(u))
    BY CloudStages
  <2>4. /\ \A x \in Tables \ {u} : db'.now[x] = db.now[x] /\ db'.aside[x] = db.aside[x]
        /\ db.aside[u] = NoTable /\ db'.now[u] = NoTable /\ db'.aside[u] = db.now[u]
    BY <2>2, <2>3, PutAsideAt
  <2> QED
    BY <1>1, <1>2, <2>2, <2>3, <2>4
<1>3. CASE Stage \in 44 .. 46
  <2>1. \E u \in Cloud : Dropped(u, Stage, Stage + 1) /\ DropAt(u) = Stage
    BY <1>3, TablesAt, CloudStages DEF Cloud
  <2>2. PICK u \in Cloud : Dropped(u, Stage, Stage + 1) /\ DropAt(u) = Stage
    BY <2>1
  <2>3. u \in Tables /\ (u # t => DropAt(t) # DropAt(u))
    BY CloudStages
  <2>4. /\ \A x \in Tables \ {u} : db'.aside[x] = db.aside[x]
        /\ db'.now = db.now /\ db'.aside[u] = NoTable
    BY <2>2, <2>3, DroppedAt
  <2> QED
    BY <1>1, <1>3, <2>2, <2>3, <2>4
<1>4. CASE Stage \notin 38 .. 40 \cup 44 .. 46
  <2>1. db'.aside[t] = db.aside[t]
    <3>1. CASE Stage \in 19 .. 23 \cup 26 .. 37
      BY <1>1, <3>1, TablesMove
    <3>2. CASE Stage \notin 19 .. 23 \cup 26 .. 37
      BY <1>4, <3>2, StageRange DEF Advances
    <3> QED
      BY <3>1, <3>2
  <2> QED
    BY <1>1, <1>4, <2>1
<1> QED
  BY <1>2, <1>3, <1>4

\* Its rows change only where they are written.
LEMMA CloudNow ==
  ASSUME UpgradeTypes, Upgrade, Advances, NEW t \in Cloud,
         Stage \notin {PutAt(t), 42}, Stage \in {2, 8} => t # "cloud_settings"
  PROVE  RowsStay(t)
<1>1. t \in Tables /\ t \notin Evidence /\ t # "document_requests"
      /\ PutAt(t) \in 38 .. 40 /\ DropAt(t) \in 44 .. 46
  BY CloudStages
<1>2. CASE Stage \in {1, 2, 8, 11, 14, 24, 41}
  BY <1>1, <1>2, TablesMove, GrownStays
<1>3. CASE Stage \in 19 .. 23 \cup 26 .. 37
  BY <1>1, <1>3, TablesMove DEF RowsStay
<1>4. CASE Stage \in 38 .. 40
  BY <1>4, CloudAside DEF RowsStay
<1>5. CASE Stage \notin {1, 2, 8, 11, 14, 24, 41, 42} \cup 19 .. 23 \cup 26 .. 40
  <2>1. db'.now = db.now
    BY <1>5, StageRange DEF Advances
  <2> QED
    BY <2>1 DEF RowsStay
<1> QED
  BY <1>2, <1>3, <1>4, <1>5, StageRange

\* Where settings are added.
LEMMA SettingsWritten ==
  ASSUME UpgradeTypes, Upgrade, Advances
  PROVE  LET rows == db.now["cloud_settings"].rows
             after == db'.now["cloud_settings"]
         IN  /\ Stage = 2 => after.rows = {Setting(Least(Orgs), "LOCAL", Null)}
             /\ Stage = 8 => /\ after.rows = rows \cup LocalSettings(rows)
                             /\ after # NoTable /\ db'.now["cloud_accounts"] # NoTable
<1> DEFINE t == "cloud_settings"
<1>1. t \in Tables /\ "cloud_accounts" \in Tables /\ t # "cloud_accounts"
  BY CloudTables
<1>2. CASE Stage = 2
  <2> DEFINE e == Ensured({"sync_jobs"}, "new")
             r == {Setting(Least(Orgs), "LOCAL", Null)}
  <2>1. db'.now = [e EXCEPT !["cloud_settings"].rows = r]
    BY <1>2, TablesAt, Zenon
  <2>2. DOMAIN e = Tables /\ \A x \in Tables : IsTable(e[x])
    BY EnsuredTables
  <2> HIDE DEF e, r
  <2>3. db'.now["cloud_settings"].rows = r
    BY <1>1, <2>1, <2>2, RowsWritten
  <2> QED
    BY <1>2, <2>3 DEF r
<1>3. CASE Stage = 8
  <2> DEFINE e == Ensured({"cloud_accounts", "cloud_settings", "sync_jobs"}, "old")
             r == e["cloud_settings"].rows \cup LocalSettings(e["cloud_settings"].rows)
  <2>1. db'.now = [e EXCEPT !["cloud_settings"].rows = r]
    BY <1>3, TablesAt, Zenon
  <2>2. DOMAIN e = Tables /\ \A x \in Tables : IsTable(e[x])
    BY EnsuredTables
  <2>3. e["cloud_settings"].rows = db.now["cloud_settings"].rows
    BY <1>1, EnsuredTables
  <2>4. /\ \A x \in {"cloud_accounts", "cloud_settings"} : e[x] # NoTable
    <3>1. \A x \in {"cloud_accounts", "cloud_settings"} :
            x \in Tables /\ x \in {"cloud_accounts", "cloud_settings", "sync_jobs"}
      BY <1>1
    <3>2. Empty("old") # NoTable
      BY TableForms
    <3> QED
      BY <3>1, <3>2, EnsuredTables
  <2>5. r = db.now["cloud_settings"].rows \cup LocalSettings(db.now["cloud_settings"].rows)
    BY <2>3
  <2> HIDE DEF e, r
  <2>6. /\ db'.now["cloud_settings"].rows = r
        /\ db'.now["cloud_settings"].shape = e["cloud_settings"].shape
        /\ db'.now["cloud_accounts"] = e["cloud_accounts"]
    BY <1>1, <2>1, <2>2, RowsWritten
  <2>7. db'.now["cloud_settings"] # NoTable
    <3> SUFFICES ASSUME db'.now["cloud_settings"] = NoTable
                 PROVE  FALSE
      OBVIOUS
    <3>1. r = {} /\ e["cloud_settings"].shape = "none"
      BY <2>6, TableForms
    <3>2. e["cloud_settings"].rows = {}
      BY <2>3, <2>5, <3>1
    <3> DEFINE u == e["cloud_settings"]
    <3>3. IsTable(u) /\ IsTable(NoTable) /\ u.shape = NoTable.shape /\ u.rows = NoTable.rows
      <4>1. IsTable(u)
        BY <1>1, <2>2
      <4> QED
        BY <3>1, <3>2, <4>1, TableForms
    <3> HIDE DEF u
    <3>4. u = NoTable
      BY <3>3, TableForms
    <3> QED
      BY <2>4, <3>4 DEF u
  <2> QED
    BY <1>3, <2>4, <2>5, <2>6, <2>7
<1> QED
  BY <1>2, <1>3

\* The three tables after the filling.
LEMMA CloudFilled ==
  ASSUME UpgradeTypes, Upgrade, Advances, Stage = 42
  PROVE  /\ db'.now["cloud_accounts"].rows = FilledAccounts
         /\ db'.now["cloud_settings"].rows = FilledSettings
         /\ db'.now["cloud_folder_mappings"].rows = NewMappings
<1>1. db'.now = [db.now EXCEPT
           !["cloud_accounts"].rows = {NewAccount(s) : s \in Linked},
           !["cloud_settings"].rows = {NewSetting(s) : s \in OldSettings}
                                       \cup LocalSettings({NewSetting(s) : s \in OldSettings}),
           !["cloud_folder_mappings"].rows = NewMappings]
  BY TablesAt, Zenon
<1>2. db'.now = Written(FilledAccounts, FilledSettings, NewMappings)
  BY <1>1, Zenon DEF Written, FilledAccounts, FilledSettings
<1> QED
  BY <1>2, CloudWritten

\* What the rows of a table are.
RowsOf(t, rows) ==
  /\ t = "cloud_settings" => SettingRows(rows)
  /\ t = "cloud_accounts" => AccountRows(rows)
  /\ t = "cloud_folder_mappings" => MappingRows(rows)

CloudForms == \A t \in Cloud : RowsOf(t, db.now[t].rows) /\ RowsOf(t, db.aside[t].rows)

\* The rows of the three tables keep their keys.
LEMMA FormsKept ==
  ASSUME UpgradeTypes, Way, Opened, CloudForms,
         (Upgrade /\ Advances) \/ Halted \/ Began \/ Stops \/ Same
  PROVE  CloudForms'
<1>1. CASE Upgrade /\ Advances
  <2>1. NoTable.rows = {} /\ \A t : RowsOf(t, {})
    <3>1. SettingRows({}) /\ MappingRows({})
      BY DEF SettingRows, MappingRows, Keyed
    <3>2. AccountRows({})
      BY FS_EmptySet DEF AccountRows, Keyed
    <3> QED
      BY <3>1, <3>2, TableForms DEF RowsOf
  <2>2. \A t \in Cloud : RowsOf(t, db'.aside[t].rows)
    <3> SUFFICES ASSUME NEW t \in Cloud
                 PROVE  RowsOf(t, db'.aside[t].rows)
      OBVIOUS
    <3>1. db'.aside[t] \in {db.aside[t], db.now[t], NoTable}
      BY <1>1, CloudAside
    <3> QED
      BY <2>1, <3>1 DEF CloudForms
  <2>3. \A t \in Cloud : RowsOf(t, db'.now[t].rows)
    <3> SUFFICES ASSUME NEW t \in Cloud
                 PROVE  RowsOf(t, db'.now[t].rows)
      OBVIOUS
    <3>1. t \in {"cloud_settings", "cloud_folder_mappings", "cloud_accounts"}
          /\ RowsOf(t, db.now[t].rows)
      BY CloudStages DEF CloudForms
    <3>2. CASE Stage = PutAt(t)
      BY <1>1, <2>1, <3>2, CloudAside
    <3>3. CASE Stage = 42
      <4>1. Fillable /\ MappingRows(db.aside["cloud_folder_mappings"].rows)
        BY CloudTables DEF CloudForms, RowsOf, Fillable, OldSettings, OldAccounts, Cloud
      <4>2. SettingRows(FilledSettings) /\ AccountRows(FilledAccounts) /\ MappingRows(NewMappings)
        BY <4>1, FilledForms, FilledMappings
      <4> QED
        BY <1>1, <3>1, <3>3, <4>2, CloudFilled DEF RowsOf
    <3>4. CASE t = "cloud_settings" /\ Stage = 2
      <4>1. Least(Orgs) \in Orgs
        BY OrderAssumption, LeastIn
      <4>2. SettingRows({Setting(Least(Orgs), "LOCAL", Null)})
        <5> DEFINE s == Setting(Least(Orgs), "LOCAL", Null)
        <5>1. s.org = Least(Orgs) /\ s = Setting(s.org, s.mode, s.account)
          BY DEF Setting
        <5> HIDE DEF s
        <5> QED
          BY <4>1, <5>1 DEF SettingRows, Keyed, s
      <4> QED
        BY <1>1, <3>4, <4>2, SettingsWritten DEF RowsOf
    <3>5. CASE t = "cloud_settings" /\ Stage = 8
      <4>1. SettingRows(db.now["cloud_settings"].rows)
        BY <3>1, <3>5 DEF RowsOf
      <4> QED
        BY <1>1, <3>5, <4>1, LocalAdded, SettingsWritten DEF RowsOf
    <3>6. CASE Stage \notin {PutAt(t), 42} /\ (Stage \in {2, 8} => t # "cloud_settings")
      BY <1>1, <3>1, <3>6, CloudNow DEF RowsStay
    <3> QED
      BY <3>2, <3>3, <3>4, <3>5, <3>6
  <2> QED
    BY <2>2, <2>3 DEF CloudForms
<1>2. CASE Halted \/ Began \/ Same
  BY <1>2 DEF Halted, Halts, Began, Same, CloudForms
<1>3. CASE Stops
  <2>1. db'.now = db.now /\ db'.aside = db.aside
    BY <1>3, StoppedAt
  <2> QED
    BY <2>1 DEF CloudForms
<1> QED
  BY <1>1, <1>2, <1>3

-----------------------------------------------------------------------------
(* Where the accounts are, and what they are worth                         *)

\* A table that was put aside is dropped, and while it is aside it is there.
CloudPlaces ==
  \A t \in Cloud :
    /\ Stage > DropAt(t) \/ Stage \in 1 .. 4 \/ before.version > 20 => db.aside[t] = NoTable
    /\ t # "cloud_folder_mappings" =>
         /\ Stage \in 9 .. PutAt(t) => db.now[t] # NoTable
         /\ Stage \in PutAt(t) + 1 .. DropAt(t) => db.aside[t] # NoTable

\* The statements up to version 21 are for databases of version 20 or less.
LEMMA StageOfOld ==
  ASSUME Way, Stage \in 1 .. 46
  PROVE  before.version \in 0 .. 20
<1>1. before.version \in 0 .. 24 /\ (before.made = {} => before.version = 0)
  BY LeftBefore, BaseZero
<1> QED
  BY <1>1 DEF Way

\* A table put aside is there until it is dropped.
LEMMA PlacesKept ==
  ASSUME UpgradeTypes, Way, Opened, CloudPlaces,
         (Upgrade /\ Advances) \/ Halted \/ Began \/ Stops \/ Same
  PROVE  CloudPlaces'
<1> SUFFICES ASSUME NEW t \in Cloud
             PROVE  /\ Stage' > DropAt(t) \/ Stage' \in 1 .. 4 \/ before'.version > 20
                         => db'.aside[t] = NoTable
                    /\ t # "cloud_folder_mappings" =>
                         /\ Stage' \in 9 .. PutAt(t) => db'.now[t] # NoTable
                         /\ Stage' \in PutAt(t) + 1 .. DropAt(t) => db'.aside[t] # NoTable
  BY DEF CloudPlaces
<1>1. PutAt(t) \in 38 .. 40 /\ DropAt(t) \in 44 .. 46
  BY CloudStages
<1>2. /\ Stage > DropAt(t) \/ Stage \in 1 .. 4 \/ before.version > 20 => db.aside[t] = NoTable
      /\ t # "cloud_folder_mappings" =>
           /\ Stage \in 9 .. PutAt(t) => db.now[t] # NoTable
           /\ Stage \in PutAt(t) + 1 .. DropAt(t) => db.aside[t] # NoTable
  BY DEF CloudPlaces
<1>3. CASE Upgrade /\ Advances
  <2>1. /\ Stage = PutAt(t) =>
             db.aside[t] = NoTable /\ db'.now[t] = NoTable /\ db'.aside[t] = db.now[t]
        /\ Stage = DropAt(t) => db'.now[t] = db.now[t] /\ db'.aside[t] = NoTable
        /\ Stage \notin {PutAt(t), DropAt(t)} => db'.aside[t] = db.aside[t]
    BY <1>3, CloudAside
  <2>2. /\ Stage \in 1 .. 51 /\ before' = before
        /\ Stage' = Stage + 1 \/ (Stage = 4 /\ Stage' = 52) \/ (Stage = 12 /\ Stage' = 14)
           \/ (Stage = 19 /\ Stage' = 24) \/ (Stage = 23 /\ Stage' = 23)
    BY <1>3 DEF Advances
  <2>3. before.version > 20 => Stage \notin 1 .. 46
    <3>1. Stage \in 1 .. 46 => before.version \in 0 .. 20
      BY StageOfOld
    <3> QED
      BY <3>1
  <2>4. db.now[t] # NoTable /\ Stage \notin {PutAt(t), 42} => db'.now[t] # NoTable
    <3>1. CASE t = "cloud_settings" /\ Stage = 2
      <4>1. db'.now[t].rows # {}
        BY <1>3, <3>1, SettingsWritten
      <4> QED
        BY <4>1, TableForms
    <3>2. CASE t = "cloud_settings" /\ Stage = 8
      BY <1>3, <3>2, SettingsWritten
    <3>3. CASE ~(t = "cloud_settings" /\ Stage \in {2, 8})
      BY <1>3, <3>3, CloudNow DEF RowsStay
    <3> QED
      BY <3>1, <3>2, <3>3
  <2>5. Stage = 8 /\ t # "cloud_folder_mappings" => db'.now[t] # NoTable
    BY <1>3, SettingsWritten DEF Cloud
  <2> QED
    BY <1>1, <1>2, <2>1, <2>2, <2>3, <2>4, <2>5
<1>4. CASE Halted
  <2>1. Stage' = 0 /\ db' = db /\ before' = before
    BY <1>4 DEF Halted, Halts
  <2> QED
    BY <1>1, <1>2, <2>1
<1>5. CASE Began
  <2>1. UNCHANGED <<db, before, hurt>> /\ before.version \in 0 .. 24
        /\ (before.version <= 20 => Stage' \in {1, 5, 6})
        /\ (before.version > 20 => Stage' \in {47, 48, 49, 52})
        /\ (Stage' = 1 => db = before)
    BY <1>5, BeganAt
  <2>2. Stage' = 1 => db'.aside[t] = NoTable
    <3>1. before.aside[t] = NoTable
      BY CloudStages, NothingAside
    <3> QED
      BY <2>1, <3>1
  <2> QED
    BY <1>1, <1>2, <2>1, <2>2
<1>6. CASE Stops
  <2>1. Stage' = 0 /\ before' = before /\ db'.now = db.now /\ db'.aside = db.aside
    BY <1>6, StoppedAt DEF Stopped
  <2> QED
    BY <1>1, <1>2, <2>1
<1>7. CASE Same
  BY <1>2, <1>7 DEF Same
<1> QED
  BY <1>3, <1>4, <1>5, <1>6, <1>7

\* The table the rest of the script goes on from.
Source(t) == IF Stage \in PutAt(t) + 1 .. 42 THEN db.aside[t] ELSE db.now[t]

\* What is put aside was put there by this start.
PutByThis == \A t \in Cloud : Stage <= PutAt(t) => db.aside[t] = NoTable

AsBefore(settings, accounts) ==
  /\ accounts = before.now["cloud_accounts"].rows
  /\ before.now["cloud_settings"].rows \subseteq settings

Separate(settings, accounts) == Owned(settings, accounts) /\ Kept(settings, accounts)

\* The accounts are those of the old database, or each has its owner.
Sources ==
  LET settings == Source("cloud_settings").rows
      accounts == Source("cloud_accounts").rows
  IN  /\ Stage \in 1 .. 4 => AsBefore(settings, accounts)
      /\ before.version <= 20 /\ PutByThis =>
           \/ Stage <= 42 /\ AsBefore(settings, accounts)
           \/ Separate(settings, accounts)
           \/ Stage = 52 /\ before.version = 0

\* What the script goes on from changes only where rows are written.
LEMMA SourceStays ==
  ASSUME UpgradeTypes, Upgrade, Advances, NEW t \in Cloud, Stage # 42,
         Stage \in {2, 8} => t # "cloud_settings"
  PROVE  Source(t)'.rows = Source(t).rows
<1>1. PutAt(t) \in 38 .. 40 /\ DropAt(t) \in 44 .. 46
  BY CloudStages
<1>2. /\ Stage = PutAt(t) => db'.aside[t] = db.now[t]
      /\ Stage \notin {PutAt(t), DropAt(t)} => db'.aside[t] = db.aside[t]
  BY CloudAside
<1>3. Stage # PutAt(t) => db'.now[t].rows = db.now[t].rows
  BY CloudNow DEF RowsStay
<1>4. /\ Stage \in 1 .. 51
      /\ Stage' = Stage + 1 \/ (Stage = 4 /\ Stage' = 52) \/ (Stage = 12 /\ Stage' = 14)
           \/ (Stage = 19 /\ Stage' = 24) \/ (Stage = 23 /\ Stage' = 23)
  BY DEF Advances
<1>5. CASE Stage < PutAt(t) \/ Stage > 42
  <2>1. Stage \notin PutAt(t) + 1 .. 42 /\ Stage' \notin PutAt(t) + 1 .. 42 /\ Stage # PutAt(t)
    BY <1>1, <1>4, <1>5
  <2> QED
    BY <1>3, <2>1 DEF Source
<1>6. CASE Stage = PutAt(t)
  <2>1. Stage \notin PutAt(t) + 1 .. 42 /\ Stage' \in PutAt(t) + 1 .. 42
    BY <1>1, <1>4, <1>6
  <2> QED
    BY <1>2, <1>6, <2>1 DEF Source
<1>7. CASE Stage \in PutAt(t) + 1 .. 41
  <2>1. Stage \in PutAt(t) + 1 .. 42 /\ Stage' \in PutAt(t) + 1 .. 42
        /\ Stage \notin {PutAt(t), DropAt(t)}
    BY <1>1, <1>4, <1>7
  <2> QED
    BY <1>2, <2>1 DEF Source
<1> QED
  BY <1>1, <1>4, <1>5, <1>6, <1>7

\* A start that gets further found nothing in its way.
LEMMA PutByThisBefore ==
  ASSUME UpgradeTypes, CloudPlaces, Upgrade, Advances, PutByThis'
  PROVE  PutByThis
<1> SUFFICES ASSUME NEW t \in Cloud, Stage <= PutAt(t)
             PROVE  db.aside[t] = NoTable
  BY DEF PutByThis
<1>1. PutAt(t) \in 38 .. 40 /\ DropAt(t) \in 44 .. 46
  BY CloudStages
<1>2. /\ Stage = PutAt(t) => db.aside[t] = NoTable
      /\ Stage \notin {PutAt(t), DropAt(t)} => db'.aside[t] = db.aside[t]
  BY CloudAside
<1>3. Stage = 4 => db.aside[t] = NoTable
  BY DEF CloudPlaces
<1>4. Stage < PutAt(t) => Stage = 4 \/ Stage' <= PutAt(t)
  BY <1>1 DEF Advances
<1>5. Stage' <= PutAt(t) => db'.aside[t] = NoTable
  BY DEF PutByThis
<1>6. Stage \in 1 .. 51
  BY DEF Advances
<1>7. Stage = PutAt(t) \/ (Stage < PutAt(t) /\ Stage # PutAt(t) /\ Stage # DropAt(t))
  BY <1>1, <1>6
<1> QED
  BY <1>2, <1>3, <1>4, <1>5, <1>7

\* More settings of organizations that are local spoil nothing.
LEMMA SeparateGrows ==
  ASSUME NEW rows, NEW accounts, Separate(rows, accounts)
  PROVE  Separate(rows \cup LocalSettings(rows), accounts)
<1>1. \A s \in LocalSettings(rows) : s.account = Null /\ s.mode = "LOCAL"
  BY LocalRows
<1>2. Owned(rows \cup LocalSettings(rows), accounts)
  BY <1>1 DEF Separate, Owned
<1>3. Kept(rows \cup LocalSettings(rows), accounts)
  <2>1. Kept(rows, accounts) /\ rows \subseteq rows \cup LocalSettings(rows)
    BY DEF Separate
  <2> DEFINE all == rows \cup LocalSettings(rows)
  <2>2. rows \subseteq all
    BY <2>1
  <2> HIDE DEF all
  <2>3. Kept(all, accounts)
    BY <2>1, <2>2 DEF Kept
  <2> QED
    BY <2>3 DEF all
<1> QED
  BY <1>2, <1>3 DEF Separate

\* The filling gives each organization its own account, whether the tables put
\* aside are those of the old database or were filled before.
LEMMA FilledApart ==
  ASSUME CloudForms, Way, Sources, Stage = 42
  PROVE  /\ Separate(FilledSettings, FilledAccounts)
         /\ OldAccounts = before.now["cloud_accounts"].rows
            \/ \A a \in OldAccounts : \E n \in FilledAccounts : n.token = a.token
<1>1. Fillable
  BY CloudTables DEF CloudForms, RowsOf, Fillable, OldSettings, OldAccounts, Cloud
<1>2. Source("cloud_settings").rows = OldSettings /\ Source("cloud_accounts").rows = OldAccounts
  BY CloudStages DEF Source, OldSettings, OldAccounts
<1>3. before.version <= 20 /\ PutByThis
  <2>1. before.version \in 0 .. 20
    BY StageOfOld
  <2>2. \A t \in Cloud : ~(Stage <= PutAt(t))
    <3>1. \A t \in Cloud : PutAt(t) \in 38 .. 40
      BY CloudStages
    <3> QED
      BY <3>1
  <2> QED
    BY <2>1, <2>2 DEF PutByThis
<1>4. AsBefore(OldSettings, OldAccounts) \/ Separate(OldSettings, OldAccounts)
  BY <1>2, <1>3 DEF Sources
<1>5. CASE AsBefore(OldSettings, OldAccounts)
  BY <1>1, <1>5, FilledForms, FirstFilling DEF AsBefore, Separate
<1>6. CASE Separate(OldSettings, OldAccounts)
  BY <1>1, <1>6, FilledForms, NextFilling DEF Separate
<1> QED
  BY <1>4, <1>5, <1>6

\* The accounts are as before until they are filled, and owned from then on.
LEMMA SourcesKept ==
  ASSUME UpgradeTypes, Way, Opened, CloudForms, CloudPlaces, Sources,
         (Upgrade /\ Advances) \/ Halted \/ Began \/ Stops \/ Same
  PROVE  Sources'
<1> DEFINE settings == Source("cloud_settings").rows
           accounts == Source("cloud_accounts").rows
<1>1. /\ "cloud_settings" \in Cloud /\ "cloud_accounts" \in Cloud
      /\ PutAt("cloud_settings") = 38 /\ PutAt("cloud_accounts") = 40
      /\ DropAt("cloud_settings") = 45 /\ DropAt("cloud_accounts") = 46
      /\ "cloud_settings" # "cloud_accounts" /\ "cloud_accounts" # "cloud_folder_mappings"
      /\ "cloud_settings" # "cloud_folder_mappings"
  BY CloudStages DEF Cloud
<1>2. /\ Stage \in 1 .. 4 => AsBefore(settings, accounts)
      /\ before.version <= 20 /\ PutByThis =>
           \/ Stage <= 42 /\ AsBefore(settings, accounts)
           \/ Separate(settings, accounts)
           \/ Stage = 52 /\ before.version = 0
  BY DEF Sources
<1>3. SUFFICES /\ Stage' \in 1 .. 4 => AsBefore(settings, accounts)'
               /\ before'.version <= 20 /\ PutByThis' =>
                    \/ Stage' <= 42 /\ AsBefore(settings, accounts)'
                    \/ Separate(settings, accounts)'
                    \/ Stage' = 52 /\ before'.version = 0
  BY DEF Sources
<1>4. CASE Upgrade /\ Advances
  <2>1. /\ Stage \in 1 .. 51 /\ before' = before
        /\ Stage' = Stage + 1 \/ (Stage = 4 /\ Stage' = 52) \/ (Stage = 12 /\ Stage' = 14)
           \/ (Stage = 19 /\ Stage' = 24) \/ (Stage = 23 /\ Stage' = 23)
    BY <1>4 DEF Advances
  <2>2. PutByThis' => PutByThis
    BY <1>4, PutByThisBefore
  <2>3. Stage = 4 => before.version = 0
    BY LeftBefore, BaseZero DEF Way
  <2>4. CASE Stage = 42
    <3>1. settings' = FilledSettings /\ accounts' = FilledAccounts
      <4>1. Stage' = 43
        BY <2>1, <2>4
      <4>2. Source("cloud_settings")' = db'.now["cloud_settings"]
            /\ Source("cloud_accounts")' = db'.now["cloud_accounts"]
        BY <1>1, <4>1 DEF Source
      <4> QED
        BY <1>4, <2>4, <4>2, CloudFilled
    <3>2. Separate(FilledSettings, FilledAccounts)
      BY <2>4, FilledApart
    <3>3. Separate(settings, accounts)'
      BY <2>1, <3>1, <3>2 DEF Separate, Kept, Had, Owned
    <3> QED
      BY <2>1, <2>4, <3>3
  <2>5. CASE Stage = 8
    <3>1. accounts' = accounts
      BY <1>1, <1>4, <2>5, SourceStays
    <3>2. settings' = settings \cup LocalSettings(settings)
      <4>1. Stage' = 9
        BY <2>1, <2>5
      <4>2. Source("cloud_settings")' = db'.now["cloud_settings"]
            /\ Source("cloud_settings") = db.now["cloud_settings"]
        BY <1>1, <2>5, <4>1 DEF Source
      <4> QED
        BY <1>4, <2>5, <4>2, SettingsWritten
    <3>3. AsBefore(settings, accounts) => AsBefore(settings, accounts)'
      BY <2>1, <3>1, <3>2 DEF AsBefore
    <3>4. Separate(settings, accounts) => Separate(settings, accounts)'
      <4>1. Separate(settings, accounts) => Separate(settings \cup LocalSettings(settings), accounts)
        BY SeparateGrows
      <4> HIDE DEF settings, accounts
      <4>2. Separate(settings', accounts') => Separate(settings, accounts)'
        BY <2>1 DEF Separate, Kept, Had, Owned
      <4> QED
        BY <3>1, <3>2, <4>1, <4>2
    <3> HIDE DEF settings, accounts
    <3> QED
      BY <1>2, <2>1, <2>2, <2>5, <3>3, <3>4
  <2>6. CASE Stage = 2
    <3>1. accounts' = accounts
      BY <1>1, <1>4, <2>6, SourceStays
    <3>2. before.now["cloud_settings"].rows = {}
      <4>1. before = Base(0)
        BY <2>6, LeftBefore DEF Way
      <4> QED
        BY <4>1, BaseZero, CloudTables, TableForms
    <3>3. AsBefore(settings, accounts)'
      BY <1>2, <2>1, <2>6, <3>1, <3>2 DEF AsBefore
    <3> HIDE DEF settings, accounts
    <3> QED
      BY <2>1, <2>6, <3>3
  <2>7. CASE Stage \notin {2, 8, 42}
    <3>1. settings' = settings /\ accounts' = accounts
      BY <1>1, <1>4, <2>7, SourceStays
    <3> HIDE DEF settings, accounts
    <3>2. /\ AsBefore(settings, accounts) => AsBefore(settings, accounts)'
          /\ Separate(settings, accounts) => Separate(settings, accounts)'
      BY <2>1, <3>1 DEF AsBefore, Separate, Kept, Had, Owned
    <3> QED
      BY <1>2, <2>1, <2>2, <2>3, <2>7, <3>2
  <2> QED
    BY <2>4, <2>5, <2>6, <2>7
<1>5. ASSUME Stage' = 0, before' = before, db'.now = db.now, db'.aside = db.aside,
             Stage \in 0 .. 51
      PROVE  Sources'
  <2>1. CASE Stage \in 39 .. 46
    <3>1. db.aside["cloud_settings"] # NoTable \/ db.aside["cloud_accounts"] # NoTable
      BY <1>1, <2>1 DEF CloudPlaces
    <3>2. ~PutByThis'
      BY <1>1, <1>5, <3>1 DEF PutByThis
    <3> QED
      BY <1>5, <3>2 DEF Sources
  <2>2. CASE Stage \notin 39 .. 46
    <3>1. settings' = settings /\ accounts' = accounts
      BY <1>1, <1>5, <2>2 DEF Source
    <3>2. PutByThis' => PutByThis
      <4>1. \A t \in Cloud : Stage' <= PutAt(t)
        <5>1. \A t \in Cloud : PutAt(t) \in 38 .. 40
          BY CloudStages
        <5> QED
          BY <1>5, <5>1
      <4> QED
        BY <1>5, <4>1 DEF PutByThis
    <3> HIDE DEF settings, accounts
    <3>3. /\ AsBefore(settings, accounts) => AsBefore(settings, accounts)'
          /\ Separate(settings, accounts) => Separate(settings, accounts)'
      BY <1>5, <3>1 DEF AsBefore, Separate, Kept, Had, Owned
    <3> QED
      BY <1>2, <1>5, <3>2, <3>3 DEF Sources, settings, accounts
  <2> QED
    BY <2>1, <2>2
<1>6. CASE Halted
  BY <1>5, <1>6 DEF Halted, Halts, Sources
<1>7. CASE Began
  <2>1. UNCHANGED <<db, before, hurt>> /\ Stage = 0 /\ before.version \in 0 .. 24
        /\ (before.version <= 20 => Stage' \in {1, 5, 6})
        /\ (before.version > 20 => Stage' \in {47, 48, 49, 52})
        /\ (Stage' = 1 => db = before)
    BY <1>7, BeganAt
  <2>2. Source("cloud_settings") = db.now["cloud_settings"]
        /\ Source("cloud_accounts") = db.now["cloud_accounts"]
    BY <1>1, <2>1 DEF Source
  <2>3. Source("cloud_settings")' = db.now["cloud_settings"]
        /\ Source("cloud_accounts")' = db.now["cloud_accounts"]
    BY <1>1, <2>1 DEF Source
  <2>4. settings' = settings /\ accounts' = accounts
    BY <2>2, <2>3
  <2>5. Stage' = 1 => AsBefore(settings, accounts)
    BY <2>1, <2>2 DEF AsBefore
  <2>6. before.version <= 20 /\ PutByThis' => PutByThis
    <3>1. \A t \in Cloud : PutAt(t) \in 38 .. 40
      BY CloudStages
    <3> QED
      BY <2>1, <3>1 DEF PutByThis
  <2> HIDE DEF settings, accounts
  <2>7. /\ AsBefore(settings, accounts) => AsBefore(settings, accounts)'
        /\ Separate(settings, accounts) => Separate(settings, accounts)'
    BY <2>1, <2>4 DEF AsBefore, Separate, Kept, Had, Owned
  <2> QED
    BY <1>2, <2>1, <2>5, <2>6, <2>7
<1>8. CASE Stops
  <2>1. Stage' = 0 /\ before' = before /\ db'.now = db.now /\ db'.aside = db.aside
        /\ Stage \in 1 .. 51
    BY <1>8, StoppedAt DEF Stopped
  <2>2. Sources'
    BY <1>5, <2>1
  <2> QED
    BY <2>2 DEF Sources
<1>9. CASE Same
  <2>1. settings' = settings /\ accounts' = accounts /\ Stage' = Stage /\ before' = before
        /\ PutByThis' = PutByThis
    BY <1>9 DEF Same, Source, PutByThis
  <2> HIDE DEF settings, accounts
  <2>2. /\ AsBefore(settings, accounts) => AsBefore(settings, accounts)'
        /\ Separate(settings, accounts) => Separate(settings, accounts)'
    BY <2>1 DEF AsBefore, Separate, Kept, Had, Owned
  <2> QED
    BY <1>2, <2>1, <2>2
<1> QED
  BY <1>4, <1>6, <1>7, <1>8, <1>9

\* Once filled, the mappings name the accounts of their organization.
MappingsFilled ==
  Stage \in 43 .. 52 /\ before.version \in 1 .. 20 =>
    MappingsOf(db.now["cloud_settings"].rows, db.now["cloud_folder_mappings"].rows)

\* The mappings stay as they were filled.
LEMMA MappingsKept ==
  ASSUME UpgradeTypes, Way, Opened, CloudForms, MappingsFilled,
         (Upgrade /\ Advances) \/ Halted \/ Began \/ Stops \/ Same
  PROVE  MappingsFilled'
<1>1. CASE Upgrade /\ Advances
  <2>1. /\ Stage \in 1 .. 51 /\ before' = before
        /\ Stage' = Stage + 1 \/ (Stage = 4 /\ Stage' = 52) \/ (Stage = 12 /\ Stage' = 14)
           \/ (Stage = 19 /\ Stage' = 24) \/ (Stage = 23 /\ Stage' = 23)
    BY <1>1 DEF Advances
  <2>2. Stage = 4 => before.version = 0
    BY LeftBefore, BaseZero DEF Way
  <2>3. CASE Stage = 42
    <3>1. Fillable /\ MappingRows(db.aside["cloud_folder_mappings"].rows)
      BY CloudTables DEF CloudForms, RowsOf, Fillable, OldSettings, OldAccounts, Cloud
    <3>2. MappingsOf(FilledSettings, NewMappings)
      BY <3>1, FilledMappings
    <3>3. MappingsOf(db'.now["cloud_settings"].rows, db'.now["cloud_folder_mappings"].rows)
      BY <1>1, <2>3, <3>2, CloudFilled
    <3> QED
      BY <3>3 DEF MappingsFilled, MappingsOf
  <2>4. CASE Stage \in 43 .. 51
    <3>1. \A t \in Cloud : db'.now[t].rows = db.now[t].rows
      <4> SUFFICES ASSUME NEW t \in Cloud
                   PROVE  db'.now[t].rows = db.now[t].rows
        OBVIOUS
      <4>1. Stage \notin {PutAt(t), 42} /\ Stage \notin {2, 8}
        <5>1. PutAt(t) \in 38 .. 40
          BY CloudStages
        <5> QED
          BY <2>4, <5>1
      <4> QED
        BY <1>1, <4>1, CloudNow DEF RowsStay
    <3>2. db'.now["cloud_settings"].rows = db.now["cloud_settings"].rows
          /\ db'.now["cloud_folder_mappings"].rows = db.now["cloud_folder_mappings"].rows
      BY <3>1 DEF Cloud
    <3> QED
      BY <2>1, <2>4, <3>2 DEF MappingsFilled, MappingsOf
  <2>5. CASE Stage \notin 42 .. 51
    BY <2>1, <2>2, <2>5 DEF MappingsFilled
  <2> QED
    BY <2>3, <2>4, <2>5
<1>2. CASE Halted
  BY <1>2 DEF Halted, Halts, MappingsFilled
<1>3. CASE Began
  <2>1. before' = before /\ (before.version <= 20 => Stage' \in {1, 5, 6})
    BY <1>3, BeganAt
  <2> QED
    BY <2>1 DEF MappingsFilled
<1>4. CASE Stops
  BY <1>4 DEF Stops, MappingsFilled
<1>5. CASE Same
  BY <1>5 DEF Same, MappingsFilled, MappingsOf
<1> QED
  BY <1>1, <1>2, <1>3, <1>4, <1>5

\* The secrets of the old database are with an account, put aside or listed.
SecretsHeld ==
  LET now == Secrets(db.now["cloud_accounts"])
      aside == Secrets(db.aside["cloud_accounts"])
      old == Secrets(before.now["cloud_accounts"])
  IN  /\ old \subseteq now \cup aside \cup db.orphans
      /\ Stage \in 41 .. 43 => old \subseteq aside \cup db.orphans
      /\ Stage = 43 => aside \subseteq now \/ old \subseteq aside
      /\ Stage \in 44 .. 46 => old \subseteq now \cup db.orphans

\* The secrets of a table are those of its rows.
LEMMA SecretsOfRows ==
  /\ Secrets(NoTable) = {}
  /\ \A t, u : t.rows = u.rows => Secrets(t) = Secrets(u)
BY TableForms DEF Secrets

\* No secret is lost at any stage.
LEMMA SecretsKept ==
  ASSUME UpgradeTypes, Way, Opened, CloudForms, Sources, SecretsHeld,
         (Upgrade /\ Advances) \/ Halted \/ Began \/ Stops \/ Same
  PROVE  SecretsHeld'
<1> DEFINE now == Secrets(db.now["cloud_accounts"])
           aside == Secrets(db.aside["cloud_accounts"])
           old == Secrets(before.now["cloud_accounts"])
<1>1. /\ old \subseteq now \cup aside \cup db.orphans
      /\ Stage \in 41 .. 43 => old \subseteq aside \cup db.orphans
      /\ Stage = 43 => aside \subseteq now \/ old \subseteq aside
      /\ Stage \in 44 .. 46 => old \subseteq now \cup db.orphans
  BY DEF SecretsHeld
<1>2. SUFFICES /\ old' \subseteq now' \cup aside' \cup db'.orphans
               /\ Stage' \in 41 .. 43 => old' \subseteq aside' \cup db'.orphans
               /\ Stage' = 43 => aside' \subseteq now' \/ old' \subseteq aside'
               /\ Stage' \in 44 .. 46 => old' \subseteq now' \cup db'.orphans
  BY DEF SecretsHeld
<1>3. CASE Upgrade /\ Advances
  <2>1. /\ Stage \in 1 .. 51 /\ old' = old
        /\ Stage' = Stage + 1 \/ (Stage = 4 /\ Stage' = 52) \/ (Stage = 12 /\ Stage' = 14)
           \/ (Stage = 19 /\ Stage' = 24) \/ (Stage = 23 /\ Stage' = 23)
        /\ Stage # 43 => db'.orphans = db.orphans
    BY <1>3 DEF Advances
  <2>2. /\ "cloud_accounts" \in Cloud /\ "cloud_accounts" # "cloud_settings"
        /\ PutAt("cloud_accounts") = 40 /\ DropAt("cloud_accounts") = 46
    BY CloudStages DEF Cloud
  <2>3. /\ Stage = 40 => now' = {} /\ aside = {} /\ aside' = now
        /\ Stage = 46 => aside' = {}
        /\ Stage \notin {40, 46} => aside' = aside
    BY <1>3, <2>2, CloudAside, SecretsOfRows
  <2>4. Stage \notin {40, 42} => now' = now
    BY <1>3, <2>2, CloudNow, SecretsOfRows DEF RowsStay
  <2>5. CASE Stage = 42
    <3>1. db'.now["cloud_accounts"].rows = FilledAccounts
      BY <1>3, <2>5, CloudFilled
    <3>2. old = aside \/ aside \subseteq now'
      <4>1. \/ db.aside["cloud_accounts"].rows = before.now["cloud_accounts"].rows
            \/ \A a \in db.aside["cloud_accounts"].rows :
                 \E n \in db'.now["cloud_accounts"].rows : n.token = a.token
        BY <2>5, <3>1, FilledApart DEF OldAccounts
      <4>2. CASE db.aside["cloud_accounts"].rows = before.now["cloud_accounts"].rows
        BY <4>2, SecretsOfRows
      <4>3. CASE \A a \in db.aside["cloud_accounts"].rows :
                   \E n \in db'.now["cloud_accounts"].rows : n.token = a.token
        BY <4>3 DEF Secrets
      <4> QED
        BY <4>1, <4>2, <4>3
    <3> HIDE DEF now, aside, old
    <3> QED
      BY <1>1, <2>1, <2>3, <2>5, <3>2
  <2>6. CASE Stage = 43
    <3>1. db'.orphans = IF aside \ now = {} THEN db.orphans ELSE aside \ now
      <4>1. ListOrphans
        BY <1>3, <2>6, StageActions
      <4>2. db' = [db EXCEPT !.orphans = IF aside \ now = {} THEN db.orphans ELSE aside \ now]
        BY <4>1, Zenon DEF ListOrphans
      <4> DEFINE v == IF aside \ now = {} THEN db.orphans ELSE aside \ now
      <4>3. db' = [db EXCEPT !.orphans = v]
        BY <4>2
      <4>4. "orphans" \in DOMAIN db
        BY DEF UpgradeTypes, Fields
      <4> HIDE DEF v
      <4>5. db'.orphans = v
        BY <4>3, <4>4
      <4> QED
        BY <4>5 DEF v
    <3> HIDE DEF now, aside, old
    <3> QED
      BY <1>1, <2>1, <2>3, <2>4, <2>6, <3>1
  <2>7. CASE Stage = 40
    <3> HIDE DEF now, aside, old
    <3> QED
      BY <1>1, <2>1, <2>3, <2>7
  <2>8. CASE Stage \notin {40, 42, 43}
    <3> HIDE DEF now, aside, old
    <3> QED
      BY <1>1, <2>1, <2>3, <2>4, <2>8
  <2> QED
    BY <2>5, <2>6, <2>7, <2>8
<1>4. ASSUME before' = before, db'.now = db.now, db'.aside = db.aside, db'.orphans = db.orphans,
             Stage' \notin 41 .. 46 \/ Stage' = Stage
      PROVE  SecretsHeld'
  <2>1. now' = now /\ aside' = aside /\ old' = old
    BY <1>4
  <2> HIDE DEF now, aside, old
  <2> QED
    BY <1>1, <1>4, <2>1 DEF SecretsHeld, now, aside, old
<1>5. CASE Halted \/ Same
  BY <1>4, <1>5 DEF Halted, Halts, Same, SecretsHeld
<1>6. CASE Began
  <2>1. UNCHANGED <<db, before, hurt>> /\ before.version \in 0 .. 24
        /\ (before.version <= 20 => Stage' \in {1, 5, 6})
        /\ (before.version > 20 => Stage' \in {47, 48, 49, 52})
    BY <1>6, BeganAt
  <2>2. Stage' \notin 41 .. 46
    BY <2>1
  <2>3. SecretsHeld'
    BY <1>4, <2>1, <2>2
  <2> QED
    BY <2>3 DEF SecretsHeld
<1>7. CASE Stops
  <2>1. Stage' = 0 /\ before' = before /\ db'.now = db.now /\ db'.aside = db.aside
        /\ db'.orphans = db.orphans
    BY <1>7, StoppedAt DEF Stopped
  <2>2. SecretsHeld'
    BY <1>4, <2>1
  <2> QED
    BY <2>2 DEF SecretsHeld
<1> QED
  BY <1>3, <1>5, <1>6, <1>7

-----------------------------------------------------------------------------
(* The upgrade keeps the database                                          *)

UpgradeInv ==
  /\ UpgradeTypes /\ Way /\ Opened
  /\ Space /\ Profiles /\ Mounts /\ Admins /\ Jobs /\ Audit
  /\ EvidenceHeld /\ Requests
  /\ CloudForms /\ CloudPlaces /\ Sources /\ MappingsFilled /\ SecretsHeld

\* The program is started on any database the ones before it leave.
LEMMA UpgradeStart ==
  ASSUME UpgradeInit
  PROVE  UpgradeInv
<1>1. db \in Databases /\ before = db /\ hurt = {} /\ step = Off /\ Stage = 0
  BY RankOf DEF UpgradeInit, Stage
<1>2. LeftByProgram(db)
  BY <1>1, DatabasesAssumption
<1>3. /\ db.version \in 0 .. 24 /\ DOMAIN db = Fields
      /\ DOMAIN db.org = Orgs /\ \A o \in Orgs : DOMAIN db.org[o] = DOMAIN NoOrganization
      /\ DOMAIN db.now = Tables /\ \A t \in Tables : IsTable(db.now[t])
      /\ db.users \subseteq Users /\ \A j \in db.jobs : DOMAIN j = {"id", "path", "target"}
  BY <1>2, BaseZero DEF LeftByProgram, WellFormed, Current, IsTable
<1>4. db.aside = [t \in Tables |-> NoTable] /\ db.parent = "cloud_accounts"
  BY <1>2 DEF LeftByProgram
<1>5. UpgradeTypes
  BY <1>3, <1>4, TableForms DEF UpgradeTypes
<1>6. Way
  BY <1>1 DEF Way, Known
<1>7. Opened
  BY <1>1 DEF Opened
<1>8. Space
  <2>1. Introduced.quotas = 13
    BY DEF Introduced
  <2>2. IF db.version < 13 THEN \A o \in Orgs : db.org[o].used = Absent
        ELSE /\ \A x \in DOMAIN db.docs : db.docs[x] # Null
             /\ \A o \in Orgs : db.org[o].used = IF db.org[o].status = "none" THEN Absent
                                                ELSE Held(db, o)
    BY <1>2, <2>1 DEF LeftByProgram
  <2> QED
    BY <1>1, <1>3, <2>2 DEF Space, Exists
<1>9. Profiles
  <2>1. db.made \subseteq PartsOf(IF db.version = 0 THEN 1 ELSE db.version)
    BY <1>2 DEF LeftByProgram
  <2>2. Introduced.profile_code = 14
    BY DEF Introduced
  <2>3. db.version < 14 => "profile_code" \notin db.made
    BY <1>3, <2>1, <2>2 DEF PartsOf
  <2> QED
    BY <1>1, <2>3 DEF Profiles
<1>10. Mounts
  <2>1. db.made \subseteq PartsOf(IF db.version = 0 THEN 1 ELSE db.version)
    BY <1>2 DEF LeftByProgram
  <2>2. Introduced.remote_mounts = 22
    BY DEF Introduced
  <2>3. db.version <= 20 => "remote_mounts" \notin db.made
    BY <1>3, <2>1, <2>2 DEF PartsOf
  <2> QED
    BY <1>1, <1>4, <2>3 DEF Mounts
<1>11. Admins
  BY <1>1, <1>2 DEF Admins, LeftByProgram
<1>12. Jobs
  BY <1>1, <1>3 DEF Jobs
<1>13. Audit
  BY <1>1, <1>2 DEF Audit, LeftByProgram, Current, Fresh
<1>14. RowIds(NoTable) = {} /\ NoTable.rows = {} /\ NoTable.shape = "none"
  BY TableForms DEF RowIds
<1>15. \A t \in Tables : db.aside[t] = NoTable
  BY <1>4
<1>16. EvidenceHeld
  <2> SUFFICES ASSUME NEW t \in Evidence
               PROVE  EvidenceIn(t)
    BY DEF EvidenceHeld
  <2>1. Rank(Do("aside", t)) \in {26, 30, 34} /\ db.aside[t] = NoTable
    BY <1>15, EvidenceRanks, CloudTables
  <2> QED
    BY <1>1, <2>1 DEF EvidenceIn
<1>17. Requests
  <2> DEFINE now == db.now["document_requests"]
  <2>1. /\ Keyed(now.rows, "id") /\ \A r \in now.rows : DOMAIN r = {"id", "org", "uuid"}
        /\ now.shape = "new" => \A r \in now.rows : r.uuid = "own"
        /\ db.version > 20 => now.shape = "new"
    BY <1>2 DEF LeftByProgram, WellFormed
  <2>2. db.aside["document_requests"] = NoTable
    BY <1>15, CloudTables
  <2>3. OldRequests = RowIds(now)
    BY <1>1 DEF OldRequests
  <2> HIDE DEF now
  <2>4. Keyed({}, "id")
    BY DEF Keyed
  <2>5. RequestRows(now, NoTable, RowIds(now))
    BY <1>14, <2>1, <2>4 DEF RequestRows, RequestFields
  <2>6. RequestsMoved(now, NoTable, RowIds(now), 0)
    BY DEF RequestsMoved
  <2>7. RequestsWhole(now, NoTable, RowIds(now), 0, {})
    BY <2>1 DEF RequestsWhole
  <2> QED
    BY <1>1, <2>1, <2>2, <2>3, <2>5, <2>6, <2>7 DEF Requests, RequestsAre, now
<1>18. CloudForms
  <2>1. /\ SettingRows(db.now["cloud_settings"].rows)
        /\ AccountRows(db.now["cloud_accounts"].rows)
        /\ MappingRows(db.now["cloud_folder_mappings"].rows)
    BY <1>2 DEF LeftByProgram, WellFormed, SettingRows, AccountRows, MappingRows
  <2>2. SettingRows({}) /\ MappingRows({}) /\ AccountRows({})
    BY FS_EmptySet DEF SettingRows, MappingRows, AccountRows, Keyed
  <2>3. \A t \in Cloud : db.aside[t].rows = {}
    BY <1>14, <1>15, CloudTables
  <2> QED
    BY <2>1, <2>2, <2>3 DEF CloudForms, RowsOf
<1>19. CloudPlaces
  <2>1. \A t \in Cloud : PutAt(t) \in 38 .. 40 /\ t \in Tables
    BY CloudStages
  <2> QED
    BY <1>1, <1>15, <2>1 DEF CloudPlaces
<1>20. Sources
  <2>1. Source("cloud_settings") = db.now["cloud_settings"]
        /\ Source("cloud_accounts") = db.now["cloud_accounts"]
    BY <1>1, CloudStages DEF Source
  <2> QED
    BY <1>1, <2>1 DEF Sources, AsBefore
<1>21. MappingsFilled
  BY <1>1 DEF MappingsFilled
<1>22. SecretsHeld
  BY <1>1 DEF SecretsHeld
<1> QED
  BY <1>5, <1>6, <1>7, <1>8, <1>9, <1>10, <1>11, <1>12, <1>13, <1>16, <1>17, <1>18, <1>19,
     <1>20, <1>21, <1>22 DEF UpgradeInv

\* A step from any state of the upgrade is one of those described.
LEMMA UpgradeTurns ==
  ASSUME UpgradeInv, [UpgradeNext]_upgradeVars
  PROVE  /\ (Upgrade /\ Advances) \/ Halted \/ Began \/ Stops \/ Same
         /\ Known'
<1>1. UpgradeTypes /\ Way /\ Known
  BY DEF UpgradeInv, Way
<1>2. CASE Stage # 52
  <2>1. db.version \in 0 .. 24
    BY <1>1, <1>2, LeftBefore DEF Way
  <2> QED
    BY <1>1, <2>1, UpgradeSteps
<1>3. CASE Stage = 52
  <2>1. step = Done
    BY <1>1, <1>3 DEF Known
  <2>2. ~Upgrade
    <3>1. Upgrade => Advances \/ Halted
      BY <1>1, StageActions
    <3> QED
      BY <1>3, <3>1 DEF Advances, Halted, Halts
  <2>3. ~Start
    <3>1. Start => step = Off
      BY DEF Start
    <3>2. step = Off => Stage = 0
      BY RankOf DEF Stage
    <3> QED
      BY <1>3, <3>1, <3>2
  <2>4. ~Interrupt
    BY <2>1 DEF Interrupt
  <2>5. UNCHANGED upgradeVars
    BY <2>2, <2>3, <2>4 DEF UpgradeNext
  <2> QED
    BY <1>1, <2>5 DEF upgradeVars, Same, Known, Stage
<1> QED
  BY <1>2, <1>3

\* Every step keeps the invariant.
LEMMA UpgradeStep ==
  ASSUME UpgradeInv, [UpgradeNext]_upgradeVars
  PROVE  UpgradeInv'
<1>1. /\ UpgradeTypes /\ Way /\ Opened /\ Space /\ Profiles /\ Mounts /\ Admins /\ Jobs /\ Audit
      /\ EvidenceHeld /\ Requests /\ CloudForms /\ CloudPlaces /\ Sources /\ MappingsFilled
      /\ SecretsHeld
  BY Zenon DEF UpgradeInv
<1>2. ((Upgrade /\ Advances) \/ Halted \/ Began \/ Stops \/ Same) /\ Known'
  BY UpgradeTurns
<1>3. UpgradeTypes'
  BY <1>1, <1>2, TypesKept
<1>4. Way'
  BY <1>1, <1>2, WayKept
<1>5. Opened'
  BY <1>1, <1>2, OpenedKept DEF Audit
<1>6. Space'
  BY <1>1, <1>2, <1>4, SpaceKept
<1>7. Profiles'
  BY <1>1, <1>2, <1>4, ProfilesKept
<1>8. Mounts'
  BY <1>1, <1>2, MountsKept
<1>9. Admins'
  BY <1>1, <1>2, AdminsKept
<1>10. Jobs'
  BY <1>1, <1>2, JobsKept
<1>11. Audit'
  BY <1>1, <1>2, AuditKept
<1>12. EvidenceHeld'
  BY <1>1, <1>2, EvidenceStays
<1>13. Requests'
  BY <1>1, <1>2, RequestsKept
<1>14. CloudForms'
  BY <1>1, <1>2, FormsKept
<1>15. CloudPlaces'
  BY <1>1, <1>2, PlacesKept
<1>16. Sources'
  BY <1>1, <1>2, SourcesKept
<1>17. MappingsFilled'
  BY <1>1, <1>2, MappingsKept
<1>18. SecretsHeld'
  BY <1>1, <1>2, SecretsKept
<1> QED
  BY <1>3, <1>4, <1>5, <1>6, <1>7, <1>8, <1>9, <1>10, <1>11, <1>12, <1>13, <1>14, <1>15,
     <1>16, <1>17, <1>18, Zenon DEF UpgradeInv

\* The invariant holds at every moment.
LEMMA UpgradeHolds == UpgradeSpec => []UpgradeInv
<1>1. UpgradeInit => UpgradeInv
  BY UpgradeStart
<1>2. UpgradeInv /\ [UpgradeNext]_upgradeVars => UpgradeInv'
  BY UpgradeStep
<1> QED
  BY <1>1, <1>2, PTL DEF UpgradeSpec

\* The invariant says where every row and every secret is.
LEMMA NothingIsDropped ==
  ASSUME UpgradeInv
  PROVE  NothingDropped
<1>1. \A t \in Evidence :
        RowIds(before.now[t]) \subseteq RowIds(db.now[t]) \cup RowIds(db.aside[t])
  BY Zenon DEF UpgradeInv, EvidenceHeld, EvidenceIn
<1>2. LET t == "document_requests" IN
        RowIds(before.now[t]) \subseteq RowIds(db.now[t]) \cup RowIds(db.aside[t])
  <2>1. OldRequests = RowIds(db.now["document_requests"]) \cup RowIds(db.aside["document_requests"])
    BY Zenon DEF UpgradeInv, Requests, RequestsAre, RequestRows
  <2> QED
    BY <2>1 DEF OldRequests
<1>3. Secrets(before.now["cloud_accounts"]) \subseteq
        Secrets(db.now["cloud_accounts"]) \cup Secrets(db.aside["cloud_accounts"]) \cup db.orphans
  BY Zenon DEF UpgradeInv, SecretsHeld
<1> QED
  BY <1>1, <1>2, <1>3 DEF NothingDropped

\* At the end of the script it says that the database is whole.
LEMMA UpgradedWhole ==
  ASSUME UpgradeInv
  PROVE  UpgradedIsWhole
<1> SUFFICES ASSUME step = Done, before.version < Current
             PROVE  /\ \A t \in Tables : LeftBehind(t) =>
                         t = "document_requests" /\ hurt \cap {"requests", "ids"} # {}
                    /\ "requests" \notin hurt =>
                         RowIds(db.now["document_requests"]) = RowIds(before.now["document_requests"])
                    /\ \A r, s \in db.now["document_requests"].rows : r.id = s.id => r = s
                    /\ "ids" \notin hurt =>
                         \A r \in db.now["document_requests"].rows : r.uuid = "own"
                    /\ "profile" \notin hurt /\ before.version < Introduced.profile_code =>
                         \A o \in Orgs : db.org[o].profile = db.org[o].template
                    /\ "mounts" \notin hurt => db.parent = "cloud_accounts"
                    /\ \A o \in Orgs : Exists(o) => db.org[o].used = Held(db, o)
                    /\ db.users # {} => db.admins \cap db.users # {}
                    /\ \A j \in db.jobs : before.version < 21 /\ j.target # Null => j.path = j.target
                    /\ db.audit = [h \in db.history |-> 1]
  BY DEF UpgradedIsWhole
<1>1. Stage = 52 /\ before.version < 24
  BY RankOf DEF Stage, Current
<1>2. before.version \in 0 .. 24 /\ Way
  BY LeftBefore DEF UpgradeInv
<1>3. LET now == db.now["document_requests"]
          aside == db.aside["document_requests"]
      IN  /\ "requests" \notin hurt => OldRequests = RowIds(now)
          /\ hurt \cap {"requests", "ids"} = {} => aside = NoTable
          /\ "ids" \notin hurt => \A r \in now.rows : r.uuid = "own"
          /\ Keyed(now.rows, "id")
  BY <1>1 DEF UpgradeInv, Requests, RequestsAre, RequestRows, RequestsMoved, RequestsWhole
<1>4. ASSUME NEW t \in Tables, LeftBehind(t)
      PROVE  t = "document_requests" /\ hurt \cap {"requests", "ids"} # {}
  <2>1. CASE t \in Evidence
    <3>1. Rank(Do("aside", t)) \in {26, 30, 34} /\ EvidenceIn(t)
      BY <2>1, EvidenceRanks DEF UpgradeInv, EvidenceHeld
    <3>2. db.aside[t] = NoTable
      BY <1>1, <3>1 DEF EvidenceIn
    <3> QED
      BY <1>4, <3>2 DEF LeftBehind
  <2>2. CASE t \in Cloud
    <3>1. DropAt(t) \in 44 .. 46
      BY <2>2, CloudStages
    <3>2. Stage > DropAt(t) => db.aside[t] = NoTable
      BY <2>2 DEF UpgradeInv, CloudPlaces
    <3> QED
      BY <1>1, <1>4, <3>1, <3>2 DEF LeftBehind
  <2>3. CASE t = "document_requests"
    BY <1>3, <1>4, <2>3 DEF LeftBehind
  <2> QED
    BY <2>1, <2>2, <2>3 DEF Tables
<1>5. \A r, s \in db.now["document_requests"].rows : r.id = s.id => r = s
  BY <1>3 DEF Keyed
<1>6. "requests" \notin hurt =>
        RowIds(db.now["document_requests"]) = RowIds(before.now["document_requests"])
  BY <1>3 DEF OldRequests
<1>7. "profile" \notin hurt /\ before.version < Introduced.profile_code =>
        \A o \in Orgs : db.org[o].profile = db.org[o].template
  <2>1. Introduced.profile_code = 14
    BY DEF Introduced
  <2> QED
    BY <1>1, <2>1 DEF UpgradeInv, Profiles
<1>8. "mounts" \notin hurt => db.parent = "cloud_accounts"
  BY DEF UpgradeInv, Mounts
<1>9. \A o \in Orgs : Exists(o) => db.org[o].used = Held(db, o)
  BY <1>1 DEF UpgradeInv, Space
<1>10. db.users # {} => db.admins \cap db.users # {}
  BY <1>1 DEF UpgradeInv, Admins
<1>11. \A j \in db.jobs : before.version < 21 /\ j.target # Null => j.path = j.target
  BY <1>1 DEF UpgradeInv, Jobs
<1>12. db.audit = [h \in db.history |-> 1]
  BY <1>1 DEF UpgradeInv, Audit
<1> QED
  BY <1>3, <1>4, <1>5, <1>6, <1>7, <1>8, <1>9, <1>10, <1>11, <1>12

\* And that each account has one owner.
LEMMA OwnersAreApart ==
  ASSUME UpgradeInv
  PROVE  OwnersApart
<1> DEFINE accounts == db.now["cloud_accounts"].rows
           settings == db.now["cloud_settings"].rows
<1> SUFFICES ASSUME step = Done, before.version \in 1 .. 20
             PROVE
        /\ \A a, b \in accounts : a.id = b.id \/ (a.token # Null /\ a.token = b.token) => a = b
        /\ \A s \in before.now["cloud_settings"].rows :
               \E r \in settings : r.org = s.org /\
                   IF Had(s) = {} THEN r.account = Null /\ r.mode = "LOCAL"
                   ELSE r.mode = s.mode /\
                        \E a \in accounts : a.id = r.account /\ a.org = s.org
        /\ \A s \in before.now["cloud_settings"].rows : \A h \in Had(s) :
               h.token # Null => \E a \in accounts : a.token = h.token
        /\ \A a \in accounts : \E s \in settings : s.org = a.org /\ s.account = a.id
        /\ \A m \in db.now["cloud_folder_mappings"].rows : m.account # Null =>
               \E s \in settings : s.org = m.org /\ s.account = m.account
  BY Zenon DEF OwnersApart, Had
<1>1. Stage = 52
  BY RankOf DEF Stage
<1>2. Source("cloud_settings") = db.now["cloud_settings"]
      /\ Source("cloud_accounts") = db.now["cloud_accounts"]
  BY <1>1, CloudStages DEF Source
<1>3. PutByThis
  <2>1. \A t \in Cloud : PutAt(t) \in 38 .. 40
    BY CloudStages
  <2> QED
    BY <1>1, <2>1 DEF PutByThis
<1>4. Separate(settings, accounts)
  BY <1>1, <1>2, <1>3 DEF UpgradeInv, Sources
<1>5. MappingsOf(settings, db.now["cloud_folder_mappings"].rows)
  BY <1>1 DEF UpgradeInv, MappingsFilled
<1> HIDE DEF accounts, settings
<1>6. Owned(settings, accounts) /\ Kept(settings, accounts)
  BY <1>4 DEF Separate
<1>7. /\ \A a, b \in accounts : a.id = b.id \/ (a.token # Null /\ a.token = b.token) => a = b
      /\ \A a \in accounts : \E s \in settings : s.org = a.org /\ s.account = a.id
  BY <1>6 DEF Owned
<1>8. /\ \A s \in before.now["cloud_settings"].rows :
           \E r \in settings : r.org = s.org /\
             IF Had(s) = {} THEN r.account = Null /\ r.mode = "LOCAL"
             ELSE r.mode = s.mode /\ \E a \in accounts : a.id = r.account /\ a.org = s.org
      /\ \A s \in before.now["cloud_settings"].rows : \A h \in Had(s) :
           h.token # Null => \E a \in accounts : a.token = h.token
  BY <1>6, Zenon DEF Kept
<1>9. \A m \in db.now["cloud_folder_mappings"].rows : m.account # Null =>
        \E s \in settings : s.org = m.org /\ s.account = m.account
  BY <1>5 DEF MappingsOf
<1> QED
  BY <1>7, <1>8, <1>9

\* For any database an earlier version leaves, and however often the upgrade is
\* interrupted, nothing is lost on the way and what it ends with is whole
\* (migrate).
THEOREM UpgradeKeepsTheDatabase == UpgradeSpec => []DatabaseKept
<1>1. UpgradeInv => DatabaseKept
  BY NothingIsDropped, UpgradedWhole DEF DatabaseKept
<1> QED
  BY <1>1, UpgradeHolds, PTL

\* However the organizations shared accounts and secrets before, afterwards each
\* has an account of its own and a secret is held once
\* (_upgrade_integrity_and_cloud_ownership_v21).
THEOREM UpgradeSeparatesOwners == UpgradeSpec => []OwnersApart
<1>1. UpgradeInv => OwnersApart
  BY OwnersAreApart
<1> QED
  BY <1>1, UpgradeHolds, PTL
=============================================================================
