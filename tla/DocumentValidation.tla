-------------------------- MODULE DocumentValidation --------------------------
(***************************************************************************)
(* The validation records of an organization and the canonical PDFs they   *)
(* vouch for: DocumentValidationService and CanonicalArtifactService, with *)
(* the three kinds of operation that make them: a signature with a QR code *)
(* (finalize), the receipt of a delivery (create_acknowledgement_receipt)  *)
(* and the proof of a submission (submission_receipt).                     *)
(*                                                                         *)
(* The bytes of a PDF are named by the record whose QR code is in them.    *)
(* The database is one connection under a lock, which a transaction keeps; *)
(* files are written whatever the lock.                                    *)
(***************************************************************************)
EXTENDS Naturals, FiniteSets

CONSTANTS
  RecordCount, \* records ever made, a bound
  Signers,     \* the signature workers
  Outputs,     \* files the user may choose for a signed copy
  None

ASSUME ValidationAssumption ==
  /\ RecordCount \in Nat
  /\ {"acknowledge", "submit"} \cap Signers = {}
  /\ None \notin Nat \cup Signers \cup {"acknowledge", "submit"}

Records == 1 .. RecordCount
Threads == Signers \cup {"acknowledge", "submit"}

VARIABLES
  record,   \* row of validation_records: its status and the hash of its PDF
  artifact, \* the canonical file of the record's token, or None
  part,     \* the temporary file beside it, or None
  output,   \* the user's files
  pdf,      \* records with a PDF in delivery_receipts
  receipt,  \* row of delivery_acknowledgement_receipts of the delivery: its record
  proof,    \* app_settings: the record of the proof of submission
  thread,   \* the operations
  lock      \* the thread whose transaction is open

validation == <<record, artifact, part, output, pdf, receipt, proof, thread, lock>>
files == <<artifact, part, output, pdf>>
links == <<receipt, proof>>

NoRecord == [status |-> "none", hash |-> None]
Idle == [pc |-> "idle", rec |-> 0, path |-> None]
Finalized(r) == record[r].status \in {"ACTIVE", "REVOKED"}
At(t, pc) == thread[t].pc = pc
Rec(t) == thread[t].rec
Goes(t, pc) == thread' = [thread EXCEPT ![t].pc = pc]
Ends(t) == thread' = [thread EXCEPT ![t] = Idle]
MayUse(t) == lock \in {None, t}
Free == lock = None

ValidationInit ==
  /\ record = [r \in Records |-> NoRecord]
  /\ artifact = [r \in Records |-> None] /\ part = [r \in Records |-> None]
  /\ output = [o \in Outputs |-> None] /\ pdf = {}
  /\ receipt = None /\ proof = None
  /\ thread = [t \in Threads |-> Idle] /\ lock = None
-----------------------------------------------------------------------------
(***************************************************************************)
(* create_pending, and what each operation looks at before it.             *)
(***************************************************************************)
CreatePending(t, pc, path) ==
  /\ thread[t] = Idle
  /\ Free
  /\ \E r \in Records :
       /\ record[r] = NoRecord
       /\ \A q \in Records : q < r => record[q] # NoRecord
       /\ record' = [record EXCEPT ![r].status = "PENDING"]
       /\ thread' = [thread EXCEPT ![t] = [pc |-> pc, rec |-> r, path |-> path]]
  /\ UNCHANGED <<files, links, lock>>

Sign(s) == \E o \in Outputs : CreatePending(s, "produce", o)

AcknowledgeDelivery ==
  /\ receipt = None
  /\ CreatePending("acknowledge", "begin", None)

ProveSubmission ==
  /\ proof = None
  /\ CreatePending("submit", "begin", None)
-----------------------------------------------------------------------------
(***************************************************************************)
(* The PDF.  The signed copy is published under the name the user chose,   *)
(* if there is no such file; a receipt is generated inside of the          *)
(* transaction that will record it, a proof before it.                     *)
(***************************************************************************)
\* Mutant: publish_file replaces the file that is there.
ProduceOver(s) ==
  /\ At(s, "produce")
  /\ output' = [output EXCEPT ![thread[s].path] = Rec(s)]
  /\ Goes(s, "preserve")
  /\ UNCHANGED <<record, artifact, part, pdf, links, lock>>

Produce(s) ==
  /\ At(s, "produce")
  /\ output[thread[s].path] = None
  /\ output' = [output EXCEPT ![thread[s].path] = Rec(s)]
  /\ Goes(s, "preserve")
  /\ UNCHANGED <<record, artifact, part, pdf, links, lock>>

BeginTransaction(t) ==
  /\ At(t, "begin")
  /\ Free
  /\ lock' = t
  /\ pdf' = IF t = "acknowledge" THEN pdf \cup {Rec(t)} ELSE pdf
  /\ Goes(t, "preserve")
  /\ UNCHANGED <<record, artifact, part, output, links>>

(***************************************************************************)
(* activate: the record must be pending; preserve copies the PDF beside    *)
(* the canonical name and links it there if there is nothing yet, then     *)
(* reads it again, which may fail; the row is last.                        *)
(***************************************************************************)
SourceOf(t) == IF t \in Signers THEN output[thread[t].path] ELSE Rec(t)

WritePart(t) ==
  /\ At(t, "preserve")
  /\ MayUse(t)
  /\ record[Rec(t)].status = "PENDING"
  /\ part' = [part EXCEPT ![Rec(t)] = SourceOf(t)]
  /\ Goes(t, "link")
  /\ UNCHANGED <<record, artifact, output, pdf, links, lock>>

\* The link, and the removal of the temporary file.
Link(t) ==
  /\ At(t, "link")
  /\ artifact[Rec(t)] = None
  /\ artifact' = [artifact EXCEPT ![Rec(t)] = part[Rec(t)]]
  /\ part' = [part EXCEPT ![Rec(t)] = None]
  /\ Goes(t, "activate")
  /\ UNCHANGED <<record, output, pdf, links, lock>>

LinkFails(t) ==
  /\ At(t, "link")
  /\ part' = [part EXCEPT ![Rec(t)] = None]
  /\ Goes(t, "fail")
  /\ lock' = IF lock = t THEN None ELSE lock
  /\ UNCHANGED <<record, artifact, output, pdf, links>>

Activated(r) == [record EXCEPT ![r] = [status |-> "ACTIVE", hash |-> artifact[r]]]

Activate(s) ==
  /\ s \in Signers
  /\ At(s, "activate")
  /\ Free
  /\ record[Rec(s)].status = "PENDING"
  /\ record' = Activated(Rec(s))
  /\ Ends(s)
  /\ UNCHANGED <<files, links, lock>>

\* Mutant: something after the commit may fail, inside of the same try.
CommitReceiptAndMore ==
  /\ At("acknowledge", "activate")
  /\ receipt = None
  /\ record[Rec("acknowledge")].status = "PENDING"
  /\ record' = Activated(Rec("acknowledge"))
  /\ receipt' = Rec("acknowledge")
  /\ lock' = None
  /\ Ends("acknowledge") \/ Goes("acknowledge", "fail")
  /\ UNCHANGED <<files, proof>>

\* The rows of the receipt, unique for the delivery, and of its record.
CommitReceipt ==
  /\ At("acknowledge", "activate")
  /\ receipt = None
  /\ record[Rec("acknowledge")].status = "PENDING"
  /\ record' = Activated(Rec("acknowledge"))
  /\ receipt' = Rec("acknowledge")
  /\ lock' = None
  /\ Ends("acknowledge")
  /\ UNCHANGED <<files, proof>>

\* The canonical file is read once more after the commit, which may fail.
CommitProof ==
  /\ At("submit", "activate")
  /\ record[Rec("submit")].status = "PENDING"
  /\ record' = Activated(Rec("submit"))
  /\ proof' = Rec("submit")
  /\ lock' = None
  /\ Ends("submit") \/ Goes("submit", "fail")
  /\ UNCHANGED <<files, receipt>>
-----------------------------------------------------------------------------
(***************************************************************************)
(* An operation fails at any of its steps: a transaction is rolled back,   *)
(* then the record is failed if it is still pending, then a receipt's PDF  *)
(* is removed.  The database may refuse that too.                          *)
(***************************************************************************)
Fails(t) ==
  /\ thread[t].pc \in {"produce", "begin", "preserve", "activate"}
  /\ Goes(t, "fail")
  /\ lock' = IF lock = t THEN None ELSE lock
  /\ UNCHANGED <<record, files, links>>

AfterFailure(t) == IF t = "acknowledge" THEN Goes(t, "unlink") ELSE Ends(t)

\* Mutant: the record is failed whatever its status.
FailAny(t) ==
  /\ At(t, "fail")
  /\ Free
  /\ record' = [record EXCEPT ![Rec(t)].status = "FAILED"]
  /\ AfterFailure(t)
  /\ UNCHANGED <<files, links, lock>>

FailPending(t) ==
  /\ At(t, "fail")
  /\ Free
  /\ record' = IF record[Rec(t)].status = "PENDING"
                 THEN [record EXCEPT ![Rec(t)].status = "FAILED"] ELSE record
  /\ AfterFailure(t)
  /\ UNCHANGED <<files, links, lock>>

FailRefused(t) ==
  /\ At(t, "fail")
  /\ Ends(t)
  /\ UNCHANGED <<record, files, links, lock>>

RemovePdf ==
  /\ At("acknowledge", "unlink")
  /\ pdf' = pdf \ {Rec("acknowledge")}
  /\ Ends("acknowledge")
  /\ UNCHANGED <<record, artifact, part, output, links, lock>>

Revoke(r) ==
  /\ Free
  /\ record[r].status = "ACTIVE"
  /\ record' = [record EXCEPT ![r].status = "REVOKED"]
  /\ UNCHANGED <<files, links, thread, lock>>

\* The process dies: what was not committed is not, the files stay.
StopValidation ==
  /\ thread' = [t \in Threads |-> Idle]
  /\ lock' = None
  /\ UNCHANGED <<record, files, links>>

ValidationNext ==
  \/ \E s \in Signers : Sign(s) \/ Produce(s) \/ Activate(s)
  \/ AcknowledgeDelivery \/ ProveSubmission \/ CommitReceipt \/ CommitProof \/ RemovePdf
  \/ \E t \in Threads \ Signers : BeginTransaction(t)
  \/ \E t \in Threads :
       WritePart(t) \/ Link(t) \/ LinkFails(t) \/ Fails(t) \/ FailPending(t) \/ FailRefused(t)
  \/ \E r \in Records : Revoke(r)
-----------------------------------------------------------------------------
(***************************************************************************)
(* Type correctness; a transaction is that of an operation that is in it.  *)
(***************************************************************************)
ValidationTypeOK ==
  /\ \A r \in Records :
       /\ record[r].status \in {"none", "PENDING", "ACTIVE", "FAILED", "REVOKED"}
       /\ record[r].hash \in Records \cup {None}
       /\ artifact[r] \in Records \cup {None} /\ part[r] \in Records \cup {None}
  /\ pdf \subseteq Records
  /\ receipt \in Records \cup {None} /\ proof \in Records \cup {None}
  /\ lock \in Threads => lock \notin Signers /\ thread[lock].pc \in {"preserve", "link", "activate"}

(***************************************************************************)
(* The file a record vouches for is there, has the bytes recorded, and     *)
(* carries the QR code of that record and of no other, whatever failed,    *)
(* ran beside it or died before.                                           *)
(***************************************************************************)
FinalizedIsKept ==
  \A r \in Records : Finalized(r) => artifact[r] = record[r].hash /\ record[r].hash = r

(***************************************************************************)
(* "Registro, artefato e auditoria permanecem": a canonical file is never  *)
(* changed nor removed, a record that failed is never made valid, and one  *)
(* that was valid can only be revoked, once.                               *)
(***************************************************************************)
HistoryStays ==
  [][\A r \in Records :
       /\ artifact[r] # None => artifact'[r] = artifact[r]
       /\ record[r].status = "FAILED" => record'[r] = record[r]
       /\ Finalized(r) => record'[r].hash = record[r].hash /\ record'[r].status \in {record[r].status, "REVOKED"}]_validation

(***************************************************************************)
(* A delivery has one receipt: the row names a record that was made valid, *)
(* with its PDF, and no other attempt, failed or killed half way, has left *)
(* a valid record behind.  The same of a proof of submission.              *)
(***************************************************************************)
OneReceipt ==
  /\ ValidationTypeOK
  /\ receipt # None => Finalized(receipt) /\ receipt \in pdf
  /\ proof # None => Finalized(proof)
  /\ \A r \in pdf : Finalized(r) => r = receipt
=============================================================================
