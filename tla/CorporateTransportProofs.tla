----------------------- MODULE CorporateTransportProofs -----------------------
(***************************************************************************)
(* Proofs about CorporateTransport, for any documents, targets, folders,   *)
(* job table size, number of attempts and bounds.                          *)
(***************************************************************************)
EXTENDS CorporateTransport, TLAPS

\* What every row satisfies beyond its columns' types.
WellFormed(r) ==
    /\ r.status # "NONE" => r.doc \in Docs
    /\ r.op = "DELETE" => r.path \in Paths
    /\ r.status # "NONE" /\ r.resolved
       => r.target # NoTarget /\ (r.path # NoPath => r.path.target = r.target)

Table == {js \in [JobIds -> TransportJob] : \A j \in JobIds : WellFormed(js[j])}

\* A statement keeps a row's identity: it changes the status, the attempts and
\* the path of rows that exist, and never takes a row away.
SameRow(r, q) ==
    /\ q.doc = r.doc /\ q.op = r.op /\ q.target = r.target
    /\ q.resolved = r.resolved
    /\ r.status = "NONE" <=> q.status = "NONE"

-----------------------------------------------------------------------------
(* The statements on the table.                                            *)

USE DEF Operations, Statuses, ActiveStatuses

\* The statements on one row by its id return a table of well-formed rows, the
\* same rows, and leave the others alone (TransportJobRepository).
LEMMA OneRow ==
    ASSUME NEW js \in Table, NEW j \in JobIds, js[j].status # "NONE"
    PROVE  /\ MarkRunning(js, j) \in Table
           /\ Fail(js, j) \in Table
           /\ FailDefinitive(js, j) \in Table
           /\ Cancel(js, j) \in Table
           /\ \A i \in JobIds :
                  /\ SameRow(js[i], MarkRunning(js, j)[i])
                  /\ SameRow(js[i], Fail(js, j)[i])
                  /\ SameRow(js[i], FailDefinitive(js, j)[i])
                  /\ SameRow(js[i], Cancel(js, j)[i])
                  /\ i # j => /\ MarkRunning(js, j)[i] = js[i]
                              /\ Fail(js, j)[i] = js[i]
                              /\ FailDefinitive(js, j)[i] = js[i]
                              /\ Cancel(js, j)[i] = js[i]
           /\ Fail(js, j)[j].status # "RUNNING"
           /\ FailDefinitive(js, j)[j].status # "RUNNING"
           /\ Cancel(js, j)[j].status # "RUNNING"
<1>1. MarkRunning(js, j) \in Table /\ \A i \in JobIds : SameRow(js[i], MarkRunning(js, j)[i])
  BY DEF Table, WellFormed, TransportJob, MarkRunning, SameRow
<1>2. Fail(js, j) \in Table /\ \A i \in JobIds : SameRow(js[i], Fail(js, j)[i])
  BY DEF Table, WellFormed, TransportJob, Fail, SameRow
<1>3. FailDefinitive(js, j) \in Table /\ \A i \in JobIds : SameRow(js[i], FailDefinitive(js, j)[i])
  BY DEF Table, WellFormed, TransportJob, FailDefinitive, SameRow
<1>4. Cancel(js, j) \in Table /\ \A i \in JobIds : SameRow(js[i], Cancel(js, j)[i])
  BY DEF Table, WellFormed, TransportJob, Cancel, Cancellable, SameRow
<1>5. /\ Fail(js, j)[j].status # "RUNNING"
      /\ FailDefinitive(js, j)[j].status # "RUNNING"
      /\ Cancel(js, j)[j].status # "RUNNING"
  BY DEF Table, TransportJob, Fail, FailDefinitive, Cancel, Cancellable
<1>6. \A i \in JobIds : i # j => /\ MarkRunning(js, j)[i] = js[i]
                                 /\ Fail(js, j)[i] = js[i]
                                 /\ FailDefinitive(js, j)[i] = js[i]
                                 /\ Cancel(js, j)[i] = js[i]
  BY DEF Table, MarkRunning, Fail, FailDefinitive, Cancel
<1>. QED  BY <1>1, <1>2, <1>3, <1>4, <1>5, <1>6

\* Completion stores the path on the row's own target (complete).
LEMMA CompleteRow ==
    ASSUME NEW js \in Table, NEW j \in JobIds, js[j].status # "NONE",
           NEW p \in Paths, p.target = js[j].target
    PROVE  /\ Complete(js, j, p) \in Table
           /\ \A i \in JobIds : /\ SameRow(js[i], Complete(js, j, p)[i])
                                /\ i # j => Complete(js, j, p)[i] = js[i]
           /\ Complete(js, j, p)[j].status # "RUNNING"
  BY NoPathAssumption DEF Table, WellFormed, TransportJob, Complete, SameRow

\* The statements on several rows (cancel_uploads, retry_failed,
\* recover_interrupted).
LEMMA ManyRows ==
    ASSUME NEW js \in Table, NEW d \in Docs
    PROVE  /\ CancelUploads(js, d) \in Table
           /\ RetryFailed(js) \in Table
           /\ RecoverInterrupted(js) \in Table
           /\ \A i \in JobIds :
                  /\ SameRow(js[i], CancelUploads(js, d)[i])
                  /\ SameRow(js[i], RetryFailed(js)[i])
                  /\ SameRow(js[i], RecoverInterrupted(js)[i])
                  /\ CancelUploads(js, d)[i].status = "RUNNING" => js[i].status = "RUNNING"
                  /\ RetryFailed(js)[i].status = "RUNNING" => js[i].status = "RUNNING"
                  /\ RecoverInterrupted(js)[i].status # "RUNNING"
<1>1. /\ CancelUploads(js, d) \in Table
      /\ \A i \in JobIds : /\ SameRow(js[i], CancelUploads(js, d)[i])
                           /\ CancelUploads(js, d)[i].status = "RUNNING" => js[i].status = "RUNNING"
  BY DEF Table, WellFormed, TransportJob, CancelUploads, FindActive, SameRow
<1>2. /\ RetryFailed(js) \in Table
      /\ \A i \in JobIds : /\ SameRow(js[i], RetryFailed(js)[i])
                           /\ RetryFailed(js)[i].status = "RUNNING" => js[i].status = "RUNNING"
  BY DEF Table, WellFormed, TransportJob, RetryFailed, SameRow
<1>3. /\ RecoverInterrupted(js) \in Table
      /\ \A i \in JobIds : /\ SameRow(js[i], RecoverInterrupted(js)[i])
                           /\ RecoverInterrupted(js)[i].status # "RUNNING"
  BY DEF Table, WellFormed, TransportJob, RecoverInterrupted, SameRow
<1>. QED  BY <1>1, <1>2, <1>3

\* Enqueueing inserts at most one PENDING row, into an id that was not used
\* (TransportJobQueue._enqueue).
LEMMA EnqueueRow ==
    ASSUME NEW js \in Table, NEW d \in Docs, NEW op \in Operations,
           NEW t \in Targets \cup {NoTarget}, NEW r \in BOOLEAN,
           NEW p \in Paths \cup {NoPath},
           op = "DELETE" => p \in Paths,
           r => t # NoTarget /\ (p # NoPath => p.target = t),
           Enqueue(js, d, op, t, r, p)
    PROVE  /\ jobs' \in Table
           /\ \A i \in JobIds : /\ js[i].status # "NONE" => jobs'[i] = js[i]
                                /\ jobs'[i].status = "RUNNING" => jobs'[i] = js[i]
<1>1. CASE FindActive(js, d, op) # {}
  BY <1>1 DEF Enqueue
<1>2. CASE FindActive(js, d, op) = {}
  <2>1. PICK j \in NextId(js) : jobs' = Insert(js, j, d, op, t, r, p)
    BY <1>2 DEF Enqueue
  <2>2. j \in JobIds /\ js[j].status = "NONE"
    BY DEF NextId
  <2>3. jobs' \in [JobIds -> TransportJob]
    BY <2>1, <2>2 DEF Insert, Table, TransportJob
  <2>4. \A i \in JobIds : i # j => jobs'[i] = js[i]
    BY <2>1, <2>2 DEF Insert, Table
  <2>5. jobs'[j] = [doc |-> d, op |-> op, target |-> t, resolved |-> r,
                    status |-> "PENDING", attempts |-> 0, path |-> p]
    BY <2>1, <2>2 DEF Insert, Table
  <2>6. WellFormed(jobs'[j])
    BY <2>5 DEF WellFormed
  <2>. QED  BY <2>2, <2>3, <2>4, <2>5, <2>6 DEF Table
<1>. QED  BY <1>1, <1>2
-----------------------------------------------------------------------------
(* The inductive invariant.                                                *)

AtPath == wpc \in {"copying", "replacing", "removing", "recording", "compensating"}

\* The claimed job is a resolved row and the path in hand lies on its target; a
\* file is taken back only for a job that is no longer RUNNING.
WorkerHolds ==
    /\ wpc = "compensating" => jobs[wjob].status # "RUNNING"
    /\ InJob => wjob \in JobIds /\ jobs[wjob].status # "NONE" /\ jobs[wjob].resolved
    /\ AtPath => wpath \in Paths /\ wpath.target = jobs[wjob].target
    /\ ~AtPath => wpath = NoPath

ImporterHolds ==
    \A d \in Docs : importer[d] = "ready" => importTarget[d] # NoTarget

IInv ==
    /\ TypeOK
    /\ jobs \in Table
    /\ RunningIsHeld
    /\ WorkerHolds
    /\ ImporterHolds

\* A database migrated to targets satisfies the invariant.
LEMMA InitIInv == Init => IInv
<1>. SUFFICES ASSUME Init PROVE IInv
  OBVIOUS
<1>1. LegacyRows \subseteq TransportJob /\ FreeRow \in TransportJob
  <2>1. ASSUME NEW d \in LegacyDocs, NEW s \in {"PENDING", "RETRY", "FAILED", "COMPLETED"}
        PROVE  LegacyRow(d, s) \in TransportJob
    <3>1. d \in Docs /\ segment \in Segments
      BY LegacyDocsAssumption DEF Init
    <3>2. (CASE s = "PENDING" -> 0 [] s = "FAILED" -> MaxAttempts [] OTHER -> 1) \in Nat
      BY MaxAttemptsAssumption
    <3>3. [target |-> NoTarget, segment |-> segment, doc |-> d] \in Paths
      BY <3>1 DEF Paths
    <3>. QED  BY <3>1, <3>2, <3>3 DEF LegacyRow, TransportJob
  <2>2. FreeRow \in TransportJob
    BY DEF FreeRow, TransportJob
  <2>. QED  BY <2>1, <2>2 DEF LegacyRows
<1>2. \A r \in LegacyRows \cup {FreeRow} : WellFormed(r) /\ r.status # "RUNNING"
  BY LegacyDocsAssumption, NoPathAssumption
     DEF LegacyRows, LegacyRow, FreeRow, WellFormed
<1>3. jobs \in Table
  BY <1>1, <1>2 DEF Init, Table
<1>4. TypeOK
  <2>1. jobs \in [JobIds -> TransportJob] /\ nas \subseteq Paths
    BY <1>1 DEF Init
  <2>2. docs \in [Docs -> DocStatuses]
    BY DEF Init, DocStatuses
  <2>3. crashes \in 0..MaxCrashes
    BY BoundsAssumption DEF Init
  <2>. QED  BY <2>1, <2>2, <2>3 DEF Init, TypeOK, ImporterSteps, WorkerSteps
<1>5. RunningIsHeld
  BY <1>2 DEF Init, RunningIsHeld
<1>. QED  BY <1>3, <1>4, <1>5 DEF Init, IInv, WorkerHolds, InJob, AtPath, ImporterHolds

\* What an action that changes the table must show, when the thread keeps its
\* place and rows keep their identity.
LEMMA WorkerUntouched ==
    ASSUME IInv, jobs' \in Table, UNCHANGED workerVars,
           \A i \in JobIds :
               /\ jobs[i].status # "NONE" => SameRow(jobs[i], jobs'[i])
               /\ jobs'[i].status = "RUNNING" => jobs[i].status = "RUNNING"
    PROVE  RunningIsHeld' /\ WorkerHolds'
  BY DEF IInv, RunningIsHeld, WorkerHolds, SameRow, InJob, AtPath, workerVars

\* The thread leaves its job (the handlers of process_job).
LEMMA JobFinished ==
    ASSUME IInv, NEW js \in Table, FinishJob(js),
           \A i \in JobIds : js[i].status = "RUNNING" => i # wjob /\ js[i] = jobs[i]
    PROVE  /\ jobs' \in Table
           /\ RunningIsHeld' /\ WorkerHolds' /\ ImporterHolds'
<1>1. \A i \in JobIds : jobs'[i].status # "RUNNING"
  BY DEF IInv, RunningIsHeld, FinishJob
<1>. QED
  BY <1>1 DEF IInv, FinishJob, RunningIsHeld, WorkerHolds, ImporterHolds, InJob, AtPath,
     importVars

\* Changes of configuration and of documents that touch no job.
LEMMA OtherVariables ==
    ASSUME IInv, UNCHANGED <<jobs, workerVars, importVars>>
    PROVE  (jobs \in Table)' /\ RunningIsHeld' /\ WorkerHolds' /\ ImporterHolds'
  BY DEF IInv, RunningIsHeld, WorkerHolds, ImporterHolds, InJob, AtPath, workerVars, importVars

\* A table of well-formed rows has the type of the variable.
LEMMA TableTyped == \A js \in Table : js \in [JobIds -> TransportJob]
  BY DEF Table

\* Steps that change the configuration.
LEMMA ConfigurationSteps ==
    ASSUME IInv,
           \/ ConfigureLocal
           \/ \E t \in Targets, e \in BOOLEAN : ConfigureTarget(t, e)
           \/ \E e \in BOOLEAN : ConfigureSame(e)
           \/ \E s \in Segments : RenameOrganization(s)
    PROVE  IInv'
<1>1. UNCHANGED <<docs, jobs, importVars, nas, workerVars, interrupted, crashes, strays>>
  BY DEF ConfigureLocal, ConfigureTarget, ConfigureSame, RenameOrganization
<1>2. TypeOK'
  <2>1. targets' \in [Targets -> {"NONE", "ACTIVE", "RETIRED"}]
    <3>1. targets \in [Targets -> {"NONE", "ACTIVE", "RETIRED"}]
      BY DEF IInv, TypeOK
    <3>2. Retired(targets) \in [Targets -> {"NONE", "ACTIVE", "RETIRED"}]
      BY <3>1 DEF Retired
    <3>3. CASE ConfigureLocal
      BY <3>2, <3>3 DEF ConfigureLocal
    <3>4. ASSUME NEW t \in Targets, NEW e \in BOOLEAN, ConfigureTarget(t, e)
          PROVE  targets' \in [Targets -> {"NONE", "ACTIVE", "RETIRED"}]
      BY <3>2, <3>4 DEF ConfigureTarget
    <3>. QED  BY <3>1, <3>3, <3>4 DEF ConfigureSame, RenameOrganization
  <2>2. setting' \in [enabled : BOOLEAN, current : Targets \cup {NoTarget}]
    <3>1. setting \in [enabled : BOOLEAN, current : Targets \cup {NoTarget}]
      BY DEF IInv, TypeOK
    <3>2. CASE ConfigureLocal
      BY <3>2 DEF ConfigureLocal
    <3>3. ASSUME NEW t \in Targets, NEW e \in BOOLEAN, ConfigureTarget(t, e)
          PROVE  setting' \in [enabled : BOOLEAN, current : Targets \cup {NoTarget}]
      BY <3>3 DEF ConfigureTarget
    <3>4. ASSUME NEW e \in BOOLEAN, ConfigureSame(e)
          PROVE  setting' \in [enabled : BOOLEAN, current : Targets \cup {NoTarget}]
      BY <3>1, <3>4 DEF ConfigureSame
    <3>. QED  BY <3>1, <3>2, <3>3, <3>4 DEF RenameOrganization
  <2>3. segment' \in Segments
    BY DEF IInv, TypeOK, ConfigureLocal, ConfigureTarget, ConfigureSame,
           RenameOrganization
  <2>. QED  BY <1>1, <2>1, <2>2, <2>3 DEF IInv, TypeOK, workerVars, importVars
<1>. QED  BY <1>1, <1>2, OtherVariables DEF IInv

\* Steps of an importing thread.
LEMMA ImporterSteps_ ==
    ASSUME IInv, NEW d \in Docs, Importer(d) PROVE IInv'
<1>1. CASE ImportCheck(d)
  <2>1. TypeOK'
    BY <1>1 DEF IInv, TypeOK, ImportCheck, ImporterSteps, dbVars, workerVars
  <2>2. ImporterHolds'
    BY <1>1 DEF IInv, TypeOK, ImportCheck, ImporterHolds
  <2>. QED
    BY <1>1, <2>1, <2>2 DEF IInv, ImportCheck, dbVars, workerVars, RunningIsHeld,
       WorkerHolds, InJob, AtPath
<1>2. CASE ImportReadTarget(d)
  <2>1. TypeOK'
    BY <1>2 DEF IInv, TypeOK, ImportReadTarget, ImporterSteps, CurrentTargetActive,
       dbVars, workerVars
  <2>2. ImporterHolds'
    BY <1>2 DEF IInv, TypeOK, ImportReadTarget, ImporterHolds, CurrentTargetActive
  <2>. QED
    BY <1>2, <2>1, <2>2 DEF IInv, ImportReadTarget, dbVars, workerVars, RunningIsHeld,
       WorkerHolds, InJob, AtPath
<1>3. CASE ImportEnqueue(d)
  <2>1. importTarget[d] \in Targets
    BY <1>3 DEF IInv, TypeOK, ImporterHolds, ImportEnqueue
  <2>2. /\ jobs' \in Table
        /\ \A i \in JobIds : /\ jobs[i].status # "NONE" => jobs'[i] = jobs[i]
                             /\ jobs'[i].status = "RUNNING" => jobs'[i] = jobs[i]
    BY <1>3, <2>1, EnqueueRow, NullAssumption DEF IInv, ImportEnqueue
  <2>3. RunningIsHeld' /\ WorkerHolds'
    BY <1>3, <2>2, WorkerUntouched DEF ImportEnqueue, SameRow
  <2>4. TypeOK'
    BY <1>3, <2>2, TableTyped DEF IInv, TypeOK, ImportEnqueue, ImporterSteps, workerVars
  <2>5. ImporterHolds'
    BY <1>3 DEF IInv, TypeOK, ImportEnqueue, ImporterHolds
  <2>. QED  BY <2>2, <2>3, <2>4, <2>5 DEF IInv
<1>. QED  BY <1>1, <1>2, <1>3 DEF Importer
\* Steps on documents: rows are inserted PENDING or cancelled, never started.
LEMMA DocumentSteps ==
    ASSUME IInv, NEW d \in Docs,
           \/ ImportDocument(d) \/ CopyDocument(d) \/ TrashDocument(d)
           \/ RestoreDocument(d) \/ PermanentlyDeleteDocument(d)
    PROVE  IInv'
<1>1. CASE ImportDocument(d)
  <2>1. TypeOK'
    BY <1>1 DEF IInv, TypeOK, ImportDocument, DocStatuses, ImporterSteps, workerVars
  <2>2. ImporterHolds'
    BY <1>1 DEF IInv, TypeOK, ImportDocument, ImporterHolds
  <2>. QED
    BY <1>1, <2>1, <2>2 DEF IInv, ImportDocument, workerVars, RunningIsHeld,
       WorkerHolds, InJob, AtPath
<1>2. CASE CopyDocument(d)
  <2>1. /\ jobs' \in Table
        /\ \A i \in JobIds : /\ jobs[i].status # "NONE" => jobs'[i] = jobs[i]
                             /\ jobs'[i].status = "RUNNING" => jobs'[i] = jobs[i]
    <3>1. CASE IsNasEnabled
      <4>1. setting.current \in Targets
        BY <3>1 DEF IInv, TypeOK, IsNasEnabled, CurrentTargetActive
      <4>. QED  BY <1>2, <3>1, <4>1, EnqueueRow, NullAssumption DEF IInv, CopyDocument
    <3>2. CASE ~IsNasEnabled
      BY <1>2, <3>2 DEF IInv, CopyDocument
    <3>. QED  BY <3>1, <3>2
  <2>2. RunningIsHeld' /\ WorkerHolds'
    BY <1>2, <2>1, WorkerUntouched DEF CopyDocument, SameRow
  <2>3. TypeOK'
    BY <1>2, <2>1, TableTyped DEF IInv, TypeOK, CopyDocument, DocStatuses,
       importVars, workerVars
  <2>4. ImporterHolds'
    BY <1>2 DEF IInv, CopyDocument, ImporterHolds, importVars
  <2>. QED  BY <2>1, <2>2, <2>3, <2>4 DEF IInv
<1>3. CASE TrashDocument(d) \/ RestoreDocument(d)
  <2>1. TypeOK'
    BY <1>3 DEF IInv, TypeOK, TrashDocument, RestoreDocument, DocStatuses,
       importVars, workerVars
  <2>. QED  BY <1>3, <2>1, OtherVariables DEF IInv, TrashDocument, RestoreDocument
<1>4. CASE PermanentlyDeleteDocument(d)
  <2>. DEFINE cancelled == CancelUploads(jobs, d)
              uploaded == CompletedUploads(cancelled, d)
  <2>1. /\ cancelled \in Table
        /\ \A i \in JobIds : /\ SameRow(jobs[i], cancelled[i])
                             /\ cancelled[i].status = "RUNNING" => jobs[i].status = "RUNNING"
    BY ManyRows DEF IInv
  <2>2. /\ jobs' \in Table
        /\ \A i \in JobIds :
               /\ cancelled[i].status # "NONE" => jobs'[i] = cancelled[i]
               /\ jobs'[i].status = "RUNNING" => jobs'[i] = cancelled[i]
    <3>1. CASE uploaded = {}
      BY <1>4, <2>1, <3>1 DEF PermanentlyDeleteDocument, PrepareDocumentDelete
    <3>2. ASSUME NEW u \in uploaded,
                 Enqueue(cancelled, d, "DELETE", cancelled[u].target,
                         cancelled[u].target # NoTarget /\ cancelled[u].resolved,
                         cancelled[u].path)
          PROVE  /\ jobs' \in Table
                 /\ \A i \in JobIds :
                        /\ cancelled[i].status # "NONE" => jobs'[i] = cancelled[i]
                        /\ jobs'[i].status = "RUNNING" => jobs'[i] = cancelled[i]
      <4>1. u \in JobIds /\ cancelled[u] \in TransportJob /\ WellFormed(cancelled[u])
        BY <2>1 DEF Table, CompletedUploads
      <4>2. cancelled[u].status = "COMPLETED" /\ cancelled[u].path # NoPath
        BY DEF CompletedUploads
      <4>3. /\ cancelled[u].path \in Paths
            /\ cancelled[u].target \in Targets \cup {NoTarget}
            /\ cancelled[u].resolved \in BOOLEAN
        BY <4>1, <4>2 DEF TransportJob
      <4>4. cancelled[u].resolved => cancelled[u].path.target = cancelled[u].target
        BY <4>1, <4>2 DEF WellFormed
      <4>. HIDE DEF cancelled, uploaded
      <4>. QED  BY <2>1, <3>2, <4>3, <4>4, EnqueueRow
    <3>3. uploaded # {} =>
            \E u \in uploaded :
                 Enqueue(cancelled, d, "DELETE", cancelled[u].target,
                         cancelled[u].target # NoTarget /\ cancelled[u].resolved,
                         cancelled[u].path)
      BY <1>4 DEF PermanentlyDeleteDocument, PrepareDocumentDelete
    <3>. QED  BY <3>1, <3>2, <3>3
  <2>3. \A i \in JobIds :
            /\ jobs[i].status # "NONE" => SameRow(jobs[i], jobs'[i])
            /\ jobs'[i].status = "RUNNING" => jobs[i].status = "RUNNING"
    BY <2>1, <2>2 DEF SameRow
  <2>4. RunningIsHeld' /\ WorkerHolds'
    BY <1>4, <2>2, <2>3, WorkerUntouched DEF PermanentlyDeleteDocument
  <2>5. TypeOK'
    BY <1>4, <2>2, TableTyped DEF IInv, TypeOK, PermanentlyDeleteDocument, DocStatuses,
       importVars, workerVars
  <2>6. ImporterHolds'
    BY <1>4 DEF IInv, PermanentlyDeleteDocument, ImporterHolds, importVars
  <2>. QED  BY <2>2, <2>4, <2>5, <2>6 DEF IInv
<1>. QED  BY <1>1, <1>2, <1>3, <1>4

\* The administrator's decisions: rows are retried, cancelled or inserted, none
\* is started, and the thread keeps its place.
LEMMA AdministrationSteps ==
    ASSUME IInv,
           \/ RetryFailedJobs
           \/ \E j \in JobIds : CancelReconciliation(j) \/ RecreateUpload(j)
           \/ Interrupt
           \/ Trigger
    PROVE  IInv'
<1>1. CASE RetryFailedJobs
  <2>1. jobs' = RetryFailed(jobs) \/ jobs' = jobs
    BY <1>1 DEF RetryFailedJobs
  <2>2. /\ jobs' \in Table
        /\ \A i \in JobIds :
            /\ jobs[i].status # "NONE" => SameRow(jobs[i], jobs'[i])
            /\ jobs'[i].status = "RUNNING" => jobs[i].status = "RUNNING"
    <3>1. CASE Docs = {}
      <4>1. RetryFailed(jobs) = jobs
        BY <3>1 DEF IInv, Table, WellFormed, TransportJob, RetryFailed
      <4>. QED  BY <2>1, <4>1 DEF IInv, SameRow
    <3>2. CASE Docs # {}
      BY <2>1, <3>2, ManyRows DEF IInv, SameRow
    <3>. QED  BY <3>1, <3>2
  <2>3. RunningIsHeld' /\ WorkerHolds'
    BY <1>1, <2>2, WorkerUntouched DEF RetryFailedJobs
  <2>4. TypeOK'
    BY <1>1, <2>2, TableTyped DEF IInv, TypeOK, RetryFailedJobs, importVars, workerVars
  <2>. QED  BY <1>1, <2>2, <2>3, <2>4 DEF IInv, RetryFailedJobs, ImporterHolds, importVars
<1>2. ASSUME NEW j \in JobIds, CancelReconciliation(j) PROVE IInv'
  <2>1. /\ jobs' \in Table
        /\ \A i \in JobIds :
            /\ SameRow(jobs[i], jobs'[i])
            /\ jobs'[i].status = "RUNNING" => jobs[i].status = "RUNNING"
    BY <1>2, OneRow DEF IInv, CancelReconciliation
  <2>2. RunningIsHeld' /\ WorkerHolds'
    BY <1>2, <2>1, WorkerUntouched DEF CancelReconciliation
  <2>3. TypeOK'
    BY <1>2, <2>1, TableTyped DEF IInv, TypeOK, CancelReconciliation, importVars, workerVars
  <2>. QED  BY <1>2, <2>1, <2>2, <2>3 DEF IInv, CancelReconciliation, ImporterHolds, importVars
<1>3. ASSUME NEW j \in JobIds, RecreateUpload(j) PROVE IInv'
  <2>. DEFINE cancelled == Cancel(jobs, j)
  <2>1. /\ cancelled \in Table
        /\ \A i \in JobIds :
            /\ SameRow(jobs[i], cancelled[i])
            /\ cancelled[i].status = "RUNNING" => jobs[i].status = "RUNNING"
    BY <1>3, OneRow DEF IInv, RecreateUpload
  <2>2. jobs[j].doc \in Docs /\ setting.current \in Targets
    BY <1>3 DEF IInv, TypeOK, Table, WellFormed, RecreateUpload, CurrentTargetActive
  <2>3. Enqueue(cancelled, jobs[j].doc, "UPLOAD", setting.current, TRUE, NoPath)
    BY <1>3 DEF RecreateUpload
  <2>. HIDE DEF cancelled
  <2>4. /\ jobs' \in Table
        /\ \A i \in JobIds :
               /\ cancelled[i].status # "NONE" => jobs'[i] = cancelled[i]
               /\ jobs'[i].status = "RUNNING" => jobs'[i] = cancelled[i]
    BY <2>1, <2>2, <2>3, EnqueueRow, NullAssumption
  <2>5. \A i \in JobIds :
            /\ jobs[i].status # "NONE" => SameRow(jobs[i], jobs'[i])
            /\ jobs'[i].status = "RUNNING" => jobs[i].status = "RUNNING"
    BY <2>1, <2>4 DEF SameRow
  <2>6. RunningIsHeld' /\ WorkerHolds'
    BY <1>3, <2>4, <2>5, WorkerUntouched DEF RecreateUpload
  <2>7. TypeOK'
    BY <1>3, <2>4, TableTyped DEF IInv, TypeOK, RecreateUpload, importVars, workerVars
  <2>. QED  BY <1>3, <2>4, <2>6, <2>7 DEF IInv, RecreateUpload, ImporterHolds, importVars
<1>4. CASE Interrupt
  <2>1. TypeOK'
    BY <1>4 DEF IInv, TypeOK, Interrupt, dbVars, importVars, workerVars
  <2>. QED  BY <1>4, <2>1, OtherVariables DEF IInv, Interrupt, dbVars
<1>5. CASE Trigger
  <2>1. TypeOK'
    BY <1>5 DEF IInv, TypeOK, Trigger, WorkerSteps, dbVars, importVars
  <2>. QED
    BY <1>5, <2>1 DEF IInv, Trigger, dbVars, importVars, RunningIsHeld, WorkerHolds,
       ImporterHolds, InJob, AtPath
<1>. QED  BY <1>1, <1>2, <1>3, <1>4, <1>5

\* A step of the thread that leaves the table, the documents and the
\* configuration alone.
LEMMA ThreadOnly ==
    ASSUME IInv, UNCHANGED <<dbVars, importVars, interrupted, crashes>>,
           wpc' \in WorkerSteps, batch' \subseteq JobIds,
           wjob' \in JobIds \cup {NoJob}, wpath' \in Paths \cup {NoPath},
           nas' \subseteq Paths, strays' \subseteq Paths,
           InJob => InJob' /\ wjob' = wjob,
           WorkerHolds'
    PROVE  IInv'
<1>1. TypeOK'
  BY DEF IInv, TypeOK, dbVars, importVars
<1>2. RunningIsHeld'
  BY DEF IInv, RunningIsHeld, dbVars
<1>. QED  BY <1>1, <1>2 DEF IInv, ImporterHolds, dbVars, importVars

\* A step with which the thread leaves its job.
LEMMA JobLeft ==
    ASSUME IInv, NEW js \in Table, FinishJob(js),
           \A i \in JobIds : js[i].status = "RUNNING" => i # wjob /\ js[i] = jobs[i],
           nas' \subseteq Paths, strays' \subseteq Paths
    PROVE  IInv'
<1>1. TypeOK'
  BY TableTyped DEF IInv, TypeOK, FinishJob, WorkerSteps, importVars
<1>. QED  BY <1>1, JobFinished DEF IInv

\* The outcomes process_job writes end the job's run.
LEMMA Outcomes ==
    ASSUME IInv, InJob,
           nas' \subseteq Paths, strays' \subseteq Paths,
           \/ FinishJob(Fail(jobs, wjob))
           \/ FinishJob(FailDefinitive(jobs, wjob))
           \/ FinishJob(Cancel(jobs, wjob))
    PROVE  IInv'
<1>1. wjob \in JobIds /\ jobs \in Table /\ jobs[wjob].status # "NONE"
  BY DEF IInv, WorkerHolds
<1>2. ASSUME NEW js \in {Fail(jobs, wjob), FailDefinitive(jobs, wjob), Cancel(jobs, wjob)}
      PROVE  /\ js \in Table
             /\ \A i \in JobIds : js[i].status = "RUNNING" => i # wjob /\ js[i] = jobs[i]
  BY <1>1, OneRow
<1>3. PICK js \in {Fail(jobs, wjob), FailDefinitive(jobs, wjob), Cancel(jobs, wjob)} :
          FinishJob(js)
  OBVIOUS
<1>. QED  BY <1>2, <1>3, JobLeft

\* Steps of the transport thread.
LEMMA WorkerSteps_ ==
    ASSUME IInv, Worker PROVE IInv'
<1>. USE DEF IInv
<1>0. /\ wpc \in WorkerSteps /\ batch \subseteq JobIds /\ wjob \in JobIds \cup {NoJob}
      /\ wpath \in Paths \cup {NoPath} /\ nas \subseteq Paths /\ strays \subseteq Paths
      /\ jobs \in [JobIds -> TransportJob]
      /\ segment \in Segments
  BY DEF TypeOK
<1>1. CASE ListPending
  BY <1>0, <1>1, ThreadOnly DEF ListPending, Pending, WorkerSteps, WorkerHolds, InJob,
     AtPath, dbVars
<1>2. CASE EndBatch
  BY <1>0, <1>2, ThreadOnly DEF EndBatch, WorkerSteps, WorkerHolds, InJob, AtPath, dbVars
<1>3. CASE ClaimJob
  <2>1. PICK j \in batch : /\ batch' = batch \ {j}
                           /\ IF Claimable(jobs, j)
                              THEN /\ jobs' = MarkRunning(jobs, j)
                                   /\ wjob' = j
                                   /\ wpc' = "opening"
                              ELSE UNCHANGED <<jobs, wjob, wpc>>
    BY <1>3 DEF ClaimJob
  <2>2. CASE Claimable(jobs, j)
    <3>1. j \in JobIds /\ jobs[j].status # "NONE" /\ jobs[j].resolved
      BY <1>0, <2>2 DEF Claimable, Pending
    <3>2. /\ jobs' \in Table
          /\ \A i \in JobIds : /\ SameRow(jobs[i], jobs'[i])
                               /\ i # j => jobs'[i] = jobs[i]
      BY <2>1, <2>2, <3>1, OneRow
    <3>3. TypeOK'
      BY <1>0, <1>3, <2>1, <2>2, <3>1, <3>2, TableTyped
         DEF TypeOK, ClaimJob, WorkerSteps, importVars
    <3>4. RunningIsHeld'
      BY <1>3, <2>1, <2>2, <3>2 DEF RunningIsHeld, InJob, ClaimJob
    <3>5. WorkerHolds'
      BY <1>3, <2>1, <2>2, <3>1, <3>2 DEF WorkerHolds, InJob, AtPath, SameRow, ClaimJob
    <3>. QED
      BY <1>3, <3>2, <3>3, <3>4, <3>5 DEF ClaimJob, ImporterHolds, importVars
  <2>3. CASE ~Claimable(jobs, j)
    <3>1. wpc' = wpc /\ wjob' = wjob /\ wpath' = wpath /\ UNCHANGED dbVars
      BY <1>3, <2>1, <2>3 DEF ClaimJob, dbVars
    <3>2. WorkerHolds'
      BY <3>1 DEF WorkerHolds, InJob, AtPath, dbVars
    <3>. QED  BY <1>0, <1>3, <2>1, <3>1, <3>2, ThreadOnly DEF ClaimJob, InJob, importVars
  <2>. QED  BY <2>2, <2>3
<1>4. CASE \/ CancelInterrupted \/ NoAdapter \/ TransferFails \/ CleanupFails
           \/ VerifyFails \/ VerifyDiffers
  <2>1. InJob
    BY <1>4 DEF InJob, CancelInterrupted, NoAdapter, TransferFails, CleanupFails,
       VerifyFails, VerifyDiffers
  <2>2. \/ FinishJob(Fail(jobs, wjob))
        \/ FinishJob(FailDefinitive(jobs, wjob))
        \/ FinishJob(Cancel(jobs, wjob))
    BY <1>4 DEF CancelInterrupted, NoAdapter, TransferFails, CleanupFails,
       VerifyFails, VerifyDiffers
  <2>3. (VerifyFails \/ VerifyDiffers) => wpath \in Paths
    BY DEF VerifyFails, VerifyDiffers, WorkerHolds, AtPath
  <2>4. nas' \subseteq Paths /\ strays' \subseteq Paths
    BY <1>0, <1>4, <2>3 DEF CancelInterrupted, NoAdapter, TransferFails, CleanupFails,
       VerifyFails, VerifyDiffers
  <2>. QED  BY <2>1, <2>2, <2>4, Outcomes
<1>5. CASE OpenUpload
  <2>1. InJob /\ nas' \subseteq Paths /\ strays' \subseteq Paths
    BY <1>0, <1>5 DEF InJob, OpenUpload
  <2>2. CASE FinishJob(FailDefinitive(jobs, wjob))
    BY <2>1, <2>2, Outcomes
  <2>3. CASE /\ docs[jobs[wjob].doc] = "ACTIVE"
             /\ wpc' = "copying"
             /\ wpath' = [target |-> jobs[wjob].target, segment |-> segment,
                          doc |-> jobs[wjob].doc]
             /\ UNCHANGED <<dbVars, importVars, batch, wjob, interrupted, crashes>>
    <3>1. wjob \in JobIds /\ jobs[wjob].status # "NONE" /\ jobs[wjob].resolved
      BY <2>1 DEF WorkerHolds
    <3>2. jobs[wjob].doc \in Docs /\ jobs[wjob].target \in Targets \cup {NoTarget}
      BY <1>0, <3>1 DEF Table, WellFormed, TransportJob
    <3>3. wpath' \in Paths /\ wpath'.target = jobs[wjob].target
      BY <1>0, <2>3, <3>2 DEF Paths
    <3>4. WorkerHolds'
      BY <2>3, <3>1, <3>3 DEF WorkerHolds, InJob, AtPath, dbVars
    <3>. QED  BY <1>0, <1>5, <2>1, <2>3, <3>3, <3>4, ThreadOnly DEF InJob, WorkerSteps
  <2>. QED  BY <1>5, <2>2, <2>3 DEF OpenUpload
<1>6. CASE OpenDelete
  <2>1. InJob /\ nas' \subseteq Paths /\ strays' \subseteq Paths
    BY <1>0, <1>6 DEF InJob, OpenDelete
  <2>2. CASE FinishJob(FailDefinitive(jobs, wjob)) \/ FinishJob(Fail(jobs, wjob))
    BY <2>1, <2>2, Outcomes
  <2>3. CASE /\ wpc' = "removing"
             /\ wpath' = jobs[wjob].path
             /\ UNCHANGED <<dbVars, importVars, batch, wjob, interrupted, crashes>>
    <3>1. /\ wjob \in JobIds /\ jobs[wjob].status # "NONE" /\ jobs[wjob].resolved
          /\ jobs[wjob].op = "DELETE"
      BY <1>6, <2>1 DEF WorkerHolds, OpenDelete
    <3>2. wpath' \in Paths /\ wpath'.target = jobs[wjob].target
      BY <2>3, <3>1, NoPathAssumption DEF Table, WellFormed
    <3>3. WorkerHolds'
      BY <2>3, <3>1, <3>2 DEF WorkerHolds, InJob, AtPath, dbVars
    <3>. QED  BY <1>0, <1>6, <2>1, <2>3, <3>2, <3>3, ThreadOnly DEF InJob, WorkerSteps
  <2>. QED  BY <1>6, <2>2, <2>3 DEF OpenDelete
<1>7. CASE CopyToTemporary \/ PublishFile \/ RemoveFile
  <2>1. InJob /\ AtPath /\ UNCHANGED <<dbVars, importVars, batch, wjob, wpath, interrupted,
                                       crashes, strays>>
    BY <1>7 DEF CopyToTemporary, PublishFile, RemoveFile, InJob, AtPath
  <2>2. wpc' \in {"replacing", "recording"} /\ nas' \subseteq Paths
    BY <1>0, <1>7, <2>1 DEF CopyToTemporary, PublishFile, RemoveFile, WorkerHolds
  <2>3. WorkerHolds'
    BY <2>1, <2>2 DEF WorkerHolds, InJob, AtPath, dbVars
  <2>. QED  BY <1>0, <2>1, <2>2, <2>3, ThreadOnly DEF InJob, WorkerSteps
<1>8. CASE RecordCompletion
  <2>1. InJob /\ wpath \in Paths /\ wpath.target = jobs[wjob].target /\ nas' \subseteq Paths
    BY <1>0, <1>8 DEF InJob, AtPath, WorkerHolds, RecordCompletion
  <2>2. CASE jobs[wjob].status # "RUNNING" /\ jobs[wjob].op = "UPLOAD"
    <3>1. wpc' = "compensating"
          /\ UNCHANGED <<dbVars, importVars, batch, wjob, wpath, interrupted, crashes, strays>>
      BY <1>8, <2>2 DEF RecordCompletion
    <3>2. WorkerHolds'
      BY <1>8, <2>1, <2>2, <3>1 DEF WorkerHolds, InJob, AtPath, dbVars
    <3>. QED  BY <1>0, <2>1, <3>1, <3>2, ThreadOnly DEF InJob, WorkerSteps
  <2>3. CASE FinishJob(Complete(jobs, wjob, wpath)) /\ strays' = strays \ {wpath}
    <3>1. /\ Complete(jobs, wjob, wpath) \in Table
          /\ \A i \in JobIds :
                 Complete(jobs, wjob, wpath)[i].status = "RUNNING"
                 => i # wjob /\ Complete(jobs, wjob, wpath)[i] = jobs[i]
      BY <2>1, CompleteRow DEF WorkerHolds
    <3>. QED  BY <1>0, <2>1, <2>3, <3>1, JobLeft
  <2>. QED  BY <1>8, <2>2, <2>3 DEF RecordCompletion
<1>9. CASE Compensate \/ CompensationFails
  <2>1. FinishJob(jobs) /\ nas' \subseteq Paths /\ strays' \subseteq Paths
    BY <1>0, <1>9 DEF Compensate, CompensationFails, WorkerHolds, AtPath
  <2>2. \A i \in JobIds : jobs[i].status = "RUNNING" => i # wjob
    BY <1>9 DEF Compensate, CompensationFails, WorkerHolds
  <2>. QED  BY <2>1, <2>2, JobLeft
<1>. QED
  BY <1>1, <1>2, <1>3, <1>4, <1>5, <1>6, <1>7, <1>8, <1>9 DEF Worker

\* A crash takes the threads away; the restart leaves no job RUNNING.
LEMMA CrashStep ==
    ASSUME IInv, CrashAndRestart PROVE IInv'
<1>1. jobs' \in Table /\ \A i \in JobIds : jobs'[i].status # "RUNNING"
  <2>1. CASE Docs = {}
    <3>1. \A i \in JobIds : jobs[i].status = "NONE"
      BY <2>1 DEF IInv, Table, WellFormed, TransportJob
    <3>2. RecoverInterrupted(jobs) = jobs
      BY <3>1 DEF IInv, Table, RecoverInterrupted
    <3>. QED  BY <3>1, <3>2 DEF IInv, CrashAndRestart
  <2>2. CASE Docs # {}
    BY <2>2, ManyRows DEF IInv, CrashAndRestart
  <2>. QED  BY <2>1, <2>2
<1>2. crashes' \in 0..MaxCrashes
  BY BoundsAssumption DEF IInv, TypeOK, CrashAndRestart
<1>3. strays' \subseteq Paths
  BY DEF IInv, TypeOK, CrashAndRestart
<1>4. TypeOK'
  BY <1>1, <1>2, <1>3, TableTyped
     DEF IInv, TypeOK, CrashAndRestart, ImporterSteps, WorkerSteps
<1>. QED
  BY <1>1, <1>4 DEF IInv, CrashAndRestart, RunningIsHeld, WorkerHolds, ImporterHolds,
     InJob, AtPath

\* Every step of the system preserves the inductive invariant.
LEMMA Inductive == IInv /\ [Next]_vars => IInv'
<1>. SUFFICES ASSUME IInv, [Next]_vars PROVE IInv'
  OBVIOUS
<1>1. CASE Interface
  BY <1>1, ConfigurationSteps, DocumentSteps, AdministrationSteps DEF Interface
<1>2. ASSUME NEW d \in Docs, Importer(d) PROVE IInv'
  BY <1>2, ImporterSteps_
<1>3. CASE Trigger
  BY <1>3, AdministrationSteps
<1>4. CASE Worker
  BY <1>4, WorkerSteps_
<1>5. CASE CrashAndRestart
  BY <1>5, CrashStep
<1>6. CASE UNCHANGED vars
  <2>1. UNCHANGED <<docs, jobs, targets, setting, segment, nas, workerVars, importVars,
                    interrupted, crashes, strays>>
    BY <1>6 DEF vars, workerVars, importVars
  <2>2. TypeOK'
    BY <2>1 DEF IInv, TypeOK, workerVars, importVars
  <2>. QED  BY <2>1, <2>2, OtherVariables DEF IInv
<1>. QED  BY <1>1, <1>2, <1>3, <1>4, <1>5, <1>6 DEF Next

\* The inductive invariant implies the invariants the runs check.
LEMMA Implied == IInv => TypeOK /\ RunningIsHeld /\ PathsOnOwnTarget
<1>. SUFFICES ASSUME IInv PROVE PathsOnOwnTarget
  BY DEF IInv
<1>1. \A j \in JobIds : WellFormed(jobs[j])
  BY DEF IInv, Table
<1>2. wpath # NoPath => wpath.target = jobs[wjob].target
  BY DEF IInv, WorkerHolds
<1>. QED  BY <1>1, <1>2 DEF WellFormed, PathsOnOwnTarget
-----------------------------------------------------------------------------
(* The rows tell the truth about the copies.                               *)

RowOf(i, op, d) == jobs[i].status # "NONE" /\ jobs[i].op = op /\ jobs[i].doc = d
Live(i) == jobs[i].status \notin {"NONE", "CANCELLED"}

\* A document without rows: not imported yet, or on its way through an import.
RowsHaveDocs ==
    \A d \in Docs :
        /\ docs[d] = "NONE" => importer[d] = "idle"
        /\ docs[d] = "NONE" \/ importer[d] # "idle" =>
             \A i \in JobIds : jobs[i].status # "NONE" => jobs[i].doc # d

\* A document has a DELETE row once it is deleted, one, after a finished upload;
\* one of unknown target never leaves the queue but by a cancellation.
DeletesFollow ==
    \A i \in JobIds, d \in Docs : RowOf(i, "DELETE", d) =>
        /\ docs[d] = "DELETED"
        /\ \A k \in JobIds : RowOf(k, "DELETE", d) => k = i
        /\ \E u \in JobIds : RowOf(u, "UPLOAD", d) /\ jobs[u].status = "COMPLETED"
        /\ jobs[i].resolved = FALSE => jobs[i].status \in {"PENDING", "CANCELLED"}

\* A path belongs to the document of its row, and a finished job has one.
PathsOfDocs ==
    /\ \A i \in JobIds : /\ jobs[i].status # "NONE" /\ jobs[i].path # NoPath =>
                              jobs[i].path.doc = jobs[i].doc
                         /\ jobs[i].status = "COMPLETED" => jobs[i].path # NoPath
    /\ AtPath => wpath.doc = jobs[wjob].doc

\* The thread removes what its job names; it sends the one live upload of a
\* document that is not deleted, unless it has been cancelled since.
WorkerTrue ==
    InJob =>
       /\ jobs[wjob].status \in {"RUNNING", "CANCELLED"}
       /\ jobs[wjob].op = "DELETE" =>
            /\ jobs[wjob].status = "RUNNING"
            /\ wpc \in {"opening", "removing", "recording"}
            /\ AtPath => wpath = jobs[wjob].path
            /\ wpc = "recording" => wpath \notin nas
       /\ jobs[wjob].op = "UPLOAD" =>
            /\ wpc # "removing"
            /\ \A k \in JobIds : k # wjob /\ RowOf(k, "UPLOAD", jobs[wjob].doc) => ~Live(k)
            /\ jobs[wjob].status = "CANCELLED" => docs[jobs[wjob].doc] = "DELETED"
            /\ AtPath /\ jobs[wjob].status = "RUNNING" => docs[jobs[wjob].doc] # "DELETED"
            /\ wpc = "recording" => wpath \in nas

\* A copy of a document that is not deleted is recorded, in hand or a stray.
CopiesKnown ==
    \A p \in nas : docs[p.doc] # "DELETED" =>
        \/ \E i \in JobIds : /\ RowOf(i, "UPLOAD", p.doc) /\ jobs[i].status = "COMPLETED"
                             /\ jobs[i].path = p
        \/ wpc \in {"recording", "compensating"} /\ wpath = p
        \/ p \in strays

TruthInv ==
    /\ RowsHaveDocs /\ DeletesFollow /\ PathsOfDocs /\ WorkerTrue /\ CopiesKnown
    /\ JobsTellTheTruth

-----------------------------------------------------------------------------
(* What a step does to a row.                                              *)

\* process_job claims the row ...
Started(i) ==
    /\ jobs[i].status \in {"PENDING", "RETRY"} /\ jobs[i].resolved = TRUE
    /\ jobs'[i].status = "RUNNING" /\ jobs'[i].path = jobs[i].path
    /\ wpc = "next" /\ wpc' = "opening" /\ wjob' = i

\* ... and writes its outcome.
Ended(i) ==
    /\ jobs[i].status = "RUNNING" /\ InJob /\ wjob = i /\ wpc' = "next"
    /\ \/ jobs'[i].status \in {"RETRY", "FAILED", "CANCELLED"} /\ jobs'[i].path = jobs[i].path
       \/ /\ wpc = "recording" /\ jobs'[i].status = "COMPLETED" /\ jobs'[i].path = wpath

\* A restart, or the administrator, puts it back.
Requeued(i) ==
    /\ \/ jobs[i].status = "RUNNING" /\ wpc' = "idle"
       \/ jobs[i].status = "FAILED" /\ jobs[i].resolved = TRUE
    /\ jobs'[i].status = "RETRY" /\ jobs'[i].path = jobs[i].path

\* The administrator cancels a row of unknown target.
Dropped(i) ==
    /\ jobs[i].status \in {"PENDING", "RETRY", "FAILED"} /\ jobs[i].resolved = FALSE
    /\ jobs'[i].status = "CANCELLED" /\ jobs'[i].path = jobs[i].path

\* The deletion of the document cancels its upload.
Withdrawn(i) ==
    /\ jobs[i].status \in ActiveStatuses /\ jobs[i].op = "UPLOAD"
    /\ docs[jobs[i].doc] = "TRASHED" /\ docs'[jobs[i].doc] = "DELETED"
    /\ jobs'[i].status = "CANCELLED" /\ jobs'[i].path = jobs[i].path

Moved(i) ==
    /\ SameRow(jobs[i], jobs'[i])
    /\ Started(i) \/ Ended(i) \/ Requeued(i) \/ Dropped(i) \/ Withdrawn(i)

\* A row is inserted: for an import or a copy, which are the document's first,
\* or in the place of an upload of unknown target ...
BornUpload(i, d) ==
    /\ jobs[i].status = "NONE"
    /\ jobs'[i].status = "PENDING" /\ jobs'[i].op = "UPLOAD" /\ jobs'[i].doc = d
    /\ jobs'[i].path = NoPath
    /\ \/ importer[d] = "ready" /\ importer'[d] = "idle" /\ docs' = docs
       \/ docs[d] = "NONE" /\ docs'[d] = "ACTIVE" /\ importer' = importer
       \/ /\ docs[d] = "ACTIVE" /\ docs' = docs
          /\ \E j \in JobIds : RowOf(j, "UPLOAD", d) /\ Dropped(j)

\* ... or for the deletion, naming what was uploaded.
BornDelete(i, d) ==
    /\ jobs[i].status = "NONE"
    /\ jobs'[i].status = "PENDING" /\ jobs'[i].op = "DELETE" /\ jobs'[i].doc = d
    /\ docs[d] = "TRASHED" /\ docs'[d] = "DELETED"
    /\ \E u \in JobIds : /\ RowOf(u, "UPLOAD", d) /\ jobs[u].status = "COMPLETED"
                         /\ jobs'[i].path = jobs[u].path

Born(i) == \E d \in Docs : BornUpload(i, d) \/ BornDelete(i, d)

TableStep ==
    /\ \A i \in JobIds : jobs'[i] = jobs[i] \/ Moved(i) \/ Born(i)
    /\ \A i, k \in JobIds : Born(i) /\ Born(k) => i = k

\* _enqueue leaves the table alone or inserts one PENDING row.
LEMMA EnqueueBirth ==
    ASSUME NEW js \in Table, NEW d, NEW op, NEW t, NEW r, NEW p,
           Enqueue(js, d, op, t, r, p)
    PROVE  \/ FindActive(js, d, op) # {} /\ jobs' = js
           \/ /\ FindActive(js, d, op) = {}
              /\ \E j \in JobIds :
                   /\ js[j].status = "NONE"
                   /\ jobs'[j].doc = d /\ jobs'[j].op = op /\ jobs'[j].status = "PENDING"
                   /\ jobs'[j].path = p
                   /\ \A i \in JobIds : i # j => jobs'[i] = js[i]
    BY DEF Enqueue, NextId, Insert, Table

\* The rows of deleted documents as the deletion leaves them.
Buried(d) ==
    /\ \A i \in JobIds : jobs'[i].op = "UPLOAD" /\ jobs'[i].doc = d =>
                            jobs'[i].status \notin ActiveStatuses
    /\ \A u \in JobIds : RowOf(u, "UPLOAD", d) /\ jobs[u].status = "COMPLETED" =>
          \E k \in JobIds : BornDelete(k, d) /\ jobs'[k].path = jobs[u].path
    /\ UNCHANGED <<workerVars, importVars, nas, strays>>

\* The deletion of a document withdraws its uploads and names what is stored.
LEMMA DeletionStep ==
    ASSUME IInv, TruthInv, NEW d \in Docs, PermanentlyDeleteDocument(d)
    PROVE  TableStep /\ Buried(d)
<1> DEFINE cancelled == CancelUploads(jobs, d)
           uploaded == CompletedUploads(cancelled, d)
<1>1. /\ cancelled \in Table
      /\ \A i \in JobIds : /\ SameRow(jobs[i], cancelled[i])
                           /\ cancelled[i].path = jobs[i].path
                           /\ \/ cancelled[i] = jobs[i]
                              \/ /\ jobs[i].status \in ActiveStatuses /\ jobs[i].op = "UPLOAD"
                                 /\ jobs[i].doc = d /\ cancelled[i].status = "CANCELLED"
      /\ \A i \in JobIds : jobs[i].op = "UPLOAD" /\ jobs[i].doc = d =>
                              cancelled[i].status \notin ActiveStatuses
  <2>1. cancelled \in Table /\ \A i \in JobIds : SameRow(jobs[i], cancelled[i])
    BY ManyRows DEF IInv
  <2>2. \A i \in JobIds : cancelled[i] = IF /\ jobs[i].doc = d /\ jobs[i].op = "UPLOAD"
                                            /\ jobs[i].status \in ActiveStatuses
                                         THEN [jobs[i] EXCEPT !.status = "CANCELLED"] ELSE jobs[i]
    BY DEF CancelUploads, FindActive
  <2>3. jobs \in [JobIds -> TransportJob]
    BY DEF IInv, TypeOK
  <2> HIDE DEF cancelled
  <2> QED
    BY <2>1, <2>2, <2>3 DEF TransportJob
<1>2. docs[d] = "TRASHED" /\ docs'[d] = "DELETED" /\ UNCHANGED <<workerVars, importVars, nas, strays>>
  BY DEF PermanentlyDeleteDocument, IInv, TypeOK
<1>3. uploaded = {j \in JobIds : RowOf(j, "UPLOAD", d) /\ jobs[j].status = "COMPLETED"}
  <2>1. \A j \in JobIds : cancelled[j].status = "COMPLETED" <=> jobs[j].status = "COMPLETED"
    BY <1>1
  <2>2. \A j \in JobIds : jobs[j].status = "COMPLETED" => jobs[j].path # NoPath
    BY DEF TruthInv, PathsOfDocs
  <2> HIDE DEF cancelled
  <2> QED
    BY <1>1, <2>1, <2>2 DEF CompletedUploads, RowOf, SameRow
<1>4. \/ uploaded = {} /\ jobs' = cancelled
      \/ \E u \in uploaded, k \in JobIds :
            /\ cancelled[k].status = "NONE"
            /\ jobs'[k].doc = d /\ jobs'[k].op = "DELETE" /\ jobs'[k].status = "PENDING"
            /\ jobs'[k].path = cancelled[u].path
            /\ \A i \in JobIds : i # k => jobs'[i] = cancelled[i]
  <2>1. CASE uploaded = {}
    BY <2>1 DEF PermanentlyDeleteDocument, PrepareDocumentDelete
  <2>2. CASE uploaded # {}
    <3>1. PICK u \in uploaded :
             Enqueue(cancelled, d, "DELETE", cancelled[u].target,
                     cancelled[u].target # NoTarget /\ cancelled[u].resolved,
                     cancelled[u].path)
      BY <2>2 DEF PermanentlyDeleteDocument, PrepareDocumentDelete
    <3> HIDE DEF cancelled, uploaded
    <3>2. FindActive(cancelled, d, "DELETE") = {}
      BY <1>1, <1>2 DEF FindActive, SameRow, TruthInv, DeletesFollow, RowOf
    <3> QED
      BY <1>1, <3>1, <3>2, EnqueueBirth
  <2> QED
    BY <2>1, <2>2
<1> HIDE DEF cancelled, uploaded
<1>6. ASSUME NEW i \in JobIds, jobs'[i] = cancelled[i] PROVE jobs'[i] = jobs[i] \/ Moved(i)
  BY <1>1, <1>2, <1>6 DEF Moved, Withdrawn
<1>7. CASE uploaded = {} /\ jobs' = cancelled
  <2>1. \A i \in JobIds : ~Born(i)
    BY <1>1, <1>7 DEF Born, BornUpload, BornDelete, SameRow
  <2>2. Buried(d)
    BY <1>1, <1>2, <1>3, <1>7 DEF Buried, SameRow
  <2> QED
    BY <1>6, <1>7, <2>1, <2>2 DEF TableStep
<1>8. CASE \E u \in uploaded, k \in JobIds :
            /\ cancelled[k].status = "NONE"
            /\ jobs'[k].doc = d /\ jobs'[k].op = "DELETE" /\ jobs'[k].status = "PENDING"
            /\ jobs'[k].path = cancelled[u].path
            /\ \A i \in JobIds : i # k => jobs'[i] = cancelled[i]
  <2>1. PICK u \in uploaded, k \in JobIds :
            /\ cancelled[k].status = "NONE"
            /\ jobs'[k].doc = d /\ jobs'[k].op = "DELETE" /\ jobs'[k].status = "PENDING"
            /\ jobs'[k].path = cancelled[u].path
            /\ \A i \in JobIds : i # k => jobs'[i] = cancelled[i]
    BY <1>8
  <2>2. /\ u \in JobIds /\ RowOf(u, "UPLOAD", d) /\ jobs[u].status = "COMPLETED"
        /\ jobs'[k].path = jobs[u].path /\ jobs[k].status = "NONE"
    BY <1>1, <1>3, <2>1 DEF SameRow
  <2>3. BornDelete(k, d)
    BY <1>2, <2>1, <2>2 DEF BornDelete
  <2>4. \A i \in JobIds : Born(i) => i = k
    BY <1>1, <2>1 DEF Born, BornUpload, BornDelete, SameRow
  <2>5. \A v \in JobIds : RowOf(v, "UPLOAD", d) /\ jobs[v].status = "COMPLETED" => v = u
    BY <2>2 DEF TruthInv, JobsTellTheTruth, OneUploadPerDocument, RowOf
  <2>6. Buried(d)
    BY <1>1, <1>2, <2>1, <2>2, <2>3, <2>5 DEF Buried, SameRow
  <2>7. TableStep
    BY <1>6, <2>1, <2>3, <2>4 DEF TableStep, Born
  <2> QED
    BY <2>6, <2>7
<1> QED
  BY <1>4, <1>7, <1>8

\* An insertion for an import, a copy or a lost target is the document's one.
LEMMA InsertionStep ==
    ASSUME IInv, TruthInv,
           \/ \E d \in Docs : ImportEnqueue(d) \/ CopyDocument(d)
           \/ \E j \in JobIds : RecreateUpload(j)
    PROVE  TableStep
<1>1. jobs \in Table
  BY DEF IInv
<1>2. ASSUME NEW js \in Table, NEW d \in Docs, NEW t, NEW r, Enqueue(js, d, "UPLOAD", t, r, NoPath),
             \A i \in JobIds : js[i] = jobs[i] \/ Moved(i) \/ jobs'[i] # js[i],
             \A i \in JobIds : js[i].status = "NONE" <=> jobs[i].status = "NONE",
             \/ importer[d] = "ready" /\ importer'[d] = "idle" /\ docs' = docs
             \/ docs[d] = "NONE" /\ docs'[d] = "ACTIVE" /\ importer' = importer
             \/ /\ docs[d] = "ACTIVE" /\ docs' = docs
                /\ \E j \in JobIds : /\ RowOf(j, "UPLOAD", d)
                                     /\ Dropped(j) \/ jobs'[j] # js[j]
      PROVE  TableStep
  <2>1. CASE jobs' = js
    <3>1. \A i \in JobIds : ~Born(i)
      BY <1>2, <2>1 DEF Born, BornUpload, BornDelete
    <3> QED
      BY <1>2, <2>1, <3>1 DEF TableStep
  <2>2. CASE \E j \in JobIds :
                   /\ js[j].status = "NONE"
                   /\ jobs'[j].doc = d /\ jobs'[j].op = "UPLOAD" /\ jobs'[j].status = "PENDING"
                   /\ jobs'[j].path = NoPath
                   /\ \A i \in JobIds : i # j => jobs'[i] = js[i]
    <3>1. PICK k \in JobIds :
                   /\ js[k].status = "NONE"
                   /\ jobs'[k].doc = d /\ jobs'[k].op = "UPLOAD" /\ jobs'[k].status = "PENDING"
                   /\ jobs'[k].path = NoPath
                   /\ \A i \in JobIds : i # k => jobs'[i] = js[i]
      BY <2>2
    <3>2. \A j \in JobIds : RowOf(j, "UPLOAD", d) => j # k /\ jobs'[j] = js[j]
      BY <1>2, <3>1 DEF RowOf
    <3>3. BornUpload(k, d)
      BY <1>2, <3>1, <3>2 DEF BornUpload
    <3>4. \A i \in JobIds : Born(i) => i = k
      BY <1>2, <3>1 DEF Born, BornUpload, BornDelete
    <3>5. \A i \in JobIds : jobs'[i] = jobs[i] \/ Moved(i) \/ Born(i)
      BY <1>2, <3>1, <3>3 DEF Born
    <3> QED
      BY <3>4, <3>5 DEF TableStep
  <2> QED
    BY <1>2, <2>1, <2>2, EnqueueBirth
<1>3. ASSUME NEW d \in Docs, ImportEnqueue(d) PROVE TableStep
  <2>1. importer'[d] = "idle"
    BY <1>3 DEF ImportEnqueue, IInv, TypeOK
  <2> QED
    BY <1>1, <1>2, <1>3, <2>1 DEF ImportEnqueue
<1>4. ASSUME NEW d \in Docs, CopyDocument(d) PROVE TableStep
  <2>1. docs[d] = "NONE" /\ docs'[d] = "ACTIVE" /\ importer' = importer
    BY <1>4 DEF CopyDocument, importVars, IInv, TypeOK
  <2>2. CASE IsNasEnabled
    BY <1>1, <1>2, <1>4, <2>1, <2>2 DEF CopyDocument
  <2>3. CASE jobs' = jobs
    BY <2>3 DEF TableStep, Born, BornUpload, BornDelete
  <2> QED
    BY <1>4, <2>2, <2>3 DEF CopyDocument
<1>5. ASSUME NEW j \in JobIds, RecreateUpload(j) PROVE TableStep
  <2> DEFINE cancelled == Cancel(jobs, j)
             d == jobs[j].doc
  <2>1. /\ jobs[j].status # "NONE" /\ jobs[j].op = "UPLOAD" /\ ~jobs[j].resolved
        /\ docs[d] = "ACTIVE" /\ docs' = docs /\ Cancellable(jobs, j)
        /\ Enqueue(cancelled, d, "UPLOAD", setting.current, TRUE, NoPath)
    BY <1>5 DEF RecreateUpload
  <2>2. /\ cancelled \in Table
        /\ \A i \in JobIds : SameRow(jobs[i], cancelled[i]) /\ (i # j => cancelled[i] = jobs[i])
    BY <1>1, <2>1, OneRow
  <2>3. d \in Docs /\ RowOf(j, "UPLOAD", d)
    BY <1>1, <2>1 DEF Table, WellFormed, RowOf
  <2>4. /\ jobs[j].status \in {"PENDING", "RETRY", "FAILED"} /\ jobs[j].resolved = FALSE
        /\ cancelled[j].status = "CANCELLED" /\ cancelled[j].path = jobs[j].path
    <3>1. jobs[j].status # "RUNNING"
      BY <2>1 DEF IInv, RunningIsHeld, WorkerHolds
    <3> QED
      BY <2>1, <3>1 DEF Cancel, Cancellable, IInv, TypeOK, TransportJob
  <2> HIDE DEF cancelled, d
  <2>5. \A i \in JobIds : cancelled[i] = jobs[i] \/ Moved(i) \/ jobs'[i] # cancelled[i]
    BY <2>2, <2>4 DEF Moved, Dropped
  <2>6. Dropped(j) \/ jobs'[j] # cancelled[j]
    BY <2>4 DEF Dropped
  <2> QED
    BY <1>2, <2>1, <2>2, <2>3, <2>5, <2>6 DEF SameRow
<1> QED
  BY <1>3, <1>4, <1>5

\* A step that moves rows and inserts none.
LEMMA MovesOnly ==
    ASSUME \A i \in JobIds : jobs'[i] = jobs[i] \/ Moved(i)
    PROVE  TableStep
  BY DEF TableStep, Born, BornUpload, BornDelete, Moved, SameRow

\* Every step changes the rows in these ways.
LEMMA TableSteps == IInv /\ TruthInv /\ Next => TableStep
<1> SUFFICES ASSUME IInv, TruthInv, Next PROVE TableStep
  OBVIOUS
<1>1. jobs \in Table /\ jobs \in [JobIds -> TransportJob]
  BY DEF IInv, TypeOK
<1>2. ASSUME jobs' = jobs PROVE TableStep
  BY <1>2, MovesOnly
<1>3. CASE RetryFailedJobs
  <2>1. \A i \in JobIds : RetryFailed(jobs)[i] =
           IF jobs[i].status = "FAILED" /\ jobs[i].resolved
           THEN [jobs[i] EXCEPT !.status = "RETRY"] ELSE jobs[i]
    BY DEF RetryFailed
  <2>2. jobs' = RetryFailed(jobs) \/ jobs' = jobs
    BY <1>3 DEF RetryFailedJobs
  <2>3. ASSUME jobs' = RetryFailed(jobs), NEW i \in JobIds PROVE jobs'[i] = jobs[i] \/ Moved(i)
    BY <1>1, <2>1, <2>3 DEF Moved, Requeued, SameRow, TransportJob
  <2> QED
    BY <1>2, <2>2, <2>3, MovesOnly
<1>4. ASSUME NEW j \in JobIds, CancelReconciliation(j) PROVE TableStep
  <2>1. jobs[j].status # "RUNNING" /\ jobs[j].status # "NONE" /\ jobs[j].resolved = FALSE
    BY <1>1, <1>4 DEF IInv, RunningIsHeld, WorkerHolds, CancelReconciliation, TransportJob
  <2>2. jobs' = Cancel(jobs, j)
    BY <1>4 DEF CancelReconciliation
  <2>3. \A i \in JobIds : jobs'[i] = jobs[i] \/ Moved(i)
    BY <1>1, <2>1, <2>2, OneRow DEF Cancel, Cancellable, Moved, Dropped, SameRow, TransportJob
  <2> QED
    BY <2>3, MovesOnly
<1>5. CASE CrashAndRestart
  <2>1. \A i \in JobIds : jobs'[i] = IF jobs[i].status = "RUNNING"
                                     THEN [jobs[i] EXCEPT !.status = "RETRY"] ELSE jobs[i]
    BY <1>5 DEF CrashAndRestart, RecoverInterrupted
  <2>2. \A i \in JobIds : jobs'[i] = jobs[i] \/ Moved(i)
    BY <1>1, <1>5, <2>1 DEF CrashAndRestart, Moved, Requeued, SameRow, TransportJob
  <2> QED
    BY <2>2, MovesOnly
<1>6. CASE ClaimJob
  <2>1. PICK j \in batch : IF Claimable(jobs, j)
                           THEN jobs' = MarkRunning(jobs, j) /\ wjob' = j /\ wpc' = "opening"
                           ELSE jobs' = jobs
    BY <1>6 DEF ClaimJob
  <2>2. CASE Claimable(jobs, j)
    <3>1. /\ j \in JobIds /\ jobs[j].status \in {"PENDING", "RETRY"} /\ jobs[j].resolved = TRUE
          /\ wpc = "next"
      BY <1>1, <1>6, <2>2 DEF Claimable, Pending, ClaimJob, TransportJob
    <3>2. /\ \A i \in JobIds : SameRow(jobs[i], jobs'[i]) /\ (i # j => jobs'[i] = jobs[i])
          /\ jobs'[j].status = "RUNNING" /\ jobs'[j].path = jobs[j].path
      BY <1>1, <2>1, <2>2, <3>1, OneRow DEF MarkRunning, TransportJob
    <3> QED
      BY <2>1, <2>2, <3>1, <3>2, MovesOnly DEF Moved, Started
  <2> QED
    BY <1>2, <2>1, <2>2
<1>7. ASSUME InJob, \/ FinishJob(Fail(jobs, wjob)) \/ FinishJob(FailDefinitive(jobs, wjob))
                    \/ FinishJob(Cancel(jobs, wjob)) \/ FinishJob(jobs)
                    \/ wpc = "recording" /\ FinishJob(Complete(jobs, wjob, wpath))
      PROVE  TableStep
  <2>1. /\ wjob \in JobIds /\ jobs[wjob].status \in {"RUNNING", "CANCELLED"}
        /\ wpc = "recording" => wpath \in Paths /\ wpath.target = jobs[wjob].target
    BY <1>7 DEF IInv, WorkerHolds, TruthInv, WorkerTrue, AtPath
  <2>2. wpc' = "next"
    BY <1>7 DEF FinishJob
  <2>3. CASE jobs' \in {Fail(jobs, wjob), FailDefinitive(jobs, wjob), Cancel(jobs, wjob)}
    <3>1. \A i \in JobIds : /\ SameRow(jobs[i], jobs'[i])
                            /\ i # wjob => jobs'[i] = jobs[i]
      BY <1>1, <2>1, <2>3, OneRow
    <3>2. \/ jobs'[wjob] = jobs[wjob]
          \/ /\ jobs[wjob].status = "RUNNING"
             /\ jobs'[wjob].status \in {"RETRY", "FAILED", "CANCELLED"}
             /\ jobs'[wjob].path = jobs[wjob].path
      BY <1>1, <2>1, <2>3 DEF Fail, FailDefinitive, Cancel, Cancellable, TransportJob
    <3> QED
      BY <1>7, <2>2, <3>1, <3>2, MovesOnly DEF Moved, Ended
  <2>4. CASE wpc = "recording" /\ jobs' = Complete(jobs, wjob, wpath)
    <3>1. \A i \in JobIds : /\ SameRow(jobs[i], jobs'[i])
                            /\ i # wjob => jobs'[i] = jobs[i]
      BY <1>1, <2>1, <2>4, CompleteRow
    <3>2. \/ jobs'[wjob] = jobs[wjob]
          \/ /\ jobs[wjob].status = "RUNNING" /\ jobs'[wjob].status = "COMPLETED"
             /\ jobs'[wjob].path = wpath
      BY <1>1, <2>1, <2>4, NoPathAssumption DEF Complete, TransportJob
    <3> QED
      BY <1>7, <2>2, <2>4, <3>1, <3>2, MovesOnly DEF Moved, Ended
  <2> QED
    BY <1>2, <1>7, <2>3, <2>4 DEF FinishJob
<1>8. CASE Worker
  <2>1. \/ UNCHANGED jobs \/ ClaimJob
        \/ /\ InJob
           /\ \/ FinishJob(Fail(jobs, wjob)) \/ FinishJob(FailDefinitive(jobs, wjob))
              \/ FinishJob(Cancel(jobs, wjob)) \/ FinishJob(jobs)
              \/ wpc = "recording" /\ FinishJob(Complete(jobs, wjob, wpath))
    BY <1>8
    DEF Worker, ListPending, EndBatch, CancelInterrupted, NoAdapter, OpenUpload, OpenDelete,
        CopyToTemporary, TransferFails, CleanupFails, PublishFile, VerifyFails, VerifyDiffers,
        RemoveFile, RecordCompletion, Compensate, CompensationFails, InJob, dbVars
  <2> QED
    BY <1>2, <1>6, <1>7, <2>1
<1>9. CASE Interface
  <2>1. \/ UNCHANGED jobs
        \/ \E d \in Docs : CopyDocument(d) \/ PermanentlyDeleteDocument(d)
        \/ RetryFailedJobs
        \/ \E j \in JobIds : CancelReconciliation(j) \/ RecreateUpload(j)
    BY <1>9
    DEF Interface, ConfigureLocal, ConfigureTarget, ConfigureSame, RenameOrganization,
        ImportDocument, TrashDocument, RestoreDocument, Interrupt, dbVars
  <2> QED
    BY <1>2, <1>3, <1>4, <2>1, InsertionStep, DeletionStep
<1>10. ASSUME NEW d \in Docs, Importer(d) PROVE TableStep
  BY <1>2, <1>10, InsertionStep DEF Importer, ImportCheck, ImportReadTarget, dbVars
<1>11. CASE Trigger
  BY <1>2, <1>11 DEF Trigger, dbVars
<1> QED
  BY <1>5, <1>8, <1>9, <1>10, <1>11 DEF Next

\* What a step does to the documents and the importing threads.
LEMMA DocumentStep ==
    ASSUME IInv, TruthInv, Next, NEW d \in Docs
    PROVE  /\ \/ docs'[d] = docs[d]
              \/ docs[d] = "NONE" /\ docs'[d] = "ACTIVE"
              \/ docs[d] \in {"ACTIVE", "TRASHED"} /\ docs'[d] \in {"ACTIVE", "TRASHED"}
              \/ docs[d] = "TRASHED" /\ docs'[d] = "DELETED" /\ Buried(d)
           /\ \/ importer'[d] = importer[d] \/ importer'[d] = "idle" \/ importer[d] # "idle"
              \/ docs[d] = "NONE" /\ docs'[d] = "ACTIVE" /\ UNCHANGED jobs
<1>1. docs \in [Docs -> DocStatuses] /\ importer \in [Docs -> ImporterSteps]
  BY DEF IInv, TypeOK
<1>2. ASSUME NEW e \in Docs, PermanentlyDeleteDocument(e)
      PROVE  /\ docs' = [docs EXCEPT ![e] = "DELETED"] /\ docs[e] = "TRASHED" /\ Buried(e)
             /\ importer' = importer
  BY <1>2, DeletionStep DEF PermanentlyDeleteDocument, importVars
<1>3. \/ UNCHANGED docs
      \/ \E e \in Docs : \/ docs[e] = "NONE" /\ docs' = [docs EXCEPT ![e] = "ACTIVE"]
                         \/ docs[e] = "ACTIVE" /\ docs' = [docs EXCEPT ![e] = "TRASHED"]
                         \/ docs[e] = "TRASHED" /\ docs' = [docs EXCEPT ![e] = "ACTIVE"]
                         \/ PermanentlyDeleteDocument(e)
  BY DEF Next, Interface, ConfigureLocal, ConfigureTarget, ConfigureSame, RenameOrganization,
     ImportDocument, CopyDocument, TrashDocument, RestoreDocument, RetryFailedJobs,
     CancelReconciliation, RecreateUpload, Interrupt, Importer, ImportCheck, ImportReadTarget,
     ImportEnqueue, Trigger, Worker, ListPending, EndBatch, ClaimJob, CancelInterrupted, NoAdapter,
     OpenUpload, OpenDelete, CopyToTemporary, TransferFails, CleanupFails, PublishFile,
     VerifyFails, VerifyDiffers, RemoveFile, RecordCompletion, Compensate, CompensationFails,
     CrashAndRestart, FinishJob, dbVars
<1>4. \/ UNCHANGED importer
      \/ \E e \in Docs : \/ /\ docs[e] = "NONE" /\ docs' = [docs EXCEPT ![e] = "ACTIVE"]
                            /\ importer' = [importer EXCEPT ![e] = "saved"] /\ UNCHANGED jobs
                         \/ /\ importer[e] # "idle"
                            /\ \E pc \in ImporterSteps : importer' = [importer EXCEPT ![e] = pc]
      \/ importer' = [e \in Docs |-> "idle"]
  BY DEF Next, Interface, ConfigureLocal, ConfigureTarget, ConfigureSame, RenameOrganization,
     ImportDocument, CopyDocument, TrashDocument, RestoreDocument, PermanentlyDeleteDocument,
     RetryFailedJobs, CancelReconciliation, RecreateUpload, Interrupt, Importer, ImportCheck,
     ImportReadTarget, ImportEnqueue, Trigger, Worker, ListPending, EndBatch, ClaimJob,
     CancelInterrupted, NoAdapter, OpenUpload, OpenDelete, CopyToTemporary, TransferFails,
     CleanupFails, PublishFile, VerifyFails, VerifyDiffers, RemoveFile, RecordCompletion,
     Compensate, CompensationFails, CrashAndRestart, FinishJob, importVars, ImporterSteps
<1>5. \/ docs'[d] = docs[d]
      \/ docs[d] = "NONE" /\ docs'[d] = "ACTIVE"
      \/ docs[d] \in {"ACTIVE", "TRASHED"} /\ docs'[d] \in {"ACTIVE", "TRASHED"}
      \/ docs[d] = "TRASHED" /\ docs'[d] = "DELETED" /\ Buried(d)
  BY <1>1, <1>2, <1>3
<1>6. \/ importer'[d] = importer[d] \/ importer'[d] = "idle" \/ importer[d] # "idle"
      \/ docs[d] = "NONE" /\ docs'[d] = "ACTIVE" /\ UNCHANGED jobs
  BY <1>1, <1>4
<1> QED
  BY <1>5, <1>6

\* What the proofs use of a step of the table: rows keep their identity, finished
\* and cancelled ones stay as they are, and what is live or finished afterwards
\* was so before, has just been inserted or has just been finished.
LEMMA RowFacts ==
    ASSUME IInv, TruthInv, TableStep, NEW i \in JobIds
    PROVE  /\ jobs[i].status # "NONE" => SameRow(jobs[i], jobs'[i]) /\ ~Born(i)
           /\ jobs[i].status \in {"COMPLETED", "CANCELLED"} =>
                jobs'[i].status = jobs[i].status /\ jobs'[i].path = jobs[i].path
           /\ Live(i)' => Live(i) \/ Born(i)
           /\ \A op \in Operations, d \in Docs : RowOf(i, op, d)' =>
                \/ RowOf(i, op, d)
                \/ op = "UPLOAD" /\ BornUpload(i, d)
                \/ op = "DELETE" /\ BornDelete(i, d)
           /\ jobs'[i].status = "COMPLETED" =>
                \/ jobs'[i] = jobs[i]
                \/ Ended(i) /\ wpc = "recording" /\ jobs'[i].path = wpath
<1>1. jobs'[i] = jobs[i] \/ Moved(i) \/ Born(i)
  BY DEF TableStep
<1>2. jobs[i].status # "NONE" => ~Born(i)
  BY DEF Born, BornUpload, BornDelete
<1>3. Moved(i) => SameRow(jobs[i], jobs'[i]) /\ jobs[i].status \notin {"NONE", "COMPLETED", "CANCELLED"}
  BY DEF Moved, Started, Ended, Requeued, Dropped, Withdrawn
<1>4. Moved(i) /\ jobs'[i].status = "COMPLETED" =>
        Ended(i) /\ wpc = "recording" /\ jobs'[i].path = wpath
  BY DEF Moved, Started, Ended, Requeued, Dropped, Withdrawn
<1>5. Born(i) => jobs'[i].status = "PENDING"
  BY DEF Born, BornUpload, BornDelete
<1>6. jobs[i].status # "NONE" => SameRow(jobs[i], jobs'[i]) /\ ~Born(i)
  BY <1>1, <1>2, <1>3 DEF SameRow
<1>7. \A op \in Operations, d \in Docs : RowOf(i, op, d)' =>
                \/ RowOf(i, op, d)
                \/ op = "UPLOAD" /\ BornUpload(i, d)
                \/ op = "DELETE" /\ BornDelete(i, d)
  <2> SUFFICES ASSUME NEW op \in Operations, NEW d \in Docs, RowOf(i, op, d)'
               PROVE  \/ RowOf(i, op, d)
                      \/ op = "UPLOAD" /\ BornUpload(i, d)
                      \/ op = "DELETE" /\ BornDelete(i, d)
    OBVIOUS
  <2>1. CASE jobs[i].status # "NONE" \/ jobs'[i] = jobs[i]
    BY <1>6, <2>1 DEF RowOf, SameRow
  <2>2. CASE Born(i)
    BY <2>2 DEF Born, BornUpload, BornDelete, RowOf
  <2> QED
    BY <1>1, <1>3, <2>1, <2>2
<1> QED
  BY <1>1, <1>3, <1>4, <1>5, <1>6, <1>7 DEF Live

\* The documents of the rows.
LEMMA RowTyped ==
    ASSUME IInv
    PROVE  /\ \A i \in JobIds : jobs[i].status # "NONE" => jobs[i].doc \in Docs
           /\ \A i \in JobIds : jobs[i].op \in Operations
           /\ \A i \in JobIds : jobs[i].op = "DELETE" => jobs[i].path \in Paths
           /\ \A i \in JobIds : jobs[i].path \in Paths \cup {NoPath}
           /\ NoPath \notin Paths
           /\ \A p \in Paths : p.doc \in Docs
           /\ nas \subseteq Paths
           /\ docs \in [Docs -> DocStatuses] /\ importer \in [Docs -> ImporterSteps]
           /\ InJob => /\ wjob \in JobIds /\ jobs[wjob].status # "NONE"
                       /\ jobs[wjob].resolved = TRUE
           /\ AtPath => InJob /\ wpath \in Paths
  BY NoPathAssumption
  DEF IInv, Table, WellFormed, TypeOK, TransportJob, Paths, WorkerHolds, AtPath, InJob

\* The rows of the next state have documents too.
LEMMA DocsOfRows ==
    ASSUME IInv, Next
    PROVE  \A q \in JobIds : jobs'[q].status # "NONE" => jobs'[q].doc \in Docs
<1>1. IInv'
  BY Inductive
<1> QED
  BY <1>1 DEF IInv, Table, WellFormed

\* Only the thread and its start change where the thread stands, and the NAS.
LEMMA ThreadSteps ==
    ASSUME Next
    PROVE  UNCHANGED <<workerVars, nas, strays>> \/ Trigger \/ Worker \/ CrashAndRestart
  BY DEF Next, Interface, ConfigureLocal, ConfigureTarget, ConfigureSame, RenameOrganization,
     ImportDocument, CopyDocument, TrashDocument, RestoreDocument, PermanentlyDeleteDocument,
     RetryFailedJobs, CancelReconciliation, RecreateUpload, Interrupt, Importer, ImportCheck,
     ImportReadTarget, ImportEnqueue, workerVars

\* A document gets rows only after its import, and the importing thread ends with
\* the first.
LEMMA RowsHaveDocsStep == IInv /\ TruthInv /\ Next => RowsHaveDocs'
<1> SUFFICES ASSUME IInv, TruthInv, Next, NEW d \in Docs
             PROVE  /\ docs'[d] = "NONE" => importer'[d] = "idle"
                    /\ docs'[d] = "NONE" \/ importer'[d] # "idle" =>
                         \A i \in JobIds : jobs'[i].status # "NONE" => jobs'[i].doc # d
  BY DEF RowsHaveDocs
<1>1. TableStep /\ RowsHaveDocs
  BY TableSteps DEF TruthInv
<1>2. /\ docs'[d] = "NONE" => docs[d] = "NONE"
      /\ \/ importer'[d] = importer[d] \/ importer'[d] = "idle" \/ importer[d] # "idle"
         \/ docs[d] = "NONE" /\ docs'[d] = "ACTIVE" /\ UNCHANGED jobs
  BY DocumentStep
<1>3. docs'[d] = "NONE" => importer'[d] = "idle"
  BY <1>1, <1>2 DEF RowsHaveDocs
<1>4. ASSUME NEW i \in JobIds, jobs'[i].status # "NONE", jobs'[i].doc = d
      PROVE  docs'[d] # "NONE" /\ importer'[d] = "idle"
  <2>1. ASSUME NEW j \in JobIds, jobs[j].status # "NONE", jobs[j].doc = d
        PROVE  docs'[d] # "NONE" /\ importer'[d] = "idle"
    BY <1>1, <1>2, <2>1 DEF RowsHaveDocs
  <2>2. CASE jobs[i].status # "NONE"
    BY <1>1, <1>4, <2>1, <2>2, RowFacts DEF SameRow
  <2>3. CASE BornUpload(i, d)
    <3>1. CASE importer[d] = "ready" /\ importer'[d] = "idle" /\ docs' = docs
      BY <1>1, <3>1 DEF RowsHaveDocs
    <3>2. CASE docs[d] = "NONE" /\ docs'[d] = "ACTIVE" /\ importer' = importer
      BY <1>1, <3>2 DEF RowsHaveDocs
    <3> QED
      BY <2>1, <2>3, <3>1, <3>2 DEF BornUpload, RowOf
  <2>4. CASE BornDelete(i, d)
    BY <2>1, <2>4 DEF BornDelete, RowOf
  <2>5. CASE jobs[i].status = "NONE"
    <3>1. Born(i)
      BY <1>1, <1>4, <2>5 DEF TableStep, Moved, Started, Ended, Requeued, Dropped, Withdrawn
    <3> QED
      BY <1>4, <2>3, <2>4, <3>1 DEF Born, BornUpload, BornDelete
  <2> QED
    BY <2>2, <2>5
<1> QED
  BY <1>3, <1>4

\* A DELETE row comes with the deletion, after a finished upload, and is alone.
LEMMA DeleteRowStep ==
    ASSUME IInv, TruthInv, Next, NEW i \in JobIds, NEW d \in Docs, RowOf(i, "DELETE", d)'
    PROVE  /\ docs'[d] = "DELETED"
           /\ \A k \in JobIds : RowOf(k, "DELETE", d)' => k = i
           /\ \E u \in JobIds : RowOf(u, "UPLOAD", d)' /\ jobs'[u].status = "COMPLETED"
           /\ jobs'[i].resolved = FALSE => jobs'[i].status \in {"PENDING", "CANCELLED"}
<1>1. TableStep /\ DeletesFollow
  BY TableSteps DEF TruthInv
<1>3. d \in Docs
  OBVIOUS
<1>4. RowOf(i, "DELETE", d)'
  OBVIOUS
<1>5. ASSUME NEW u \in JobIds, RowOf(u, "UPLOAD", d), jobs[u].status = "COMPLETED"
      PROVE  RowOf(u, "UPLOAD", d)' /\ jobs'[u].status = "COMPLETED"
  BY <1>1, <1>5, RowFacts DEF RowOf, SameRow
<1>6. \A k \in JobIds : RowOf(k, "DELETE", d)' => RowOf(k, "DELETE", d) \/ BornDelete(k, d)
  BY <1>1, <1>3, RowFacts
<1>7. \A k \in JobIds : RowOf(k, "DELETE", d) => docs[d] = "DELETED"
  BY <1>1 DEF DeletesFollow, RowOf
<1>8. CASE RowOf(i, "DELETE", d)
  <2>1. docs[d] = "DELETED" /\ docs'[d] = "DELETED"
    BY <1>3, <1>7, <1>8, DocumentStep
  <2>2. \A k \in JobIds : RowOf(k, "DELETE", d)' => k = i
    BY <1>1, <1>6, <1>8, <2>1 DEF DeletesFollow, RowOf, BornDelete
  <2>3. \E u \in JobIds : RowOf(u, "UPLOAD", d)' /\ jobs'[u].status = "COMPLETED"
    BY <1>1, <1>5, <1>8 DEF DeletesFollow, RowOf
  <2>4. jobs'[i].resolved = FALSE => jobs'[i].status \in {"PENDING", "CANCELLED"}
    <3>1. jobs'[i].resolved = jobs[i].resolved /\ ~Born(i)
      BY <1>1, <1>8, RowFacts DEF SameRow, RowOf
    <3>2. jobs[i].resolved = FALSE => jobs[i].status \in {"PENDING", "CANCELLED"}
      BY <1>1, <1>8 DEF DeletesFollow, RowOf
    <3> QED
      BY <1>1, <3>1, <3>2
      DEF TableStep, Moved, Started, Ended, Requeued, Dropped, Withdrawn
  <2> QED
    BY <2>1, <2>2, <2>3, <2>4
<1>9. CASE BornDelete(i, d)
  <2>1. docs[d] = "TRASHED" /\ docs'[d] = "DELETED" /\ jobs'[i].status = "PENDING" /\ Born(i)
    BY <1>3, <1>9 DEF BornDelete, Born
  <2>2. \A k \in JobIds : RowOf(k, "DELETE", d)' => k = i
    BY <1>1, <1>3, <1>6, <1>7, <2>1 DEF TableStep, Born
  <2>3. \E u \in JobIds : RowOf(u, "UPLOAD", d)' /\ jobs'[u].status = "COMPLETED"
    BY <1>5, <1>9 DEF BornDelete
  <2> QED
    BY <2>1, <2>2, <2>3
<1> QED
  BY <1>4, <1>6, <1>8, <1>9

\* Hence each step keeps what is said of the DELETE rows.
LEMMA DeletesFollowStep == IInv /\ TruthInv /\ Next => DeletesFollow'
<1> SUFFICES ASSUME IInv, TruthInv, Next, NEW i \in JobIds, NEW d \in Docs,
                    RowOf(i, "DELETE", d)'
             PROVE  /\ docs'[d] = "DELETED"
                    /\ \A k \in JobIds : RowOf(k, "DELETE", d)' => k = i
                    /\ \E u \in JobIds : RowOf(u, "UPLOAD", d)' /\ jobs'[u].status = "COMPLETED"
                    /\ jobs'[i].resolved = FALSE => jobs'[i].status \in {"PENDING", "CANCELLED"}
  BY DEF DeletesFollow
<1> QED
  BY DeleteRowStep

\* Two live uploads of a document would have been two before.
LEMMA OneUploadStep == IInv /\ TruthInv /\ Next => OneUploadPerDocument'
<1> SUFFICES ASSUME IInv, TruthInv, Next, NEW d \in Docs, NEW i \in JobIds, NEW k \in JobIds,
                    RowOf(i, "UPLOAD", d)', RowOf(k, "UPLOAD", d)', Live(i)', Live(k)'
             PROVE  i = k
  <2>1. IInv /\ Next => \A q \in JobIds : jobs'[q].status # "NONE" => jobs'[q].doc \in Docs
    BY DocsOfRows
  <2> QED
    BY <2>1 DEF OneUploadPerDocument, RowOf, Live
<1>1. TableStep /\ OneUploadPerDocument /\ RowsHaveDocs
  BY TableSteps DEF TruthInv, JobsTellTheTruth
<1>2. \A j \in JobIds : RowOf(j, "UPLOAD", d)' /\ Live(j)' =>
                           BornUpload(j, d) \/ (RowOf(j, "UPLOAD", d) /\ Live(j))
  BY <1>1, RowFacts DEF Operations, RowOf
<1>3. ASSUME NEW a \in JobIds, NEW b \in JobIds, BornUpload(a, d),
             RowOf(b, "UPLOAD", d), Live(b), Live(b)'
      PROVE  FALSE
  <2>1. docs[d] # "NONE" /\ importer[d] = "idle"
    BY <1>1, <1>3 DEF RowsHaveDocs, RowOf
  <2>2. PICK j \in JobIds : RowOf(j, "UPLOAD", d) /\ Dropped(j)
    BY <1>3, <2>1 DEF BornUpload
  <2>3. j = b
    BY <1>1, <1>3, <2>2 DEF OneUploadPerDocument, RowOf, Live, Dropped
  <2> QED
    BY <1>3, <2>2, <2>3 DEF Dropped, Live
<1>4. BornUpload(i, d) /\ BornUpload(k, d) => i = k
  BY <1>1 DEF TableStep, Born
<1>5. (RowOf(i, "UPLOAD", d) /\ Live(i)) /\ (RowOf(k, "UPLOAD", d) /\ Live(k)) => i = k
  BY <1>1 DEF OneUploadPerDocument, RowOf, Live
<1> QED
  BY <1>2, <1>3, <1>4, <1>5

\* A path recorded is the path in hand, which is its document's.
LEMMA PathsStep == IInv /\ TruthInv /\ Next => PathsOfDocs'
<1> SUFFICES ASSUME IInv, TruthInv, Next PROVE PathsOfDocs'
  OBVIOUS
<1>1. TableStep /\ PathsOfDocs
  BY TableSteps DEF TruthInv
<1>2. ASSUME NEW i \in JobIds
      PROVE  /\ jobs'[i].status # "NONE" /\ jobs'[i].path # NoPath => jobs'[i].path.doc = jobs'[i].doc
             /\ jobs'[i].status = "COMPLETED" => jobs'[i].path # NoPath
  <2>1. CASE jobs'[i] = jobs[i]
    BY <1>1, <2>1 DEF PathsOfDocs
  <2>2. CASE Moved(i)
    <3>1. \/ jobs'[i].path = jobs[i].path /\ jobs'[i].status # "COMPLETED"
          \/ jobs'[i].path = wpath /\ wjob = i /\ AtPath
      BY <2>2 DEF Moved, Started, Ended, Requeued, Dropped, Withdrawn, AtPath
    <3>2. jobs'[i].doc = jobs[i].doc /\ jobs[i].status # "NONE"
      BY <2>2 DEF Moved, SameRow, Started, Ended, Requeued, Dropped, Withdrawn
    <3> QED
      BY <1>1, <3>1, <3>2, RowTyped DEF PathsOfDocs
  <2>3. CASE Born(i)
    BY <1>1, <2>3 DEF Born, BornUpload, BornDelete, PathsOfDocs, RowOf
  <2> QED
    BY <1>1, <2>1, <2>2, <2>3 DEF TableStep
<1>3. AtPath' => wpath'.doc = jobs'[wjob'].doc
  <2>1. \/ AtPath /\ wpath' = wpath /\ wjob' = wjob
        \/ OpenUpload /\ InJob /\ wjob' = wjob /\ wpath'.doc = jobs[wjob].doc
        \/ OpenDelete /\ InJob /\ wjob' = wjob /\ wpath' = jobs[wjob].path /\ jobs[wjob].op = "DELETE"
        \/ ~AtPath'
    <3>1. CASE UNCHANGED <<workerVars, nas, strays>>
      BY <3>1 DEF AtPath, workerVars
    <3>2. CASE Trigger \/ CrashAndRestart
      BY <3>2 DEF Trigger, CrashAndRestart, AtPath
    <3>3. CASE OpenUpload
      <4>1. jobs[wjob].op = "UPLOAD" /\ InJob
        BY <3>3 DEF OpenUpload, InJob
      <4> QED
        BY <3>3, <4>1 DEF OpenUpload, FinishJob, AtPath
    <3>4. CASE OpenDelete
      BY <3>4 DEF OpenDelete, FinishJob, AtPath, InJob
    <3>5. CASE Worker /\ ~OpenUpload /\ ~OpenDelete
      BY <3>5
      DEF Worker, ListPending, EndBatch, ClaimJob, CancelInterrupted, NoAdapter, CopyToTemporary,
          TransferFails, CleanupFails, PublishFile, VerifyFails, VerifyDiffers, RemoveFile,
          RecordCompletion, Compensate, CompensationFails, FinishJob, AtPath
    <3> QED
      BY <3>1, <3>2, <3>3, <3>4, <3>5, ThreadSteps
  <2>2. InJob => jobs'[wjob].doc = jobs[wjob].doc
    BY <1>1, RowTyped, RowFacts DEF SameRow
  <2> QED
    BY <1>1, <2>1, <2>2, RowTyped DEF PathsOfDocs
<1> QED
  BY <1>2, <1>3 DEF PathsOfDocs
-----------------------------------------------------------------------------
(* What a step does to the transport thread and the NAS.                   *)

\* The thread is between two jobs and stays there.
Outside == ~InJob /\ ~InJob' /\ UNCHANGED <<docs, nas, strays>>

\* It claims a job.
Claims ==
    /\ wjob' \in JobIds /\ Started(wjob') /\ UNCHANGED <<docs, nas, strays>>
    /\ \A i \in JobIds : i # wjob' => jobs'[i] = jobs[i]

\* It goes on with its job.
Advances ==
    /\ InJob /\ UNCHANGED <<jobs, docs, wjob, strays>>
    /\ \/ /\ wpc = "opening" /\ wpc' = "copying" /\ nas' = nas
          /\ jobs[wjob].op = "UPLOAD" /\ docs[jobs[wjob].doc] = "ACTIVE"
       \/ /\ wpc = "opening" /\ wpc' = "removing" /\ nas' = nas
          /\ jobs[wjob].op = "DELETE" /\ wpath' = jobs[wjob].path
       \/ wpc = "copying" /\ wpc' = "replacing" /\ wpath' = wpath /\ nas' = nas
       \/ wpc = "replacing" /\ wpc' = "recording" /\ wpath' = wpath /\ nas' = nas \cup {wpath}
       \/ wpc = "removing" /\ wpc' = "recording" /\ wpath' = wpath /\ nas' = nas \ {wpath}
       \/ /\ wpc = "recording" /\ wpc' = "compensating" /\ wpath' = wpath /\ nas' = nas
          /\ jobs[wjob].status # "RUNNING" /\ jobs[wjob].op = "UPLOAD"

\* It leaves its job.
Leaves ==
    /\ InJob /\ wpc' = "next" /\ UNCHANGED docs
    /\ \A i \in JobIds : i # wjob => jobs'[i] = jobs[i]
    /\ \/ /\ wpc \notin {"recording", "compensating"} /\ UNCHANGED <<nas, strays>>
          /\ jobs'[wjob].status # "COMPLETED"
       \/ /\ wpc = "replacing" /\ jobs'[wjob].status # "COMPLETED"
          /\ \/ nas' = nas \cup {wpath} /\ strays' = strays \cup {wpath}
             \/ nas' = nas \ {wpath} /\ strays' = strays \ {wpath}
       \/ /\ wpc = "recording" /\ UNCHANGED nas /\ strays' = strays \ {wpath}
          /\ jobs[wjob].status = "RUNNING" \/ jobs[wjob].op # "UPLOAD"
          /\ jobs[wjob].status = "RUNNING" =>
                jobs'[wjob].status = "COMPLETED" /\ jobs'[wjob].path = wpath
       \/ /\ wpc = "compensating" /\ UNCHANGED jobs
          /\ \/ nas' = nas \ {wpath} /\ strays' = strays \ {wpath}
             \/ nas' = nas /\ strays' = strays \cup {wpath}

\* It dies.
Dies ==
    /\ wpc' = "idle" /\ UNCHANGED <<docs, nas>>
    /\ strays' = IF wpath \in nas /\ wpc \in {"recording", "compensating"}
                 THEN strays \cup {wpath} ELSE strays

\* Whatever ends a transfer that was not published leaves the job unfinished.
LEMMA LeavesUnfinished ==
    ASSUME IInv, TruthInv, InJob, wpc \notin {"recording", "compensating"},
           \/ FinishJob(Fail(jobs, wjob)) \/ FinishJob(FailDefinitive(jobs, wjob))
           \/ FinishJob(Cancel(jobs, wjob)),
           \/ UNCHANGED <<nas, strays>>
           \/ /\ wpc = "replacing"
              /\ \/ nas' = nas \cup {wpath} /\ strays' = strays \cup {wpath}
                 \/ nas' = nas \ {wpath} /\ strays' = strays \ {wpath}
    PROVE  Leaves
<1>1. /\ jobs \in [JobIds -> TransportJob] /\ wjob \in JobIds
      /\ jobs[wjob].status \in {"RUNNING", "CANCELLED"}
  BY DEF IInv, TypeOK, WorkerHolds, TruthInv, WorkerTrue
<1>2. jobs' \in {Fail(jobs, wjob), FailDefinitive(jobs, wjob), Cancel(jobs, wjob)}
      /\ wpc' = "next" /\ UNCHANGED docs
  BY DEF FinishJob
<1>3. /\ \A i \in JobIds : i # wjob => jobs'[i] = jobs[i]
      /\ jobs'[wjob].status # "COMPLETED"
  BY <1>1, <1>2 DEF Fail, FailDefinitive, Cancel, Cancellable, TransportJob
<1> QED
  BY <1>2, <1>3 DEF Leaves

\* A step leaves the thread where it is or is one of these.
LEMMA ThreadMoves ==
    ASSUME IInv, TruthInv, Next
    PROVE  UNCHANGED <<wpc, wjob, wpath, nas, strays>>
           \/ Outside \/ Claims \/ Advances \/ Leaves \/ Dies
<1>1. jobs \in [JobIds -> TransportJob] /\ (InJob => wjob \in JobIds)
      /\ (AtPath => wpath # NoPath)
  BY NoPathAssumption DEF IInv, TypeOK, WorkerHolds
<1>2. CASE Trigger \/ ListPending \/ EndBatch
  BY <1>2 DEF Trigger, ListPending, EndBatch, Outside, InJob, dbVars
<1>3. CASE CrashAndRestart
  BY <1>3 DEF CrashAndRestart, Dies
<1>4. CASE ClaimJob
  <2>1. PICK j \in batch : IF Claimable(jobs, j)
                           THEN jobs' = MarkRunning(jobs, j) /\ wjob' = j /\ wpc' = "opening"
                           ELSE UNCHANGED <<wjob, wpc>>
    BY <1>4 DEF ClaimJob
  <2>2. /\ wpc = "next" /\ UNCHANGED <<docs, nas, strays, wpath>>
    BY <1>4 DEF ClaimJob
  <2>3. CASE Claimable(jobs, j)
    <3>1. j \in JobIds /\ jobs[j].status \in {"PENDING", "RETRY"} /\ jobs[j].resolved = TRUE
      BY <1>1, <2>3 DEF Claimable, Pending, TransportJob
    <3>2. /\ \A i \in JobIds : i # j => jobs'[i] = jobs[i]
          /\ jobs'[j].status = "RUNNING" /\ jobs'[j].path = jobs[j].path
      BY <1>1, <2>1, <2>3, <3>1 DEF MarkRunning, TransportJob
    <3> QED
      BY <2>1, <2>2, <2>3, <3>1, <3>2 DEF Claims, Started
  <2> QED
    BY <2>1, <2>2, <2>3
<1>5. CASE CancelInterrupted \/ NoAdapter \/ TransferFails \/ CleanupFails \/ VerifyFails \/ VerifyDiffers
  <2>1. /\ InJob /\ wpc \notin {"recording", "compensating"}
        /\ \/ FinishJob(Fail(jobs, wjob)) \/ FinishJob(FailDefinitive(jobs, wjob))
           \/ FinishJob(Cancel(jobs, wjob))
        /\ \/ UNCHANGED <<nas, strays>>
           \/ /\ wpc = "replacing"
              /\ \/ nas' = nas \cup {wpath} /\ strays' = strays \cup {wpath}
                 \/ nas' = nas \ {wpath} /\ strays' = strays \ {wpath}
    BY <1>5 DEF CancelInterrupted, NoAdapter, TransferFails, CleanupFails, VerifyFails,
       VerifyDiffers, InJob
  <2> QED
    BY <2>1, LeavesUnfinished
<1>6. CASE OpenUpload \/ OpenDelete
  <2>1. CASE wpc' = "next" /\ (FinishJob(Fail(jobs, wjob)) \/ FinishJob(FailDefinitive(jobs, wjob)))
    <3>1. InJob /\ wpc \notin {"recording", "compensating"} /\ UNCHANGED <<nas, strays>>
      BY <1>6 DEF OpenUpload, OpenDelete, InJob
    <3> QED
      BY <2>1, <3>1, LeavesUnfinished
  <2>2. CASE wpc' # "next"
    BY <1>6, <2>2 DEF OpenUpload, OpenDelete, Advances, InJob, FinishJob, dbVars
  <2> QED
    BY <1>6, <2>1, <2>2 DEF OpenUpload, OpenDelete, FinishJob
<1>7. CASE CopyToTemporary \/ PublishFile \/ RemoveFile
  BY <1>7 DEF CopyToTemporary, PublishFile, RemoveFile, Advances, InJob, dbVars
<1>8. CASE RecordCompletion
  <2>1. CASE jobs[wjob].status # "RUNNING" /\ jobs[wjob].op = "UPLOAD"
    BY <1>8, <2>1 DEF RecordCompletion, Advances, InJob, dbVars
  <2>2. CASE ~(jobs[wjob].status # "RUNNING" /\ jobs[wjob].op = "UPLOAD")
    <3>1. /\ wpc = "recording" /\ InJob /\ AtPath /\ UNCHANGED <<docs, nas>>
          /\ jobs' = Complete(jobs, wjob, wpath) /\ strays' = strays \ {wpath} /\ wpc' = "next"
      BY <1>8, <2>2 DEF RecordCompletion, FinishJob, InJob, AtPath
    <3>2. /\ \A i \in JobIds : i # wjob => jobs'[i] = jobs[i]
          /\ jobs[wjob].status = "RUNNING" =>
                jobs'[wjob].status = "COMPLETED" /\ jobs'[wjob].path = wpath
      BY <1>1, <3>1 DEF Complete, TransportJob
    <3> QED
      BY <2>2, <3>1, <3>2 DEF Leaves
  <2> QED
    BY <2>1, <2>2
<1>9. CASE Compensate \/ CompensationFails
  BY <1>9 DEF Compensate, CompensationFails, FinishJob, Leaves, InJob
<1> QED
  BY <1>2, <1>3, <1>4, <1>5, <1>6, <1>7, <1>8, <1>9, ThreadSteps DEF Worker, workerVars

\* A row that is not finished by the step keeps its path.
LEMMA PathKept ==
    ASSUME TableStep, NEW i \in JobIds, jobs[i].status # "NONE"
    PROVE  /\ jobs'[i].status # "COMPLETED" => jobs'[i].path = jobs[i].path
           /\ wpc' # "next" /\ jobs[i].status # "COMPLETED" => jobs'[i].status # "COMPLETED"
  BY DEF TableStep, Moved, Started, Ended, Requeued, Dropped, Withdrawn, Born, BornUpload,
     BornDelete

\* What is live in the next state besides the upload in hand was so before.
LEMMA OthersDead ==
    ASSUME IInv, TruthInv, Next, InJob, jobs[wjob].op = "UPLOAD",
           NEW d \in Docs, d = jobs[wjob].doc,
           NEW k \in JobIds, k # wjob, RowOf(k, "UPLOAD", d)'
    PROVE  ~Live(k)'
<1>1. d = jobs[wjob].doc
  OBVIOUS
<1>2. /\ wjob \in JobIds /\ jobs[wjob].status \in {"RUNNING", "CANCELLED"}
      /\ \A j \in JobIds : j # wjob /\ RowOf(j, "UPLOAD", d) => ~Live(j)
  BY <1>1, RowTyped DEF TruthInv, WorkerTrue
<1>3. TableStep /\ RowsHaveDocs
  BY TableSteps DEF TruthInv
<1>4. SUFFICES ASSUME RowOf(k, "UPLOAD", d)', Live(k)' PROVE FALSE
  OBVIOUS
<1>5. ~RowOf(k, "UPLOAD", d)
  BY <1>2, <1>3, <1>4, RowFacts DEF RowOf, Live
<1>6. BornUpload(k, d)
  BY <1>1, <1>3, <1>4, <1>5, RowFacts DEF Operations
<1>7. docs[d] # "NONE" /\ importer[d] = "idle"
  BY <1>1, <1>2, <1>3 DEF RowsHaveDocs
<1>8. PICK j \in JobIds : RowOf(j, "UPLOAD", d) /\ Dropped(j)
  BY <1>6, <1>7 DEF BornUpload
<1> QED
  BY <1>2, <1>8 DEF Dropped, Live

\* The job in hand stays true to the rows and the documents.
LEMMA WorkerTrueStep == IInv /\ TruthInv /\ Next => WorkerTrue'
<1> SUFFICES ASSUME IInv, TruthInv, Next, InJob' PROVE WorkerTrue'
  BY DEF WorkerTrue
<1>1. TableStep /\ WorkerTrue /\ OneUploadPerDocument /\ DeletesFollow
  BY TableSteps DEF TruthInv, JobsTellTheTruth
<1>2. CASE UNCHANGED <<wpc, wjob, wpath, nas, strays>>
  <2>1. PICK d \in Docs : d = jobs[wjob].doc
    BY <1>2, RowTyped DEF InJob
  <2>2. /\ InJob /\ wjob \in JobIds /\ jobs[wjob].status \in {"RUNNING", "CANCELLED"}
        /\ jobs[wjob].resolved = TRUE /\ wpc \notin {"next", "idle"}
    BY <1>1, <1>2, RowTyped DEF WorkerTrue, InJob
  <2>3. jobs'[wjob] = jobs[wjob] \/ (SameRow(jobs[wjob], jobs'[wjob]) /\ Withdrawn(wjob))
    BY <1>1, <1>2, <2>2
    DEF TableStep, Moved, Started, Ended, Requeued, Dropped, Born, BornUpload, BornDelete
  <2>4. jobs'[wjob].doc = d /\ jobs'[wjob].op = jobs[wjob].op
    BY <2>1, <2>3 DEF SameRow
  <2>5. jobs'[wjob].status \in {"RUNNING", "CANCELLED"}
    BY <2>2, <2>3 DEF Withdrawn
  <2>6. CASE jobs[wjob].op = "DELETE"
    <3>1. jobs'[wjob] = jobs[wjob]
      BY <2>3, <2>6 DEF Withdrawn
    <3> QED
      BY <1>1, <1>2, <2>2, <2>6, <3>1 DEF WorkerTrue, AtPath
  <2>7. CASE jobs[wjob].op = "UPLOAD"
    <3>1. \A k \in JobIds : k # wjob /\ RowOf(k, "UPLOAD", d)' => ~Live(k)'
      BY <2>1, <2>2, <2>4, <2>7, OthersDead
    <3>2. \/ docs'[d] = docs[d]
          \/ docs[d] # "DELETED" /\ docs'[d] # "DELETED"
          \/ docs[d] = "TRASHED" /\ docs'[d] = "DELETED" /\ Buried(d)
      BY DocumentStep
    <3>3. jobs'[wjob].status = "CANCELLED" => docs'[d] = "DELETED"
      BY <1>1, <2>1, <2>2, <2>3, <2>7, <3>2 DEF WorkerTrue, Withdrawn
    <3>4. AtPath /\ jobs'[wjob].status = "RUNNING" => docs'[d] # "DELETED"
      <4>1. Buried(d) => jobs'[wjob].status # "RUNNING"
        BY <2>2, <2>4, <2>7 DEF Buried
      <4> QED
        BY <1>1, <2>1, <2>2, <2>3, <2>7, <3>2, <4>1 DEF WorkerTrue, Withdrawn
    <3>5. wpc # "removing" /\ (wpc = "recording" => wpath \in nas)
      BY <1>1, <2>2, <2>7 DEF WorkerTrue
    <3> QED
      BY <1>2, <2>4, <2>5, <2>7, <3>1, <3>3, <3>4, <3>5 DEF WorkerTrue, AtPath, RowOf, Live
  <2> QED
    BY <2>2, <2>6, <2>7, RowTyped
<1>3. CASE Claims
  <2>1. /\ wpc' = "opening" /\ wjob' \in JobIds /\ jobs'[wjob'].status = "RUNNING"
        /\ jobs[wjob'].status \in {"PENDING", "RETRY"}
        /\ SameRow(jobs[wjob'], jobs'[wjob'])
    BY <1>1, <1>3, RowFacts DEF Claims, Started
  <2>2. PICK j \in JobIds : j = wjob'
    BY <2>1
  <2>3. ASSUME NEW k \in JobIds, k # j, jobs'[j].op = "UPLOAD",
               jobs'[k].status # "NONE", jobs'[k].op = "UPLOAD", jobs'[k].doc = jobs'[j].doc
        PROVE  jobs'[k].status = "CANCELLED"
    <3>1. jobs'[k] = jobs[k]
      BY <1>3, <2>2, <2>3 DEF Claims
    <3>2. jobs[k].op = "UPLOAD" /\ jobs[k].doc = jobs[j].doc /\ jobs[j].op = "UPLOAD"
      BY <2>1, <2>2, <2>3, <3>1 DEF SameRow
    <3> QED
      BY <1>1, <2>1, <2>2, <2>3, <3>1, <3>2 DEF OneUploadPerDocument
  <2> QED
    BY <2>1, <2>2, <2>3 DEF WorkerTrue, AtPath, RowOf, Live
<1>4. CASE Advances
  <2>1. InJob /\ jobs' = jobs /\ docs' = docs /\ wjob' = wjob /\ wjob \in JobIds
    BY <1>4, RowTyped DEF Advances
  <2>2. jobs[wjob].status \in {"RUNNING", "CANCELLED"}
    BY <1>1, <2>1 DEF WorkerTrue
  <2>3. CASE jobs[wjob].op = "DELETE"
    BY <1>1, <1>4, <2>1, <2>2, <2>3 DEF WorkerTrue, Advances, AtPath
  <2>4. CASE jobs[wjob].op = "UPLOAD"
    <3>1. PICK d \in Docs : d = jobs[wjob].doc
      BY <2>1, RowTyped
    <3>4. \A k \in JobIds : k # wjob /\ RowOf(k, "UPLOAD", d)' => ~Live(k)'
      BY <2>1, <2>4, <3>1, OthersDead
    <3>2. /\ wpc' # "removing"
          /\ jobs[wjob].status = "CANCELLED" => docs[jobs[wjob].doc] = "DELETED"
          /\ AtPath' /\ jobs[wjob].status = "RUNNING" => docs[jobs[wjob].doc] # "DELETED"
          /\ wpc' = "recording" => wpath' \in nas'
      BY <1>1, <1>4, <2>1, <2>2, <2>4 DEF WorkerTrue, Advances, AtPath
    <3> QED
      BY <2>1, <2>2, <2>4, <3>1, <3>2, <3>4 DEF WorkerTrue, RowOf, Live
  <2> QED
    BY <2>1, <2>3, <2>4, RowTyped DEF Operations
<1>5. CASE Outside \/ Leaves \/ Dies
  BY <1>5 DEF Outside, Leaves, Dies, InJob
<1> QED
  BY <1>2, <1>3, <1>4, <1>5, ThreadMoves

\* A copy in the hands of the thread, between the NAS and the record of it.
InHand(p) == wpc \in {"recording", "compensating"} /\ wpath = p

\* A copy is known by a row, in hand or a stray.
KnownByRow(p) ==
    \/ /\ docs[p.doc] # "DELETED"
       /\ \E i \in JobIds : /\ RowOf(i, "UPLOAD", p.doc) /\ jobs[i].status = "COMPLETED"
                            /\ jobs[i].path = p
    \/ /\ docs[p.doc] = "DELETED"
       /\ \E i \in JobIds : /\ RowOf(i, "DELETE", p.doc) /\ jobs[i].path = p
                            /\ jobs[i].status # "COMPLETED"

Known(p) == KnownByRow(p) \/ InHand(p) \/ p \in strays

\* The two invariants on copies are one.
LEMMA AllKnown ==
    ASSUME IInv, PathsOfDocs
    PROVE  CopiesKnown /\ NoUnknownCopy <=> \A p \in nas : Known(p)
<1>1. \A p \in nas, i \in JobIds :
         jobs[i].status # "NONE" /\ jobs[i].path = p => jobs[i].doc = p.doc
  BY RowTyped DEF PathsOfDocs
<1> QED
  BY <1>1 DEF CopiesKnown, NoUnknownCopy, Known, KnownByRow, InHand, RowOf

\* A row that knows a copy still does, or the thread has just removed it.
LEMMA RowStillKnows ==
    ASSUME IInv, TruthInv, Next, NEW p \in nas, KnownByRow(p)
    PROVE  KnownByRow(p)' \/ (Leaves /\ wpc = "recording" /\ wpath = p)
<1> DEFINE d == p.doc
<1>1. TableStep /\ DeletesFollow /\ d \in Docs
  BY TableSteps, RowTyped DEF TruthInv
<1>2. \/ docs'[d] = docs[d]
      \/ docs[d] # "DELETED" /\ docs'[d] # "DELETED"
      \/ docs[d] = "TRASHED" /\ docs'[d] = "DELETED" /\ Buried(d)
  BY <1>1, DocumentStep
<1> HIDE DEF d
<1>3. ASSUME NEW i \in JobIds, RowOf(i, "UPLOAD", d), jobs[i].status = "COMPLETED",
             jobs[i].path = p, docs[d] # "DELETED"
      PROVE  KnownByRow(p)'
  <2>1. RowOf(i, "UPLOAD", d)' /\ jobs'[i].status = "COMPLETED" /\ jobs'[i].path = p
    BY <1>1, <1>3, RowFacts DEF RowOf, SameRow
  <2>2. CASE docs'[d] # "DELETED"
    BY <2>1, <2>2 DEF KnownByRow, d
  <2>3. CASE docs[d] = "TRASHED" /\ docs'[d] = "DELETED" /\ Buried(d)
    <3>1. PICK k \in JobIds : BornDelete(k, d) /\ jobs'[k].path = p
      BY <1>3, <2>3 DEF Buried
    <3>2. RowOf(k, "DELETE", d)' /\ jobs'[k].status # "COMPLETED"
      BY <3>1 DEF BornDelete, RowOf
    <3> QED
      BY <2>3, <3>1, <3>2 DEF KnownByRow, d
  <2> QED
    BY <1>2, <1>3, <2>2, <2>3
<1>4. ASSUME NEW i \in JobIds, RowOf(i, "DELETE", d), jobs[i].path = p,
             jobs[i].status # "COMPLETED", docs[d] = "DELETED"
      PROVE  KnownByRow(p)' \/ (Leaves /\ wpc = "recording" /\ wpath = p)
  <2>1. RowOf(i, "DELETE", d)' /\ docs'[d] = "DELETED"
    BY <1>1, <1>2, <1>4, RowFacts DEF RowOf, SameRow
  <2>2. CASE jobs'[i].status # "COMPLETED"
    <3>1. jobs'[i].path = p
      BY <1>1, <1>4, <2>2, PathKept DEF RowOf
    <3> QED
      BY <2>1, <2>2, <3>1 DEF KnownByRow, d
  <2>3. CASE jobs'[i].status = "COMPLETED"
    <3>1. Ended(i) /\ wpc = "recording" /\ wjob = i /\ InJob /\ wpc' = "next"
      BY <1>1, <1>4, <2>3, RowFacts DEF Ended
    <3>2. wpath = p
      BY <1>4, <3>1 DEF TruthInv, WorkerTrue, AtPath, RowOf
    <3>3. Leaves
      BY <3>1, ThreadMoves DEF Outside, Claims, Started, Advances, Dies
    <3> QED
      BY <3>1, <3>2, <3>3
  <2> QED
    BY <2>2, <2>3
<1> QED
  BY <1>3, <1>4 DEF KnownByRow, d

\* No step forgets a copy.
LEMMA CopiesStep == IInv /\ TruthInv /\ Next => \A p \in nas' : Known(p)'
<1> SUFFICES ASSUME IInv, TruthInv, Next, NEW p \in nas' PROVE Known(p)'
  OBVIOUS
<1>1. TableStep /\ PathsOfDocs /\ WorkerTrue /\ (\A q \in nas : Known(q))
  BY TableSteps, AllKnown DEF TruthInv, JobsTellTheTruth
<1>2. ASSUME p \in nas, KnownByRow(p), ~(Leaves /\ wpc = "recording" /\ wpath = p)
      PROVE  Known(p)'
  BY <1>2, RowStillKnows DEF Known
<1>3. CASE UNCHANGED <<wpc, wjob, wpath, nas, strays>>
  <2>1. p \in nas /\ ~(Leaves /\ wpc = "recording" /\ wpath = p)
    BY <1>3 DEF Leaves
  <2> QED
    BY <1>1, <1>2, <1>3, <2>1 DEF Known, InHand
<1>4. CASE Outside \/ Claims
  <2>1. p \in nas /\ ~InHand(p) /\ strays' = strays
        /\ ~(Leaves /\ wpc = "recording" /\ wpath = p)
    BY <1>4 DEF Outside, Claims, Started, InJob, InHand
  <2> QED
    BY <1>1, <1>2, <2>1 DEF Known
<1>5. CASE Advances
  <2>1. strays' = strays /\ ~Leaves
    BY <1>5 DEF Advances, Leaves
  <2>2. \/ InHand(p)'
        \/ p \in nas /\ ~InHand(p)
    BY <1>5 DEF Advances, InHand
  <2> QED
    BY <1>1, <1>2, <2>1, <2>2 DEF Known
<1>6. CASE Leaves /\ wpc # "recording"
  <2>1. \/ p \in strays'
        \/ p \in nas /\ ~InHand(p) /\ p \notin strays
    BY <1>6 DEF Leaves, InHand
  <2> QED
    BY <1>1, <1>2, <1>6, <2>1 DEF Known
<1>7. CASE Leaves /\ wpc = "recording"
  <2>1. p \in nas /\ strays' = strays \ {wpath} /\ InJob /\ AtPath /\ wjob \in JobIds
        /\ docs' = docs
    BY <1>7, RowTyped DEF Leaves, AtPath
  <2>2. CASE p = wpath
    <3>1. jobs[wjob].op = "UPLOAD" /\ jobs[wjob].status = "RUNNING"
      BY <1>1, <1>7, <2>1, <2>2, RowTyped DEF WorkerTrue, Leaves, Operations
    <3>2. /\ docs'[p.doc] # "DELETED" /\ jobs[wjob].doc = p.doc
          /\ jobs'[wjob].status = "COMPLETED" /\ jobs'[wjob].path = p
      BY <1>1, <1>7, <2>1, <2>2, <3>1 DEF WorkerTrue, PathsOfDocs, Leaves
    <3>3. PICK j \in JobIds : j = wjob
      BY <2>1
    <3>4. SameRow(jobs[j], jobs'[j])
      BY <1>1, <2>1, <3>3, RowTyped, RowFacts
    <3>5. RowOf(j, "UPLOAD", p.doc)'
      BY <3>1, <3>2, <3>3, <3>4 DEF SameRow, RowOf
    <3> QED
      BY <2>1, <3>2, <3>3, <3>5 DEF Known, KnownByRow
  <2>3. CASE p # wpath
    BY <1>1, <1>2, <2>1, <2>3 DEF Known, InHand
  <2> QED
    BY <2>2, <2>3
<1>8. CASE Dies
  <2>1. p \in nas /\ ~Leaves
    BY <1>8 DEF Dies, Leaves
  <2>2. InHand(p) \/ p \in strays => p \in strays'
    BY <1>8, <2>1 DEF Dies, InHand
  <2> QED
    BY <1>1, <1>2, <2>1, <2>2 DEF Known
<1> QED
  BY <1>3, <1>4, <1>5, <1>6, <1>7, <1>8, ThreadMoves

\* What a COMPLETED row says stays so.
LEMMA CompletedStep == IInv /\ TruthInv /\ Next => CompletedMeansDone'
<1> SUFFICES ASSUME IInv, TruthInv, Next, NEW j \in JobIds, jobs'[j].status = "COMPLETED"
             PROVE  /\ jobs'[j].op = "UPLOAD" /\ docs'[jobs'[j].doc] # "DELETED"
                       => jobs'[j].path \in nas'
                    /\ jobs'[j].op = "DELETE" => jobs'[j].path \notin nas'
  BY DEF CompletedMeansDone
<1>1. TableStep /\ CompletedMeansDone /\ WorkerTrue /\ PathsOfDocs /\ DeletesFollow
  BY TableSteps DEF TruthInv, JobsTellTheTruth
<1>2. CASE jobs'[j] = jobs[j]
  <2>1. PICK d \in Docs : d = jobs[j].doc
    BY <1>2, RowTyped
  <2>2. docs'[d] # "DELETED" => docs[d] # "DELETED"
    BY DocumentStep
  <2>3. jobs[j].path # NoPath => jobs[j].path.doc = d
    BY <1>1, <1>2, <2>1 DEF PathsOfDocs
  <2>4. jobs[j].path # NoPath
    BY <1>1, <1>2 DEF PathsOfDocs
  <2>5. ASSUME AtPath, wpath = jobs[j].path
        PROVE  /\ jobs[wjob].doc = d /\ wjob # j
               /\ jobs[wjob].op = "UPLOAD" /\ jobs[j].op = "UPLOAD" => FALSE
               /\ jobs[wjob].op = "UPLOAD" /\ jobs[j].op = "DELETE" => FALSE
    <3>1. jobs[wjob].doc = d /\ InJob /\ wjob \in JobIds
          /\ jobs[wjob].status \in {"RUNNING", "CANCELLED"}
      BY <1>1, <2>3, <2>4, <2>5, RowTyped DEF PathsOfDocs, WorkerTrue
    <3>2. wjob # j
      BY <1>2, <3>1
    <3>3. ASSUME jobs[wjob].op = "UPLOAD", NEW u \in JobIds, u # wjob, RowOf(u, "UPLOAD", d),
                 jobs[u].status = "COMPLETED"
          PROVE  FALSE
      BY <1>1, <3>1, <3>3 DEF WorkerTrue, Live
    <3>4. ASSUME jobs[wjob].op = "UPLOAD", jobs[j].op = "DELETE"
          PROVE  FALSE
      <4>1. PICK u \in JobIds : RowOf(u, "UPLOAD", d) /\ jobs[u].status = "COMPLETED"
        BY <1>1, <1>2, <2>1, <3>4 DEF DeletesFollow, RowOf
      <4> QED
        BY <3>1, <3>3, <3>4, <4>1
    <3> QED
      BY <1>2, <2>1, <3>1, <3>2, <3>3, <3>4 DEF RowOf
  <2>6. CASE jobs[j].op = "UPLOAD" /\ docs'[d] # "DELETED"
    <3>1. jobs[j].path \in nas
      BY <1>1, <1>2, <2>1, <2>2, <2>6 DEF CompletedMeansDone
    <3>2. \/ nas \subseteq nas'
          \/ /\ nas' = nas \ {wpath} /\ AtPath
             /\ wpc \in {"replacing", "compensating", "removing"}
      BY ThreadMoves DEF Outside, Claims, Advances, Leaves, Dies, AtPath
    <3>3. ASSUME AtPath, wpath = jobs[j].path, wpc \in {"replacing", "compensating", "removing"}
          PROVE  FALSE
      <4>1. jobs[wjob].op = "DELETE" /\ jobs[wjob].doc = d /\ InJob /\ wjob \in JobIds
            /\ jobs[wjob].status # "NONE"
        BY <2>5, <2>6, <3>3, RowTyped DEF Operations
      <4>2. RowOf(wjob, "DELETE", d)
        BY <4>1 DEF RowOf
      <4> QED
        BY <1>1, <2>2, <2>6, <4>1, <4>2 DEF DeletesFollow
    <3> QED
      BY <1>2, <2>6, <3>1, <3>2, <3>3
  <2>7. CASE jobs[j].op = "DELETE"
    <3>1. jobs[j].path \notin nas
      BY <1>1, <1>2, <2>7 DEF CompletedMeansDone
    <3>2. nas' \subseteq nas \/ (nas' = nas \cup {wpath} /\ wpc = "replacing")
      BY ThreadMoves DEF Outside, Claims, Advances, Leaves, Dies
    <3>3. wpc = "replacing" => jobs[wjob].op = "UPLOAD" /\ AtPath
      BY <1>1, RowTyped DEF WorkerTrue, AtPath, InJob, Operations
    <3> QED
      BY <1>2, <2>5, <2>7, <3>1, <3>2, <3>3
  <2> QED
    BY <1>2, <2>1, <2>6, <2>7
<1>3. CASE Ended(j) /\ wpc = "recording" /\ jobs'[j].path = wpath
  <2>1. InJob /\ AtPath /\ wjob = j /\ wpc' = "next"
    BY <1>3 DEF Ended, AtPath
  <2>2. nas' = nas
    BY <1>3, <2>1, ThreadMoves DEF Outside, Claims, Started, Advances, Leaves, Dies
  <2>3. jobs'[j].op = jobs[j].op
    BY <1>1, <1>3, RowFacts DEF Ended, SameRow
  <2> QED
    BY <1>1, <1>3, <2>1, <2>2, <2>3 DEF WorkerTrue
<1> QED
  BY <1>1, <1>2, <1>3, RowFacts

\* The rows of a migrated database tell the truth.
LEMMA TruthInit == Init => TruthInv
<1> SUFFICES ASSUME Init PROVE TruthInv
  OBVIOUS
<1>1. ~InJob /\ ~AtPath
  BY DEF Init, InJob, AtPath
<1>2. ASSUME NEW i \in JobIds, jobs[i].status # "NONE"
      PROVE  \E d \in LegacyDocs, s \in {"PENDING", "RETRY", "FAILED", "COMPLETED"} :
                jobs[i] = LegacyRow(d, s)
  BY <1>2 DEF Init, LegacyRows, FreeRow
<1>3. ASSUME NEW i \in JobIds, jobs[i].status # "NONE"
      PROVE  /\ jobs[i].op = "UPLOAD" /\ jobs[i].doc \in Docs /\ jobs[i] # FreeRow
             /\ docs[jobs[i].doc] = "ACTIVE"
             /\ jobs[i].path # NoPath => jobs[i].path.doc = jobs[i].doc
             /\ jobs[i].status = "COMPLETED" => jobs[i].path \in Paths
  <2>1. PICK d \in LegacyDocs, s \in {"PENDING", "RETRY", "FAILED", "COMPLETED"} :
           jobs[i] = LegacyRow(d, s)
    BY <1>2, <1>3
  <2>2. d \in Docs /\ segment \in Segments
    BY LegacyDocsAssumption DEF Init
  <2>3. jobs[i].doc = d /\ jobs[i].op = "UPLOAD" /\ jobs[i].status = s
    BY <2>1 DEF LegacyRow
  <2>4. \/ s = "COMPLETED" /\ jobs[i].path = [target |-> NoTarget, segment |-> segment, doc |-> d]
        \/ s # "COMPLETED" /\ jobs[i].path = NoPath
    BY <2>1 DEF LegacyRow
  <2>5. [target |-> NoTarget, segment |-> segment, doc |-> d] \in Paths
    BY <2>2 DEF Paths
  <2>6. docs[d] = "ACTIVE"
    BY <2>2, <2>3 DEF Init
  <2>7. jobs[i] # FreeRow
    BY <1>3 DEF FreeRow
  <2> QED
    BY <2>2, <2>3, <2>4, <2>5, <2>6, <2>7
<1>4. OneUploadPerDocument
  BY <1>3 DEF Init, OneUploadPerDocument
<1>5. RowsHaveDocs
  BY <1>3 DEF Init, RowsHaveDocs
<1>6. DeletesFollow
  BY <1>3 DEF DeletesFollow, RowOf
<1>7. PathsOfDocs
  BY <1>1, <1>3, NoPathAssumption DEF PathsOfDocs
<1>8. CompletedMeansDone
  BY <1>3 DEF Init, CompletedMeansDone
<1>9. \A p \in nas : \E i \in JobIds : /\ RowOf(i, "UPLOAD", p.doc) /\ jobs[i].path = p
                                       /\ jobs[i].status = "COMPLETED"
                                       /\ docs[p.doc] = "ACTIVE"
  <2> SUFFICES ASSUME NEW p \in nas
               PROVE  \E i \in JobIds : /\ RowOf(i, "UPLOAD", p.doc) /\ jobs[i].path = p
                                        /\ jobs[i].status = "COMPLETED"
                                        /\ docs[p.doc] = "ACTIVE"
    OBVIOUS
  <2>1. PICK i \in JobIds : jobs[i].path = p /\ p \in Paths
    BY DEF Init
  <2>2. jobs[i].status # "NONE"
    BY <2>1, NoPathAssumption DEF Init, LegacyRows, LegacyRow, FreeRow
  <2>3. jobs[i].path = NoPath \/ jobs[i].status = "COMPLETED"
    <3>1. PICK e \in LegacyDocs, s \in {"PENDING", "RETRY", "FAILED", "COMPLETED"} :
             jobs[i] = LegacyRow(e, s)
      BY <1>2, <2>2
    <3> QED
      BY <3>1 DEF LegacyRow
  <2> QED
    BY <1>3, <2>1, <2>2, <2>3, NoPathAssumption DEF RowOf
<1>10. CopiesKnown /\ NoUnknownCopy
  BY <1>9 DEF CopiesKnown, NoUnknownCopy
<1> QED
  BY <1>1, <1>4, <1>5, <1>6, <1>7, <1>8, <1>10 DEF TruthInv, WorkerTrue, JobsTellTheTruth

\* Every step keeps them true.
LEMMA TruthStep == IInv /\ TruthInv /\ [Next]_vars => TruthInv'
<1> SUFFICES ASSUME IInv, TruthInv, [Next]_vars PROVE TruthInv'
  OBVIOUS
<1>1. CASE Next
  <2>1. RowsHaveDocs' /\ DeletesFollow' /\ PathsOfDocs' /\ WorkerTrue'
    BY <1>1, RowsHaveDocsStep, DeletesFollowStep, PathsStep, WorkerTrueStep
  <2>2. OneUploadPerDocument' /\ CompletedMeansDone'
    BY <1>1, OneUploadStep, CompletedStep
  <2>3. CopiesKnown' /\ NoUnknownCopy'
    <3>1. IInv' /\ PathsOfDocs'
      BY <1>1, <2>1, Inductive
    <3>2. \A p \in nas' : Known(p)'
      BY <1>1, CopiesStep
    <3>3. IInv' /\ PathsOfDocs' => (CopiesKnown /\ NoUnknownCopy <=> \A p \in nas : Known(p))'
      BY AllKnown, PTL
    <3> QED
      BY <3>1, <3>2, <3>3
  <2> QED
    BY <2>1, <2>2, <2>3 DEF TruthInv, JobsTellTheTruth
<1>2. CASE UNCHANGED vars
  BY <1>2
  DEF vars, TruthInv, RowsHaveDocs, DeletesFollow, PathsOfDocs, WorkerTrue, CopiesKnown,
      JobsTellTheTruth, OneUploadPerDocument, CompletedMeansDone, NoUnknownCopy, InJob, AtPath,
      RowOf, Live
<1> QED
  BY <1>1, <1>2

-----------------------------------------------------------------------------
\* The invariant holds in every state the system reaches.
LEMMA Invariance == Spec => []IInv
<1>. QED  BY InitIInv, Inductive, PTL DEF Spec

\* Every variable keeps its type: rows are never duplicated, lost or left with
\* an unknown status, whatever the threads do and whenever the process dies.
THEOREM TypeCorrect == Spec => []TypeOK
<1>1. IInv => TypeOK
  BY Implied
<1>. QED  BY <1>1, Invariance, PTL

\* The transport thread lets go of a job only after writing its outcome: outside
\* process_job no row is RUNNING, so recover_interrupted has only the jobs of a
\* dead process to return.
THEOREM NoJobLeftRunning == Spec => []RunningIsHeld
<1>1. IInv => RunningIsHeld
  BY Implied
<1>. QED  BY <1>1, Invariance, PTL

\* Copies are written to, recorded on and removed from the target their job was
\* created for, however often the administrator changes the configuration.
THEOREM TargetIsSnapshot == Spec => []PathsOnOwnTarget
<1>1. IInv => PathsOnOwnTarget
  BY Implied
<1>. QED  BY <1>1, Invariance, PTL

\* The rows are true of the copies in every state the system reaches.
LEMMA TruthHolds == Spec => [](IInv /\ TruthInv)
<1>1. Init => IInv /\ TruthInv
  BY InitIInv, TruthInit
<1>2. (IInv /\ TruthInv) /\ [Next]_vars => (IInv /\ TruthInv)'
  BY Inductive, TruthStep
<1>. QED  BY <1>1, <1>2, PTL DEF Spec

\* One upload of each document that was not cancelled, what is COMPLETED is done,
\* and no copy of a deleted document is forgotten, however imports, deletions,
\* retries, reconfigurations and crashes fall between the steps of a transfer.
THEOREM QueueTellsTheTruth == Spec => []JobsTellTheTruth
<1>1. IInv /\ TruthInv => JobsTellTheTruth
  BY DEF TruthInv
<1>. QED  BY <1>1, TruthHolds, PTL

\* No file of unknown target ever leaves the NAS: the thread removes only at the
\* path in hand, which lies on the target of a resolved job.
THEOREM UnprovedNeverTouched == Spec => LegacyFilesUntouched
<1>1. IInv /\ [Next]_vars => [\A p \in nas : p.target = NoTarget => p \in nas']_vars
  <2> SUFFICES ASSUME IInv, Next, NEW p \in nas, p.target = NoTarget PROVE p \in nas'
    BY DEF vars
  <2>1. nas \subseteq nas' \/ (AtPath /\ nas' = nas \ {wpath})
    BY ThreadSteps
    DEF Trigger, Worker, ListPending, EndBatch, ClaimJob, CancelInterrupted, NoAdapter,
        OpenUpload, OpenDelete, CopyToTemporary, TransferFails, CleanupFails, PublishFile,
        VerifyFails, VerifyDiffers, RemoveFile, RecordCompletion, Compensate,
        CompensationFails, CrashAndRestart, FinishJob, AtPath
  <2>2. AtPath => wpath.target # NoTarget
    BY DEF IInv, WorkerHolds, AtPath, InJob, Table, WellFormed
  <2>. QED  BY <2>1, <2>2
<1>. QED  BY <1>1, Invariance, PTL DEF Spec, LegacyFilesUntouched

-----------------------------------------------------------------------------
(* The queue implements RemoteCopy.                                        *)

\* The stage of a document's copy is told by its DELETE row, or else its live
\* upload, or else by whether it has rows at all.
StageTold ==
    \A d \in Docs :
        /\ \A i \in JobIds :
             /\ RowOf(i, "DELETE", d) => CopyStage(d) = DeleteStage[jobs[i].status]
             /\ (\A j \in JobIds : ~RowOf(j, "DELETE", d)) =>
                  /\ RowOf(i, "UPLOAD", d) /\ Live(i) => CopyStage(d) = UploadStage[jobs[i].status]
                  /\ RowOf(i, "UPLOAD", d) /\ (\A j \in JobIds : RowOf(j, "UPLOAD", d) => ~Live(j))
                     => CopyStage(d) = "abandoned"
        /\ (\A j \in JobIds, op \in Operations : ~RowOf(j, op, d)) => CopyStage(d) = "none"

\* Each document has at most one DELETE row and one live upload, so the choices
\* of CopyStage are determined.
LEMMA StageOf == IInv /\ TruthInv => StageTold
<1> SUFFICES ASSUME IInv, TruthInv, NEW d \in Docs, NEW i \in JobIds
             PROVE  /\ RowOf(i, "DELETE", d) => CopyStage(d) = DeleteStage[jobs[i].status]
                    /\ (\A j \in JobIds : ~RowOf(j, "DELETE", d)) =>
                         /\ RowOf(i, "UPLOAD", d) /\ Live(i)
                            => CopyStage(d) = UploadStage[jobs[i].status]
                         /\ RowOf(i, "UPLOAD", d)
                            /\ (\A j \in JobIds : RowOf(j, "UPLOAD", d) => ~Live(j))
                            => CopyStage(d) = "abandoned"
  <2>1. \A e \in Docs : (\A j \in JobIds, op \in Operations : ~RowOf(j, op, e))
                        => CopyStage(e) = "none"
    BY DEF CopyStage, RowOf
  <2> QED
    BY <2>1 DEF StageTold
<1> DEFINE rows(op) == {j \in JobIds : /\ jobs[j].doc = d /\ jobs[j].op = op
                                       /\ jobs[j].status # "NONE"}
           live == {j \in rows("UPLOAD") : jobs[j].status # "CANCELLED"}
<1>1. CopyStage(d) =
         IF rows("DELETE") # {}
         THEN DeleteStage[jobs[CHOOSE j \in rows("DELETE") : TRUE].status]
         ELSE IF live # {}
         THEN UploadStage[jobs[CHOOSE j \in live : TRUE].status]
         ELSE IF rows("UPLOAD") # {} THEN "abandoned" ELSE "none"
  BY DEF CopyStage
<1>2. RowOf(i, "DELETE", d) => rows("DELETE") = {i}
  BY DEF RowOf, TruthInv, DeletesFollow
<1>3. RowOf(i, "UPLOAD", d) /\ Live(i) => live = {i}
  BY DEF RowOf, Live, TruthInv, JobsTellTheTruth, OneUploadPerDocument
<1>4. (\A j \in JobIds : ~RowOf(j, "DELETE", d)) <=> rows("DELETE") = {}
  BY DEF RowOf
<1>5. (\A j \in JobIds : RowOf(j, "UPLOAD", d) => ~Live(j)) => live = {}
  BY DEF RowOf, Live
<1>6. RowOf(i, "UPLOAD", d) => rows("UPLOAD") # {}
  BY DEF RowOf
<1>7. (CHOOSE j \in {i} : TRUE) = i
  OBVIOUS
<1> HIDE DEF rows, live
<1> QED
  BY <1>1, <1>2, <1>3, <1>4, <1>5, <1>6, <1>7

\* A step of the rows moves the copy of a document from stage to stage.
LEMMA StageMoves ==
    ASSUME IInv, TruthInv, Next, NEW d \in Docs
    PROVE  CopyStage(d)' = CopyStage(d) \/ <<CopyStage(d), CopyStage(d)'>> \in RC!Moves
<1>1. TableStep /\ RowsHaveDocs /\ DeletesFollow /\ OneUploadPerDocument
  BY TableSteps DEF TruthInv, JobsTellTheTruth
<1>2. IInv' /\ TruthInv'
  BY Inductive, TruthStep
<1>3. \A i \in JobIds :
        /\ RowOf(i, "DELETE", d) => CopyStage(d) = DeleteStage[jobs[i].status]
        /\ (\A j \in JobIds : ~RowOf(j, "DELETE", d)) =>
             /\ RowOf(i, "UPLOAD", d) /\ Live(i) => CopyStage(d) = UploadStage[jobs[i].status]
             /\ RowOf(i, "UPLOAD", d) /\ (\A j \in JobIds : RowOf(j, "UPLOAD", d) => ~Live(j))
                => CopyStage(d) = "abandoned"
  BY StageOf DEF StageTold
<1>4. \A i \in JobIds :
        /\ RowOf(i, "DELETE", d)' => CopyStage(d)' = DeleteStage[jobs'[i].status]
        /\ (\A j \in JobIds : ~RowOf(j, "DELETE", d)') =>
             /\ RowOf(i, "UPLOAD", d)' /\ Live(i)' => CopyStage(d)' = UploadStage[jobs'[i].status]
             /\ RowOf(i, "UPLOAD", d)' /\ (\A j \in JobIds : RowOf(j, "UPLOAD", d)' => ~Live(j)')
                => CopyStage(d)' = "abandoned"
  <2>1. (IInv /\ TruthInv)' => StageTold'
    BY StageOf, PTL
  <2> QED
    BY <1>2, <2>1 DEF StageTold
<1>5. (\A j \in JobIds, op \in Operations : ~RowOf(j, op, d)) => CopyStage(d) = "none"
  BY StageOf DEF StageTold
<1>6. (\A j \in JobIds, op \in Operations : ~RowOf(j, op, d)') => CopyStage(d)' = "none"
  <2>1. (IInv /\ TruthInv)' => StageTold'
    BY StageOf, PTL
  <2> QED
    BY <1>2, <2>1 DEF StageTold
<1>7. /\ \A i \in JobIds, op \in Operations : RowOf(i, op, d) => RowOf(i, op, d)'
      /\ \A i \in JobIds, op \in Operations :
            RowOf(i, op, d)' => \/ RowOf(i, op, d)
                                \/ op = "UPLOAD" /\ BornUpload(i, d)
                                \/ op = "DELETE" /\ BornDelete(i, d)
  BY <1>1, RowFacts DEF RowOf, SameRow
<1> HIDE DEF Operations
<1>8. \A op : op \in Operations <=> op = "UPLOAD" \/ op = "DELETE"
  BY DEF Operations
<1>9. CASE \E i \in JobIds : RowOf(i, "DELETE", d)
  <2>1. PICK i \in JobIds : RowOf(i, "DELETE", d)
    BY <1>9
  <2>2. CopyStage(d) = DeleteStage[jobs[i].status] /\ CopyStage(d)' = DeleteStage[jobs'[i].status]
    BY <1>3, <1>4, <1>7, <1>8, <2>1
  <2>3. jobs'[i] = jobs[i] \/ <<DeleteStage[jobs[i].status], DeleteStage[jobs'[i].status]>> \in RC!Moves
    <3>1. jobs'[i] = jobs[i] \/ Moved(i)
      BY <1>1, <2>1 DEF TableStep, Born, BornUpload, BornDelete, RowOf
    <3>2. jobs[i].resolved = FALSE => jobs[i].status \in {"PENDING", "CANCELLED"}
      BY <1>1, <2>1 DEF DeletesFollow
    <3> QED
      BY <2>1, <3>1, <3>2 DEF Moved, Started, Ended, Requeued, Dropped, Withdrawn, RowOf,
         DeleteStage, RC!Moves
  <2> QED
    BY <2>2, <2>3
<1>10. CASE /\ \A i \in JobIds : ~RowOf(i, "DELETE", d)
            /\ \E i \in JobIds : RowOf(i, "DELETE", d)'
  <2>1. PICK i \in JobIds : BornDelete(i, d) /\ RowOf(i, "DELETE", d)'
    BY <1>7, <1>8, <1>10
  <2>2. PICK u \in JobIds : RowOf(u, "UPLOAD", d) /\ jobs[u].status = "COMPLETED"
    BY <2>1 DEF BornDelete
  <2>3. CopyStage(d) = UploadStage["COMPLETED"]
    BY <1>3, <1>10, <2>2 DEF Live
  <2>4. CopyStage(d)' = DeleteStage["PENDING"]
    BY <1>4, <2>1 DEF BornDelete
  <2> QED
    BY <2>3, <2>4 DEF UploadStage, DeleteStage, RC!Moves
<1>11. ASSUME NEW k \in JobIds, BornUpload(k, d), NEW j \in JobIds, RowOf(j, "UPLOAD", d)
       PROVE  \E i \in JobIds : RowOf(i, "UPLOAD", d) /\ Live(i)
  <2>1. docs[d] # "NONE" /\ importer[d] = "idle"
    BY <1>1, <1>11 DEF RowsHaveDocs, RowOf
  <2> QED
    BY <1>11, <2>1 DEF BornUpload, Dropped, Live
<1>12. ASSUME NEW k \in JobIds, BornUpload(k, d)
       PROVE  RowOf(k, "UPLOAD", d)' /\ Live(k)' /\ jobs'[k].status = "PENDING"
  BY <1>12 DEF BornUpload, RowOf, Live
<1>13. CASE /\ \A i \in JobIds : ~RowOf(i, "DELETE", d)
            /\ \A i \in JobIds : ~RowOf(i, "DELETE", d)'
  <2>1. ASSUME NEW i \in JobIds, RowOf(i, "UPLOAD", d), Live(i)
        PROVE  CopyStage(d)' = CopyStage(d) \/ <<CopyStage(d), CopyStage(d)'>> \in RC!Moves
    <3>1. CopyStage(d) = UploadStage[jobs[i].status] /\ RowOf(i, "UPLOAD", d)'
      BY <1>3, <1>7, <1>8, <1>13, <2>1
    <3>2. jobs'[i] = jobs[i] \/ Moved(i)
      BY <1>1, <2>1 DEF TableStep, Born, BornUpload, BornDelete, RowOf
    <3>3. CASE Live(i)'
      <4>1. CopyStage(d)' = UploadStage[jobs'[i].status]
        BY <1>4, <1>13, <3>1, <3>3
      <4>2. jobs'[i] = jobs[i] \/ <<UploadStage[jobs[i].status], UploadStage[jobs'[i].status]>> \in RC!Moves
        BY <2>1, <3>2, <3>3 DEF Moved, Started, Ended, Requeued, Dropped, Withdrawn, Live,
           UploadStage, RC!Moves
      <4> QED
        BY <3>1, <4>1, <4>2
    <3>4. CASE ~Live(i)'
      <4>1. UploadStage[jobs[i].status] \in {"queued", "sending", "unsent"}
        BY <2>1, <3>2, <3>4 DEF Moved, Started, Ended, Requeued, Dropped, Withdrawn, Live,
           UploadStage
      <4>2. CASE \E k \in JobIds : RowOf(k, "UPLOAD", d)' /\ Live(k)'
        <5>1. PICK k \in JobIds : RowOf(k, "UPLOAD", d)' /\ Live(k)'
          BY <4>2
        <5>2. BornUpload(k, d)
          <6>1. k # i
            BY <3>4, <5>1
          <6>2. RowOf(k, "UPLOAD", d) => ~Live(k)
            BY <1>1, <2>1, <6>1 DEF OneUploadPerDocument, RowOf, Live
          <6> QED
            BY <1>1, <1>7, <1>8, <5>1, <6>2, RowFacts DEF RowOf, Live
        <5>3. CopyStage(d)' = UploadStage["PENDING"]
          BY <1>4, <1>12, <1>13, <5>1, <5>2
        <5> QED
          BY <3>1, <4>1, <5>3 DEF UploadStage, RC!Moves
      <4>3. CASE \A k \in JobIds : RowOf(k, "UPLOAD", d)' => ~Live(k)'
        <5>1. CopyStage(d)' = "abandoned"
          BY <1>4, <1>13, <3>1, <4>3
        <5> QED
          BY <3>1, <4>1, <5>1 DEF RC!Moves
      <4> QED
        BY <4>2, <4>3
    <3> QED
      BY <3>3, <3>4
  <2>2. ASSUME NEW i \in JobIds, RowOf(i, "UPLOAD", d),
               \A j \in JobIds : RowOf(j, "UPLOAD", d) => ~Live(j)
        PROVE  CopyStage(d)' = CopyStage(d)
    <3>1. \A k \in JobIds : ~BornUpload(k, d)
      BY <1>11, <2>2
    <3>2. \A k \in JobIds : RowOf(k, "UPLOAD", d)' => ~Live(k)'
      BY <1>1, <1>7, <1>8, <2>2, <3>1, RowFacts DEF RowOf, Live
    <3> QED
      BY <1>3, <1>4, <1>7, <1>8, <1>13, <2>2, <3>2
  <2>3. CASE \A j \in JobIds : ~RowOf(j, "UPLOAD", d)
    <3>1. CopyStage(d) = "none"
      BY <1>5, <1>8, <1>13, <2>3
    <3>2. CASE \A j \in JobIds : ~RowOf(j, "UPLOAD", d)'
      BY <1>6, <1>8, <1>13, <3>1, <3>2
    <3>3. ASSUME NEW k \in JobIds, RowOf(k, "UPLOAD", d)' PROVE CopyStage(d)' = "queued"
      <4>1. BornUpload(k, d)
        BY <1>7, <1>8, <2>3, <3>3
      <4>2. CopyStage(d)' = UploadStage["PENDING"]
        BY <1>4, <1>12, <1>13, <4>1
      <4> QED
        BY <4>2 DEF UploadStage
    <3> QED
      BY <3>1, <3>2, <3>3 DEF RC!Moves
  <2> QED
    BY <2>1, <2>2, <2>3
<1> QED
  BY <1>9, <1>10, <1>13

\* The migrated rows are of the first stages.
LEMMA StageInit == Init => RC!Init
<1> SUFFICES ASSUME Init, NEW d \in Docs
             PROVE  CopyStage(d) \in {"none", "queued", "unsent", "stored"}
  BY DEF RC!Init
<1>1. StageTold
  BY InitIInv, TruthInit, StageOf
<1>2. ASSUME NEW i \in JobIds, NEW op \in Operations, RowOf(i, op, d)
      PROVE  op = "UPLOAD" /\ jobs[i].status \in {"PENDING", "RETRY", "FAILED", "COMPLETED"}
  BY <1>2 DEF Init, LegacyRows, LegacyRow, FreeRow, RowOf
<1>3. CASE \A j \in JobIds, op \in Operations : ~RowOf(j, op, d)
  BY <1>1, <1>3 DEF StageTold
<1>4. ASSUME NEW i \in JobIds, RowOf(i, "UPLOAD", d)
      PROVE  CopyStage(d) \in {"none", "queued", "unsent", "stored"}
  <2>1. \A j \in JobIds : ~RowOf(j, "DELETE", d)
    BY <1>2
  <2>2. jobs[i].status \in {"PENDING", "RETRY", "FAILED", "COMPLETED"}
    BY <1>2, <1>4
  <2>3. CopyStage(d) = UploadStage[jobs[i].status]
    BY <1>1, <1>4, <2>1, <2>2 DEF StageTold, Live
  <2> QED
    BY <2>2, <2>3 DEF UploadStage
<1> QED
  BY <1>2, <1>3, <1>4 DEF Operations

\* Every stage is one of RemoteCopy's.
LEMMA StageTyped == IInv /\ TruthInv => \A d \in Docs : CopyStage(d) \in RC!Stages
<1> SUFFICES ASSUME IInv, TruthInv, NEW d \in Docs PROVE CopyStage(d) \in RC!Stages
  OBVIOUS
<1>1. StageTold
  BY StageOf
<1>2. \A i \in JobIds : jobs[i].status \in Statuses
  BY DEF IInv, TypeOK, TransportJob
<1>3. CASE \A j \in JobIds, op \in Operations : ~RowOf(j, op, d)
  BY <1>1, <1>3 DEF StageTold, RC!Stages
<1>4. ASSUME NEW i \in JobIds, RowOf(i, "DELETE", d) PROVE CopyStage(d) \in RC!Stages
  BY <1>1, <1>2, <1>4 DEF StageTold, DeleteStage, RC!Stages, RowOf
<1>5. ASSUME \A j \in JobIds : ~RowOf(j, "DELETE", d), NEW i \in JobIds, RowOf(i, "UPLOAD", d)
      PROVE  CopyStage(d) \in RC!Stages
  <2>1. CASE \A j \in JobIds : RowOf(j, "UPLOAD", d) => ~Live(j)
    BY <1>1, <1>5, <2>1 DEF StageTold, RC!Stages
  <2>2. ASSUME NEW j \in JobIds, RowOf(j, "UPLOAD", d), Live(j)
        PROVE  CopyStage(d) \in RC!Stages
    BY <1>1, <1>2, <1>5, <2>2 DEF StageTold, UploadStage, Live, RC!Stages
  <2> QED
    BY <2>1, <2>2
<1> QED
  BY <1>3, <1>4, <1>5 DEF Operations

\* The copy of every document goes through the stages of RemoteCopy: it is
\* condemned only once stored, removed only once condemned, and a removed or
\* abandoned one never comes back, whichever thread changes the rows and
\* wherever the process dies.
THEOREM CopiesFollowTheirLife == Spec => CopyLifecycle
<1>1. Init => RC!Init
  BY StageInit
<1>2. (IInv /\ TruthInv) /\ (IInv /\ TruthInv)' /\ [Next]_vars
        => [RC!Next]_[d \in Docs |-> CopyStage(d)]
  <2> SUFFICES ASSUME IInv, TruthInv, IInv', TruthInv', [Next]_vars
               PROVE  [RC!Next]_[d \in Docs |-> CopyStage(d)]
    OBVIOUS
  <2>1. CASE Next
    <3>1. \A d \in Docs : CopyStage(d)' = CopyStage(d)
                           \/ <<CopyStage(d), CopyStage(d)'>> \in RC!Moves
      BY <2>1, StageMoves
    <3>2. (IInv /\ TruthInv)' => (\A d \in Docs : CopyStage(d) \in RC!Stages)'
      BY StageTyped, PTL
    <3>3. \A d \in Docs : CopyStage(d)' \in RC!Stages
      BY <3>2
    <3> QED
      BY <3>1, <3>3 DEF RC!Next
  <2>2. CASE UNCHANGED vars
    BY <2>2 DEF vars, CopyStage
  <2> QED
    BY <2>1, <2>2
<1>. QED  BY <1>1, <1>2, TruthHolds, PTL DEF Spec, CopyLifecycle, RC!Spec
=============================================================================
