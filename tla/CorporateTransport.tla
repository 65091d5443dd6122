-------------------------- MODULE CorporateTransport --------------------------
(***************************************************************************)
(* Copies of one organization's documents on the corporate NAS.            *)
(*                                                                         *)
(* Threads: the Qt thread of the interface (trash, permanent deletion,     *)
(* configuration, rename, administrative retry), one importing thread per  *)
(* document (FileOperationWorker, ScannerGedImportWorker), and one         *)
(* TransportWorker running CorporateTransportService.process_pending.      *)
(* They share the SQLite tables; only the transport thread touches the     *)
(* NAS.  A step is one database statement or transaction, or one call of   *)
(* the NAS adapter.  The process may die between any two steps.            *)
(***************************************************************************)
EXTENDS TransportJobs

CONSTANTS
    NasTargets,   \* the targets whose mode is NAS, the only mode with an adapter
    LegacyDocs,   \* documents whose upload job predates transport targets
    AttemptBound, \* bound: no manual retry of a job with this many attempts
    MaxCrashes,   \* bound: number of crashes
    NoJob         \* the worker holds no job

ASSUME NasTargetsAssumption == NasTargets \subseteq Targets
ASSUME LegacyDocsAssumption == LegacyDocs \subseteq Docs
ASSUME BoundsAssumption == AttemptBound \in Nat /\ MaxCrashes \in Nat
ASSUME NoJobAssumption == NoJob \notin JobIds

VARIABLES
    docs,         \* documents.status; "NONE" before import, "DELETED" after hard_delete
    jobs,         \* transport_jobs
    targets,      \* organization_transport_targets.status
    setting,      \* organization_transport_settings: enabled and current_target_id
    segment,      \* CorporateTransportService._organization_segment of the slug
    importer,     \* where each importing thread stands in enqueue_upload
    importTarget, \* the target it has read
    nas,          \* the files published on the NAS
    wpc,          \* where the transport thread stands
    batch,        \* the jobs process_pending has still to process
    wjob,         \* the job it is processing
    wpath,        \* the remote path the adapter works on
    interrupted,  \* QThread.isInterruptionRequested
    crashes,      \* crashes so far
    strays        \* history: files published whose publication nobody recorded

dbVars == <<docs, jobs, targets, setting, segment>>
importVars == <<importer, importTarget>>
workerVars == <<wpc, batch, wjob, wpath>>
vars == <<docs, jobs, targets, setting, segment, importer, importTarget,
          nas, wpc, batch, wjob, wpath, interrupted, crashes, strays>>

DocStatuses == {"NONE", "ACTIVE", "TRASHED", "DELETED"}
ImporterSteps == {"idle", "saved", "checked", "ready"}
WorkerSteps == {"idle", "listing", "next", "opening", "copying", "replacing",
                "removing", "recording", "compensating"}

\* The steps at which the thread has claimed wjob.
InJob == wpc \in {"opening", "copying", "replacing", "removing",
                  "recording", "compensating"}

-----------------------------------------------------------------------------
(* Initial states: a database the migration to targets may have left.      *)

\* The upload job of a legacy document: no proof of where it goes or went.
LegacyRow(d, s) ==
    [doc |-> d, op |-> "UPLOAD", target |-> NoTarget, resolved |-> FALSE,
     status |-> s,
     attempts |-> CASE s = "PENDING" -> 0
                    [] s = "FAILED" -> MaxAttempts
                    [] OTHER -> 1,
     path |-> IF s = "COMPLETED"
              THEN [target |-> NoTarget, segment |-> segment, doc |-> d]
              ELSE NoPath]

LegacyRows == {LegacyRow(d, s) : d \in LegacyDocs,
                                 s \in {"PENDING", "RETRY", "FAILED", "COMPLETED"}}

Init ==
    /\ segment \in Segments
    /\ jobs \in [JobIds -> {FreeRow} \cup LegacyRows]
    /\ \A i, j \in JobIds :
           jobs[i] # FreeRow /\ jobs[j] # FreeRow /\ jobs[i].doc = jobs[j].doc
           => i = j
    /\ \A i, j \in JobIds : i < j /\ jobs[i] = FreeRow => jobs[j] = FreeRow
    /\ docs = [d \in Docs |-> IF \E j \in JobIds : jobs[j].doc = d
                              THEN "ACTIVE" ELSE "NONE"]
    /\ nas = {p \in Paths : \E j \in JobIds : jobs[j].path = p}
    /\ targets = [t \in Targets |-> "NONE"]
    /\ setting = [enabled |-> FALSE, current |-> NoTarget]
    /\ importer = [d \in Docs |-> "idle"]
    /\ importTarget = [d \in Docs |-> NoTarget]
    /\ wpc = "idle" /\ batch = {} /\ wjob = NoJob /\ wpath = NoPath
    /\ interrupted = FALSE
    /\ crashes = 0
    /\ strays = {}

-----------------------------------------------------------------------------
(* Configuration, on the interface thread.                                 *)

CurrentTargetActive ==
    /\ setting.current # NoTarget
    /\ targets[setting.current] = "ACTIVE"

\* is_nas_enabled, with the organization active and its profile granting
\* server_transport.
IsNasEnabled ==
    /\ setting.enabled
    /\ CurrentTargetActive
    /\ setting.current \in NasTargets

Retired(ts) ==
    [t \in Targets |-> IF t = setting.current /\ ts[t] = "ACTIVE"
                       THEN "RETIRED" ELSE ts[t]]

\* configure with mode LOCAL.
ConfigureLocal ==
    /\ targets' = Retired(targets)
    /\ setting' = [enabled |-> FALSE, current |-> NoTarget]
    /\ UNCHANGED <<docs, jobs, segment, importVars, nas, workerVars,
                   interrupted, crashes, strays>>

\* configure with another endpoint, mode, TLS option or credential: the current
\* target is retired and a new row created; rows are never changed otherwise.
ConfigureTarget(t, enabled) ==
    /\ targets[t] = "NONE"
    /\ targets' = [Retired(targets) EXCEPT ![t] = "ACTIVE"]
    /\ setting' = [enabled |-> enabled, current |-> t]
    /\ UNCHANGED <<docs, jobs, segment, importVars, nas, workerVars,
                   interrupted, crashes, strays>>

\* configure with the same physical target: only `enabled` changes.
ConfigureSame(enabled) ==
    /\ CurrentTargetActive
    /\ setting' = [setting EXCEPT !.enabled = enabled]
    /\ UNCHANGED <<docs, jobs, targets, segment, importVars, nas, workerVars,
                   interrupted, crashes, strays>>

\* OrganizationService.update: a new name gives a new slug, hence a new folder.
RenameOrganization(s) ==
    /\ s # segment
    /\ segment' = s
    /\ UNCHANGED <<docs, jobs, targets, setting, importVars, nas, workerVars,
                   interrupted, crashes, strays>>

-----------------------------------------------------------------------------
(* The queue.                                                              *)

\* TransportJobQueue._enqueue: the active job if there is one, or a new one.
Enqueue(js, d, op, target, resolved, path) ==
    IF FindActive(js, d, op) # {}
    THEN jobs' = js
    ELSE \E j \in NextId(js) :
             jobs' = Insert(js, j, d, op, target, resolved, path)

\* A document is stored and committed; its upload is still to be enqueued.
ImportDocument(d) ==
    /\ docs[d] = "NONE"
    /\ docs' = [docs EXCEPT ![d] = "ACTIVE"]
    /\ importer' = [importer EXCEPT ![d] = "saved"]
    /\ UNCHANGED <<jobs, targets, setting, segment, importTarget, nas,
                   workerVars, interrupted, crashes, strays>>

\* enqueue_upload, first reads: transport enabled, document still active.
ImportCheck(d) ==
    /\ importer[d] = "saved"
    /\ importer' = [importer EXCEPT ![d] =
                        IF IsNasEnabled /\ docs[d] = "ACTIVE"
                        THEN "checked" ELSE "idle"]
    /\ UNCHANGED <<dbVars, importTarget, nas, workerVars, interrupted,
                   crashes, strays>>

\* _current_target; it raises when the administrator has just chosen LOCAL.
ImportReadTarget(d) ==
    /\ importer[d] = "checked"
    /\ IF CurrentTargetActive
       THEN /\ importer' = [importer EXCEPT ![d] = "ready"]
            /\ importTarget' = [importTarget EXCEPT ![d] = setting.current]
       ELSE /\ importer' = [importer EXCEPT ![d] = "idle"]
            /\ UNCHANGED importTarget
    /\ UNCHANGED <<dbVars, nas, workerVars, interrupted, crashes, strays>>

\* The upload job is created for the target that was read.  No other thread
\* enqueues an upload of a document that is being imported, so the search for an
\* active job and the insertion are one step.
ImportEnqueue(d) ==
    /\ importer[d] = "ready"
    /\ Enqueue(jobs, d, "UPLOAD", importTarget[d], TRUE, NoPath)
    /\ importer' = [importer EXCEPT ![d] = "idle"]
    /\ importTarget' = [importTarget EXCEPT ![d] = NoTarget]
    /\ UNCHANGED <<docs, targets, setting, segment, nas, workerVars,
                   interrupted, crashes, strays>>

\* copy_document runs as one transaction: the new document and its job.  Its
\* source may be a document that is not one of Docs.
CopyDocument(d) ==
    /\ docs[d] = "NONE"
    /\ docs' = [docs EXCEPT ![d] = "ACTIVE"]
    /\ IF IsNasEnabled
       THEN Enqueue(jobs, d, "UPLOAD", setting.current, TRUE, NoPath)
       ELSE UNCHANGED jobs
    /\ UNCHANGED <<targets, setting, segment, importVars, nas, workerVars,
                   interrupted, crashes, strays>>

-----------------------------------------------------------------------------
(* Documents, on the interface thread.                                     *)

TrashDocument(d) ==
    /\ docs[d] = "ACTIVE"
    /\ docs' = [docs EXCEPT ![d] = "TRASHED"]
    /\ UNCHANGED <<jobs, targets, setting, segment, importVars, nas,
                   workerVars, interrupted, crashes, strays>>

RestoreDocument(d) ==
    /\ docs[d] = "TRASHED"
    /\ docs' = [docs EXCEPT ![d] = "ACTIVE"]
    /\ UNCHANGED <<jobs, targets, setting, segment, importVars, nas,
                   workerVars, interrupted, crashes, strays>>

\* Mutant: a DELETE of unknown target is resolved to the current one.
PrepareDeleteOnCurrent(d) ==
    LET cancelled == CancelUploads(jobs, d)
        uploaded == CompletedUploads(cancelled, d)
    IN  IF uploaded = {}
        THEN jobs' = cancelled
        ELSE \E u \in uploaded :
                 Enqueue(cancelled, d, "DELETE", setting.current, TRUE,
                         cancelled[u].path)

\* prepare_document_delete: uploads not finished are cancelled; a finished one
\* gets a DELETE job for the target and path it was written to.
\* latest_completed_upload never has to choose (OneUploadPerDocument).
PrepareDocumentDelete(d) ==
    LET cancelled == CancelUploads(jobs, d)
        uploaded == CompletedUploads(cancelled, d)
    IN  IF uploaded = {}
        THEN jobs' = cancelled
        ELSE \E u \in uploaded :
                 Enqueue(cancelled, d, "DELETE", cancelled[u].target,
                         cancelled[u].target # NoTarget /\ cancelled[u].resolved,
                         cancelled[u].path)

PermanentlyDeleteDocument(d) ==
    /\ docs[d] = "TRASHED"
    /\ PrepareDocumentDelete(d)
    /\ docs' = [docs EXCEPT ![d] = "DELETED"]
    /\ UNCHANGED <<targets, setting, segment, importVars, nas, workerVars,
                   interrupted, crashes, strays>>

-----------------------------------------------------------------------------
(* Administrative decisions on jobs, on the interface thread.              *)

RetryFailedJobs ==
    /\ \A j \in JobIds : jobs[j].status = "FAILED" /\ jobs[j].resolved
                         => jobs[j].attempts < AttemptBound
    /\ LET retried == RetryFailed(jobs)
       IN  jobs' = IF ActiveIndexHolds(retried) THEN retried ELSE jobs
    /\ UNCHANGED <<docs, targets, setting, segment, importVars, nas,
                   workerVars, interrupted, crashes, strays>>

CancelReconciliation(j) ==
    /\ jobs[j].status # "NONE"
    /\ ~jobs[j].resolved
    /\ jobs' = Cancel(jobs, j)
    /\ UNCHANGED <<docs, targets, setting, segment, importVars, nas,
                   workerVars, interrupted, crashes, strays>>

\* recreate_upload_for_current_target: one transaction cancels the legacy job
\* and enqueues an upload for the current target.
RecreateUpload(j) ==
    /\ jobs[j].status # "NONE"
    /\ jobs[j].op = "UPLOAD"
    /\ ~jobs[j].resolved
    /\ docs[jobs[j].doc] = "ACTIVE"
    /\ CurrentTargetActive
    /\ Cancellable(jobs, j)
    /\ Enqueue(Cancel(jobs, j), jobs[j].doc, "UPLOAD", setting.current, TRUE, NoPath)
    /\ UNCHANGED <<docs, targets, setting, segment, importVars, nas,
                   workerVars, interrupted, crashes, strays>>

-----------------------------------------------------------------------------
(* The transport thread: CorporateTransportService.process_pending.  Its    *)
(* limit of 100 jobs a run is above every instance and left out.            *)

\* CorporateTransportCoordinator.trigger: no other worker, transport enabled and
\* a job to run.
Trigger ==
    /\ wpc = "idle"
    /\ IsNasEnabled
    /\ Pending(jobs) # {}
    /\ wpc' = "listing"
    /\ interrupted' = FALSE
    /\ UNCHANGED <<dbVars, importVars, nas, batch, wjob, wpath, crashes, strays>>

\* organization_changed or shutdown while the worker runs.
Interrupt ==
    /\ wpc # "idle"
    /\ interrupted' = TRUE
    /\ UNCHANGED <<dbVars, importVars, nas, workerVars, crashes, strays>>

ListPending ==
    /\ wpc = "listing"
    /\ batch' = Pending(jobs)
    /\ wpc' = "next"
    /\ UNCHANGED <<dbVars, importVars, nas, wjob, wpath, interrupted, crashes, strays>>

EndBatch ==
    /\ wpc = "next"
    /\ batch = {} \/ interrupted
    /\ wpc' = "idle"
    /\ batch' = {}
    /\ UNCHANGED <<dbVars, importVars, nas, wjob, wpath, interrupted, crashes, strays>>

\* process_job: claim the first job of the batch, unless another thread has
\* changed it since the batch was read.
ClaimJob ==
    /\ wpc = "next"
    /\ ~interrupted
    /\ \E j \in batch :
           /\ \A i \in batch : i = j \/ Before(jobs, j, i)
           /\ batch' = batch \ {j}
           /\ IF Claimable(jobs, j)
              THEN /\ jobs' = MarkRunning(jobs, j)
                   /\ wjob' = j
                   /\ wpc' = "opening"
              ELSE UNCHANGED <<jobs, wjob, wpc>>
    /\ UNCHANGED <<docs, targets, setting, segment, importVars, nas, wpath,
                   interrupted, crashes, strays>>

\* The thread leaves the job after writing its outcome.
FinishJob(js) ==
    /\ jobs' = js
    /\ wpc' = "next"
    /\ wjob' = NoJob
    /\ wpath' = NoPath
    /\ UNCHANGED <<docs, targets, setting, segment, importVars, batch,
                   interrupted, crashes>>

\* The checks before and during the transfer: TransportCancelledError.
CancelInterrupted ==
    /\ wpc \in {"opening", "copying"}
    /\ interrupted
    /\ FinishJob(Cancel(jobs, wjob))
    /\ UNCHANGED <<nas, strays>>

\* _adapter_for_job: only NAS targets have an adapter.
NoAdapter ==
    /\ wpc = "opening"
    /\ jobs[wjob].target \notin NasTargets
    /\ FinishJob(FailDefinitive(jobs, wjob))
    /\ UNCHANGED <<nas, strays>>

\* Mutant: the upload goes to the current target.
OpenUploadOnCurrent ==
    /\ wpc = "opening"
    /\ jobs[wjob].op = "UPLOAD"
    /\ jobs[wjob].target \in NasTargets
    /\ docs[jobs[wjob].doc] = "ACTIVE"
    /\ wpc' = "copying"
    /\ wpath' = [target |-> setting.current, segment |-> segment,
                 doc |-> jobs[wjob].doc]
    /\ UNCHANGED <<dbVars, importVars, batch, wjob, interrupted, crashes,
                   nas, strays>>

\* The checks of _upload: the document may have been trashed meanwhile.
OpenUpload ==
    /\ wpc = "opening"
    /\ jobs[wjob].op = "UPLOAD"
    /\ jobs[wjob].target \in NasTargets
    /\ \/ /\ docs[jobs[wjob].doc] = "ACTIVE"
          /\ wpc' = "copying"
          /\ wpath' = [target |-> jobs[wjob].target, segment |-> segment,
                       doc |-> jobs[wjob].doc]
          /\ UNCHANGED <<dbVars, importVars, batch, wjob, interrupted, crashes>>
       \/ /\ docs[jobs[wjob].doc] # "ACTIVE"
          /\ FinishJob(FailDefinitive(jobs, wjob))
    /\ UNCHANGED <<nas, strays>>

\* NASTransportAdapter.delete up to _inside_root: a path outside the folder the
\* organization has today is refused, and when that folder does not exist yet
\* the root counts as unavailable.
OpenDelete ==
    /\ wpc = "opening"
    /\ jobs[wjob].op = "DELETE"
    /\ jobs[wjob].target \in NasTargets
    /\ \/ /\ jobs[wjob].path.segment = segment
          /\ wpc' = "removing"
          /\ wpath' = jobs[wjob].path
          /\ UNCHANGED <<dbVars, importVars, batch, wjob, interrupted, crashes>>
       \/ /\ jobs[wjob].path.segment # segment
          /\ \/ FinishJob(FailDefinitive(jobs, wjob))
             \/ FinishJob(Fail(jobs, wjob))
    /\ UNCHANGED <<nas, strays>>

\* NASTransportAdapter.upload up to the checksum of the temporary file.
CopyToTemporary ==
    /\ wpc = "copying"
    /\ wpc' = "replacing"
    /\ UNCHANGED <<dbVars, importVars, nas, batch, wjob, wpath, interrupted,
                   crashes, strays>>

\* The NAS is unreachable or the checksum differs before anything is published
\* or removed.
TransferFails ==
    /\ wpc \in {"copying", "replacing", "removing"}
    /\ FinishJob(Fail(jobs, wjob))
    /\ UNCHANGED <<nas, strays>>

\* The temporary file cannot be unlinked either: the second error leaves the
\* adapter as an unexpected one.
CleanupFails ==
    /\ wpc \in {"copying", "replacing"}
    /\ FinishJob(FailDefinitive(jobs, wjob))
    /\ UNCHANGED <<nas, strays>>

\* os.replace and the checksum of the published file.
PublishFile ==
    /\ wpc = "replacing"
    /\ nas' = nas \cup {wpath}
    /\ wpc' = "recording"
    /\ UNCHANGED <<dbVars, importVars, batch, wjob, wpath, interrupted, crashes, strays>>

\* The published file cannot be read back: it stays.
VerifyFails ==
    /\ wpc = "replacing"
    /\ nas' = nas \cup {wpath}
    /\ strays' = strays \cup {wpath}
    /\ FinishJob(Fail(jobs, wjob))

\* The published file differs: it is unlinked.
VerifyDiffers ==
    /\ wpc = "replacing"
    /\ nas' = nas \ {wpath}
    /\ strays' = strays \ {wpath}
    /\ FinishJob(Fail(jobs, wjob))

\* NASTransportAdapter.delete; a file that is already gone counts as removed.
RemoveFile ==
    /\ wpc = "removing"
    /\ nas' = nas \ {wpath}
    /\ wpc' = "recording"
    /\ UNCHANGED <<dbVars, importVars, batch, wjob, wpath, interrupted, crashes, strays>>

\* Mutant: whether the row was still RUNNING is not looked at.
RecordUnchecked ==
    /\ wpc = "recording"
    /\ FinishJob(Complete(jobs, wjob, wpath))
    /\ strays' = strays \ {wpath}
    /\ UNCHANGED nas

\* complete; when the job is no longer RUNNING a published file is taken back.
RecordCompletion ==
    /\ wpc = "recording"
    /\ IF jobs[wjob].status # "RUNNING" /\ jobs[wjob].op = "UPLOAD"
       THEN /\ wpc' = "compensating"
            /\ UNCHANGED <<dbVars, importVars, batch, wjob, wpath, interrupted,
                           crashes, strays>>
       ELSE /\ FinishJob(Complete(jobs, wjob, wpath))
            /\ strays' = strays \ {wpath}
    /\ UNCHANGED nas

\* adapter.delete of a file published for a job cancelled meanwhile.
Compensate ==
    /\ wpc = "compensating"
    /\ nas' = nas \ {wpath}
    /\ strays' = strays \ {wpath}
    /\ FinishJob(jobs)

\* The clean-up fails; the exception is only logged.
CompensationFails ==
    /\ wpc = "compensating"
    /\ strays' = strays \cup {wpath}
    /\ FinishJob(jobs)
    /\ UNCHANGED nas

-----------------------------------------------------------------------------
\* The process dies and is started again: threads are gone, the first
\* CorporateTransportService returns RUNNING jobs to the queue.
CrashAndRestart ==
    /\ crashes < MaxCrashes
    /\ crashes' = crashes + 1
    /\ jobs' = RecoverInterrupted(jobs)
    /\ importer' = [d \in Docs |-> "idle"]
    /\ importTarget' = [d \in Docs |-> NoTarget]
    /\ wpc' = "idle" /\ batch' = {} /\ wjob' = NoJob /\ wpath' = NoPath
    /\ interrupted' = FALSE
    /\ strays' = IF wpath \in nas /\ wpc \in {"recording", "compensating"}
                 THEN strays \cup {wpath} ELSE strays
    /\ UNCHANGED <<docs, targets, setting, segment, nas>>

Worker ==
    \/ ListPending \/ EndBatch \/ ClaimJob \/ CancelInterrupted
    \/ NoAdapter \/ OpenUpload \/ OpenDelete \/ CopyToTemporary
    \/ TransferFails \/ CleanupFails
    \/ PublishFile \/ VerifyFails \/ VerifyDiffers
    \/ RemoveFile
    \/ RecordCompletion \/ Compensate \/ CompensationFails

Importer(d) == ImportCheck(d) \/ ImportReadTarget(d) \/ ImportEnqueue(d)

Interface ==
    \/ ConfigureLocal
    \/ \E t \in Targets, e \in BOOLEAN : ConfigureTarget(t, e)
    \/ \E e \in BOOLEAN : ConfigureSame(e)
    \/ \E s \in Segments : RenameOrganization(s)
    \/ \E d \in Docs : \/ ImportDocument(d) \/ CopyDocument(d)
                       \/ TrashDocument(d) \/ RestoreDocument(d)
                       \/ PermanentlyDeleteDocument(d)
    \/ RetryFailedJobs
    \/ \E j \in JobIds : CancelReconciliation(j) \/ RecreateUpload(j)
    \/ Interrupt

Next ==
    \/ Interface
    \/ \E d \in Docs : Importer(d)
    \/ Trigger
    \/ Worker
    \/ CrashAndRestart

Spec == Init /\ [][Next]_vars

\* Threads the operating system keeps running, and the coordinator's timer.
FairSpec ==
    /\ Spec
    /\ WF_vars(Worker)
    /\ WF_vars(Trigger)
    /\ \A d \in Docs : WF_vars(Importer(d))
-----------------------------------------------------------------------------
(* Properties.                                                             *)

TypeOK ==
    /\ docs \in [Docs -> DocStatuses]
    /\ jobs \in [JobIds -> TransportJob]
    /\ targets \in [Targets -> {"NONE", "ACTIVE", "RETIRED"}]
    /\ setting \in [enabled : BOOLEAN, current : Targets \cup {NoTarget}]
    /\ segment \in Segments
    /\ importer \in [Docs -> ImporterSteps]
    /\ importTarget \in [Docs -> Targets \cup {NoTarget}]
    /\ nas \subseteq Paths
    /\ wpc \in WorkerSteps
    /\ batch \subseteq JobIds
    /\ wjob \in JobIds \cup {NoJob}
    /\ wpath \in Paths \cup {NoPath}
    /\ interrupted \in BOOLEAN
    /\ crashes \in 0..MaxCrashes
    /\ strays \subseteq Paths

\* No job is left RUNNING once the thread has let go of it: every exit of
\* process_job writes an outcome, so only a restart finds RUNNING rows.
RunningIsHeld ==
    \A j \in JobIds : jobs[j].status = "RUNNING" => InJob /\ wjob = j

\* A document never has two upload jobs that were not cancelled, whatever the
\* import, the copy, the re-creation of a legacy job and the manual retry do in
\* between: latest_completed_upload has one candidate, and retry_failed never
\* runs into the unique index.
OneUploadPerDocument ==
    \A i, j \in JobIds :
        /\ jobs[i].op = "UPLOAD" /\ jobs[j].op = "UPLOAD"
        /\ jobs[i].doc = jobs[j].doc
        /\ jobs[i].status \notin {"NONE", "CANCELLED"}
        /\ jobs[j].status \notin {"NONE", "CANCELLED"}
        => i = j

\* A resolved job knows its target, and what it has published or is to remove
\* lies on that target, however often the configuration has changed since.
PathsOnOwnTarget ==
    /\ \A j \in JobIds :
           jobs[j].status # "NONE" /\ jobs[j].resolved
           => /\ jobs[j].target # NoTarget
              /\ jobs[j].path # NoPath => jobs[j].path.target = jobs[j].target
    /\ wpath # NoPath => wpath.target = jobs[wjob].target

\* A COMPLETED row is true: the upload of a document that still exists is on the
\* NAS at the recorded path, whatever clean-up, retry or failed re-upload came
\* since, and the copy a DELETE has removed does not come back.
CompletedMeansDone ==
    \A j \in JobIds :
        jobs[j].status = "COMPLETED" =>
            /\ jobs[j].op = "UPLOAD" /\ docs[jobs[j].doc] # "DELETED"
               => jobs[j].path \in nas
            /\ jobs[j].op = "DELETE" => jobs[j].path \notin nas

\* A copy of a permanently deleted document that is still on the NAS is known:
\* a DELETE job names it, the worker is about to record it or take it back, or
\* it was published by an attempt whose publication could not be recorded.
NoUnknownCopy ==
    \A p \in nas :
        docs[p.doc] = "DELETED" =>
            \/ \E j \in JobIds : /\ jobs[j].op = "DELETE"
                                 /\ jobs[j].path = p
                                 /\ jobs[j].status \notin {"NONE", "COMPLETED"}
            \/ wpc \in {"recording", "compensating"} /\ wpath = p
            \/ p \in strays

\* The rows of the queue tell the truth about the copies: one upload of each
\* document that was not cancelled, what is COMPLETED is done, and no copy of a
\* deleted document is forgotten.
JobsTellTheTruth == OneUploadPerDocument /\ CompletedMeansDone /\ NoUnknownCopy

\* A file whose target cannot be proved is never touched: no job built on a
\* legacy row reaches it, not even the DELETE of its document.
LegacyFilesUntouched ==
    [][\A p \in nas : p.target = NoTarget => p \in nas']_vars

UploadStage == [PENDING |-> "queued", RETRY |-> "queued", RUNNING |-> "sending",
                FAILED |-> "unsent", COMPLETED |-> "stored"]
DeleteStage == [PENDING |-> "condemned", RETRY |-> "condemned",
                RUNNING |-> "removing", FAILED |-> "unremoved",
                COMPLETED |-> "removed", CANCELLED |-> "kept"]

\* The stage of a document's copy: its DELETE job if there is one, or else the
\* one upload that was not cancelled.
CopyStage(d) ==
    LET rows(op) == {j \in JobIds : /\ jobs[j].doc = d /\ jobs[j].op = op
                                    /\ jobs[j].status # "NONE"}
        live == {j \in rows("UPLOAD") : jobs[j].status # "CANCELLED"}
    IN  IF rows("DELETE") # {}
        THEN DeleteStage[jobs[CHOOSE j \in rows("DELETE") : TRUE].status]
        ELSE IF live # {}
        THEN UploadStage[jobs[CHOOSE j \in live : TRUE].status]
        ELSE IF rows("UPLOAD") # {} THEN "abandoned" ELSE "none"

\* The queue implements RemoteCopy: each document's copy goes through the stages
\* of that specification, whichever thread changes the rows.
RC == INSTANCE RemoteCopy WITH copy <- [d \in Docs |-> CopyStage(d)]

CopyLifecycle == RC!Spec

\* With the transport left enabled and the session left alone every job of a
\* proved target is eventually finished, even if the NAS never answers.
JobsSettle ==
    (<>[](IsNasEnabled /\ ~interrupted)) =>
        \A j \in JobIds :
            (jobs[j].resolved /\ jobs[j].status \in ActiveStatuses)
            ~> (jobs[j].status \notin ActiveStatuses)
=============================================================================
