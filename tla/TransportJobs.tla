---------------------------- MODULE TransportJobs ----------------------------
(***************************************************************************)
(* The table transport_jobs and the statements TransportJobRepository runs *)
(* on it (app/repositories/transport_job_repository.py).  Every operator   *)
(* takes the table and returns the table one SQL statement leaves behind;  *)
(* a statement is atomic because Database holds one lock per transaction.  *)
(*                                                                         *)
(* A row is a job: the document, the operation, the physical target it was *)
(* created for, whether that target is proved (reconciliation_status =     *)
(* 'RESOLVED'), the status, the attempts and the remote path.  Row ids are *)
(* AUTOINCREMENT, so a row is never reused; a row with status "NONE" has   *)
(* not been inserted yet.  The error text and the timestamps are left out: *)
(* no statement reads them except as an order that ids give as well.       *)
(***************************************************************************)
EXTENDS Naturals

CONSTANTS
    Docs,         \* document ids of one organization
    Targets,      \* rows of organization_transport_targets
    Segments,     \* folder names the organization's slug gives on a NAS
    JobIds,       \* ids of transport_jobs rows, a bound on the table's size
    MaxAttempts,  \* CorporateTransportService.MAX_ATTEMPTS
    NoDoc, NoTarget, NoPath   \* SQL NULL in the three columns

ASSUME JobIdsAssumption == JobIds \subseteq Nat
ASSUME MaxAttemptsAssumption == MaxAttempts \in Nat \ {0}
ASSUME NullAssumption ==
    /\ NoDoc \notin Docs
    /\ NoTarget \notin Targets

\* A remote path: the physical target, the organization's folder under it and
\* the document the file belongs to.  A path written before targets existed
\* has no known target.
Paths == [target : Targets \cup {NoTarget}, segment : Segments, doc : Docs]

ASSUME NoPathAssumption == NoPath \notin Paths

Operations == {"UPLOAD", "DELETE"}
Statuses == {"NONE", "PENDING", "RUNNING", "RETRY",
             "COMPLETED", "FAILED", "CANCELLED"}
ActiveStatuses == {"PENDING", "RUNNING", "RETRY"}

TransportJob ==
    [doc      : Docs \cup {NoDoc},
     op       : Operations,
     target   : Targets \cup {NoTarget},
     resolved : BOOLEAN,
     status   : Statuses,
     attempts : Nat,
     path     : Paths \cup {NoPath}]

FreeRow == [doc |-> NoDoc, op |-> "UPLOAD", target |-> NoTarget,
            resolved |-> TRUE, status |-> "NONE", attempts |-> 0,
            path |-> NoPath]

-----------------------------------------------------------------------------
(* Reads.                                                                  *)

FindActive(js, d, op) ==
    {j \in JobIds : /\ js[j].doc = d
                    /\ js[j].op = op
                    /\ js[j].status \in ActiveStatuses}

CompletedUploads(js, d) ==
    {j \in JobIds : /\ js[j].doc = d
                    /\ js[j].op = "UPLOAD"
                    /\ js[j].status = "COMPLETED"
                    /\ js[j].path # NoPath}

Pending(js) ==
    {j \in JobIds : js[j].status \in {"PENDING", "RETRY"} /\ js[j].resolved}

\* ORDER BY attempts, created_at, id.
Before(js, i, j) ==
    \/ js[i].attempts < js[j].attempts
    \/ js[i].attempts = js[j].attempts /\ i < j

-----------------------------------------------------------------------------
(* Writes.                                                                 *)

\* The id AUTOINCREMENT gives next.
NextId(js) == {j \in JobIds : /\ js[j].status = "NONE"
                              /\ \A i \in JobIds : i < j => js[i].status # "NONE"}

Insert(js, j, d, op, target, resolved, path) ==
    [js EXCEPT ![j] = [doc |-> d, op |-> op, target |-> target,
                       resolved |-> resolved, status |-> "PENDING",
                       attempts |-> 0, path |-> path]]

Claimable(js, j) == /\ j \in Pending(js)
                    /\ js[j].target # NoTarget

\* Mutant: the attempt is not counted.
MarkRunningUncounted(js, j) == [js EXCEPT ![j].status = "RUNNING"]

MarkRunning(js, j) ==
    [js EXCEPT ![j].status = "RUNNING", ![j].attempts = @ + 1]

\* The statements a running job ends with touch the row only while it is still
\* RUNNING; another thread may have cancelled it.
Complete(js, j, path) ==
    IF js[j].status = "RUNNING"
    THEN [js EXCEPT ![j].status = "COMPLETED",
                    ![j].path = IF path = NoPath THEN @ ELSE path]
    ELSE js

\* Mutant: only the last failure is written.
FailOnlyLast(js, j) ==
    IF js[j].status = "RUNNING" /\ js[j].attempts >= MaxAttempts
    THEN [js EXCEPT ![j].status = "FAILED"]
    ELSE js

Fail(js, j) ==
    IF js[j].status = "RUNNING"
    THEN [js EXCEPT ![j].status = IF js[j].attempts >= MaxAttempts
                                  THEN "FAILED" ELSE "RETRY"]
    ELSE js

FailDefinitive(js, j) ==
    IF js[j].status = "RUNNING"
    THEN [js EXCEPT ![j].status = "FAILED"]
    ELSE js

Cancellable(js, j) == js[j].status \in ActiveStatuses \cup {"FAILED"}

Cancel(js, j) ==
    IF Cancellable(js, j) THEN [js EXCEPT ![j].status = "CANCELLED"] ELSE js

CancelUploads(js, d) ==
    [j \in JobIds |-> IF j \in FindActive(js, d, "UPLOAD")
                      THEN [js[j] EXCEPT !.status = "CANCELLED"]
                      ELSE js[j]]

\* Mutant: cancelled jobs are retried as well.
RetryUnfinished(js) ==
    [j \in JobIds |-> IF js[j].status \in {"FAILED", "CANCELLED"} /\ js[j].resolved
                      THEN [js[j] EXCEPT !.status = "RETRY"]
                      ELSE js[j]]

\* attempts is not reset.
RetryFailed(js) ==
    [j \in JobIds |-> IF js[j].status = "FAILED" /\ js[j].resolved
                      THEN [js[j] EXCEPT !.status = "RETRY"]
                      ELSE js[j]]

RecoverInterrupted(js) ==
    [j \in JobIds |-> IF js[j].status = "RUNNING"
                      THEN [js[j] EXCEPT !.status = "RETRY"]
                      ELSE js[j]]

\* idx_transport_jobs_active_operation: a statement that would leave two active
\* jobs of one document and operation is rolled back.
ActiveIndexHolds(js) ==
    \A i, j \in JobIds :
        /\ js[i].status \in ActiveStatuses
        /\ js[j].status \in ActiveStatuses
        /\ js[i].doc = js[j].doc
        /\ js[i].op = js[j].op
        => i = j
=============================================================================
