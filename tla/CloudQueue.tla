------------------------------ MODULE CloudQueue ------------------------------
(***************************************************************************)
(* The table sync_jobs and the statements of CloudJobQueue and             *)
(* CloudSyncService on it (app/cloud).  An operator takes the table and    *)
(* gives the table one statement leaves behind.  Row ids are               *)
(* AUTOINCREMENT; a row of status "NONE" is not inserted yet, one of       *)
(* status "GONE" went with its document (ON DELETE CASCADE).               *)
(***************************************************************************)
EXTENDS Naturals

CONSTANTS
    Docs,         \* documents of one organization
    Providers,    \* OneDrive, Google Drive
    JobIds,       \* ids of sync_jobs rows, a bound on the table's size
    MaxAttempts,  \* the limit CloudJobQueue.retry compares with (5)
    NoDoc, NoProvider

ASSUME JobIdsAssumption == JobIds \subseteq Nat
ASSUME MaxAttemptsAssumption == MaxAttempts \in Nat \ {0}
ASSUME NullAssumption == NoDoc \notin Docs /\ NoProvider \notin Providers

\* DOWNLOAD, DELETE and SYNC exist in CloudOperation; nothing enqueues them.
Operations == {"UPLOAD", "MOVE", "RENAME"}
OpenStatuses == {"PENDING", "RETRY", "RUNNING"}

SyncJob == [doc      : Docs \cup {NoDoc},
            op       : Operations,
            provider : Providers \cup {NoProvider},
            status   : OpenStatuses \cup {"NONE", "COMPLETED", "ERROR", "GONE"},
            attempts : Nat]

FreeRow == [doc |-> NoDoc, op |-> "UPLOAD", provider |-> NoProvider,
            status |-> "NONE", attempts |-> 0]

-----------------------------------------------------------------------------
(* Reads.                                                                  *)

OpenJobs(js, d, op) == {j \in JobIds : /\ js[j].doc = d
                                       /\ js[j].op = op
                                       /\ js[j].status \in OpenStatuses}

OpenJobsOf(js, d) == UNION {OpenJobs(js, d, op) : op \in Operations}

Waiting(js) == {j \in JobIds : js[j].status \in {"PENDING", "RETRY"}}

\* ORDER BY attempts, created_at, id.
Before(js, i, j) == \/ js[i].attempts < js[j].attempts
                    \/ js[i].attempts = js[j].attempts /\ i < j

NextPending(js) == {j \in Waiting(js) : \A i \in Waiting(js) \ {j} : Before(js, j, i)}

\* The id AUTOINCREMENT gives next, while the table is below its bound.
FreeIds(js) == {j \in JobIds : js[j].status = "NONE"}
NextId(js) == {j \in FreeIds(js) : \A i \in FreeIds(js) : j <= i}

-----------------------------------------------------------------------------
(* Writes.                                                                 *)

\* The tables an enqueue may leave: an open job of the document and operation is
\* returned instead of a new one, whether it has begun or not.
Enqueue(js, d, op, p) ==
    IF OpenJobs(js, d, op) # {}
    THEN {js}
    ELSE {[js EXCEPT ![j] = [doc |-> d, op |-> op, provider |-> p,
                             status |-> "PENDING", attempts |-> 0]] : j \in NextId(js)}

MarkRunning(js, j) ==
    IF js[j].status = "GONE"
    THEN js
    ELSE [js EXCEPT ![j].status = "RUNNING", ![j].attempts = @ + 1]

Complete(js, j) ==
    IF js[j].status = "GONE" THEN js ELSE [js EXCEPT ![j].status = "COMPLETED"]

\* Mutant: the count starts again with every failure.
RetryForgetting(js, j) ==
    IF js[j].status = "GONE"
    THEN js
    ELSE [js EXCEPT ![j].status = "RETRY", ![j].attempts = 0]

\* For a row that is gone, get raises and nothing is written.
Retry(js, j) ==
    IF js[j].status = "GONE"
    THEN js
    ELSE [js EXCEPT ![j].status = IF js[j].attempts >= MaxAttempts
                                  THEN "ERROR" ELSE "RETRY"]

\* mark_pending_documents_failed.
FailPending(js) ==
    [j \in JobIds |-> IF js[j].status = "RUNNING"
                      THEN [js[j] EXCEPT !.status = "RETRY"]
                      ELSE js[j]]

CascadeDelete(js, d) ==
    [j \in JobIds |-> IF js[j].doc = d THEN [js[j] EXCEPT !.status = "GONE"]
                                       ELSE js[j]]
=============================================================================
