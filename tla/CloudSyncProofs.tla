---------------------------- MODULE CloudSyncProofs ----------------------------
(***************************************************************************)
(* Proofs about CloudSync, for any documents, names, places, accounts,     *)
(* jobs and items, and any number of attempts, edits, switches, removals   *)
(* and crashes.                                                            *)
(*                                                                         *)
(* The worker carries a row it has read for as long as a transfer takes,   *)
(* and every thread may change the row meanwhile.  What it may still rely  *)
(* on is said by what it holds: the items of its document are the one of   *)
(* the row, the one in its hands, or strays; the row's labels are the      *)
(* document's, or a job stands for the difference.                         *)
(***************************************************************************)
EXTENDS CloudSync, SequenceTheorems, TLAPS

RestSteps == {"idle", "loop", "fail", "failjobs"}
SyncSteps == {"open", "list", "reconcile", "confirm", "apply"}
AfterRead == {"check", "transfer", "upload", "relabel", "record", "complete",
              "error", "retry"}
JobSteps == {"read"} \cup AfterRead

Memory == [pc : WorkerSteps, phase : {"sync", "job"}, account : Accounts \cup {NoAccount},
           todo : SUBSET Docs, seen : UNION {[ds -> Document] : ds \in SUBSET Docs},
           doc : Docs \cup {NoDoc}, found : BOOLEAN, changes : Seq(Items), to : Nat,
           job : JobIds \cup {NoJob}, item : Items \cup {NoItem}, gone : SUBSET Items]

Types ==
    /\ CloudTypeOK
    /\ w \in Memory
    /\ opened \in [doc : {NoDoc}] \cup [doc : Docs, row : Document]
    /\ opened.doc # NoDoc => opened.row.status = "ACTIVE"
    /\ count \in [edits : Nat, switches : Nat, removals : Nat, crashes : Nat]
    /\ \A d \in Docs : importer[d].pc = "enqueue" => importer[d].provider # NoProvider
    /\ \A j \in JobIds : jobs[j].status = "NONE" => jobs[j].doc = NoDoc

\* What the worker remembers at each of its steps.
WorkerPlaced ==
    /\ w.pc \in RestSteps => w = [IdleWorker EXCEPT !.pc = w.pc]
    /\ w.pc \in SyncSteps => w.phase = "sync" /\ w.job = NoJob
    /\ w.pc \in SyncSteps \ {"open"} => w.account \in Accounts
    /\ w.pc \in {"open", "list", "apply"} => w.todo = {}
    /\ w.pc \in {"reconcile", "confirm"} =>
           /\ w.todo \subseteq DOMAIN w.seen
           /\ \A d \in w.todo : w.seen[d].remote # NoItem
    /\ w.pc = "confirm" => w.doc \in w.todo
    /\ w.pc \in JobSteps => w.phase = "job" /\ w.job \in JobIds /\ w.doc \in Docs
    /\ w.pc \in AfterRead => w.doc \in DOMAIN w.seen
    /\ w.item # NoItem <=> w.pc \in {"record", "complete"}

\* The job in the worker's hands is of its document and has begun, and what the
\* step does is what the job's operation is.
JobInHand ==
    /\ w.pc \in JobSteps => /\ jobs[w.job].doc = w.doc
                            /\ jobs[w.job].status \in {"RUNNING", "GONE"}
    /\ w.pc = "upload" => Op = "UPLOAD"
    /\ w.pc = "relabel" => Op # "UPLOAD" /\ Row.remote # NoItem
    /\ w.pc \in {"record", "complete"} => /\ Op # "UPLOAD" => Row.remote # NoItem
                                          /\ Row.remote # NoItem => w.item = Row.remote

\* Jobs are of documents that exist, and gone when those are; a job that waits or
\* was left by a crash has an attempt before it.
JobsPlaced ==
    /\ \A j \in JobIds :
           /\ jobs[j].status # "NONE" => docs[jobs[j].doc].status # "NONE"
           /\ jobs[j].status = "GONE" => docs[jobs[j].doc].status = "DELETED"
           /\ jobs[j].status \in {"PENDING", "RETRY"} =>
                  jobs[j].attempts < MaxAttempts + count.crashes
    /\ \A j \in orphans : /\ jobs[j].status \in {"RUNNING", "GONE"}
                          /\ jobs[j].attempts < MaxAttempts + count.crashes
                          /\ j # w.job

\* An id in a row, or in a copy of a row, is that of an item of the document.
ItemOf(d, i) == i # NoItem => items[i].state # "none" /\ items[i].doc = d

Owned ==
    /\ \A d \in Docs : ItemOf(d, docs[d].remote)
    /\ opened.doc # NoDoc => ItemOf(opened.doc, opened.row.remote)
    /\ \A d \in DOMAIN w.seen : ItemOf(d, w.seen[d].remote)
    /\ ItemOf(w.doc, w.item)
    /\ \A i \in Items : items[i].state # "none" =>
           items[i].doc \in Docs /\ docs[items[i].doc].status # "NONE"

\* The items of a document that are known are among those of S.
Live(d) == {i \in Items : items[i].state = "live" /\ items[i].doc = d}
Within(d, S) == docs[d].status = "ACTIVE" => Live(d) \subseteq S \cup strays

Held == IF w.pc \in {"upload", "relabel", "record", "complete", "error", "retry"}
        THEN {w.item, Row.remote} ELSE {}

Known ==
    /\ \A d \in Docs : Within(d, {docs[d].remote} \cup Held)
    /\ w.pc \in AfterRead => Within(w.doc, {Row.remote, w.item})
    /\ \A d \in w.todo : w.pc \in {"reconcile", "confirm"} => Within(d, {w.seen[d].remote})
    /\ w.pc = "complete" => Within(w.doc, {docs[w.doc].remote})
    /\ w.pc = "retry" => Within(w.doc, {docs[w.doc].remote})

-----------------------------------------------------------------------------
\* A document whose edits all have a job, and whose row no old one replaced.
Fresh(d) == docs[d].status = "ACTIVE" /\ d \notin overtaken
Clean(d) == Fresh(d) /\ d \notin missed

\* A document with a remote id is there and not shown as local.
NotLocal ==
    /\ \A d \in Docs : docs[d].remote # NoItem => docs[d].cloud # "LOCAL_ONLY"
    /\ \A d \in Docs : docs[d].status # "ACTIVE" =>
           docs[d].remote = NoItem /\ docs[d].cloud = "LOCAL_ONLY"
    /\ opened.doc # NoDoc /\ opened.row.remote # NoItem => opened.row.cloud # "LOCAL_ONLY"

\* Nobody but the worker gives a fresh document a remote id or takes it away.
RemoteFollows ==
    /\ w.pc \in AfterRead /\ Fresh(w.doc) =>
           /\ Op # "UPLOAD" \/ w.pc \in {"check", "transfer", "retry"} =>
                  docs[w.doc].remote = Row.remote
           /\ Op = "UPLOAD" /\ w.pc \in {"upload", "record"} => docs[w.doc].remote = NoItem
           /\ w.pc = "complete" => docs[w.doc].remote = w.item
    /\ w.pc \in {"reconcile", "confirm"} =>
           \A d \in w.todo : Fresh(d) => docs[d].remote = w.seen[d].remote

\* Jobs that will still do the operation on the document, and those among them
\* that are not in the worker's hands.
Awaited(d, op) == \E j \in OpenJobs(jobs, d, op) :
                      ~(j = w.job /\ w.pc \in {"record", "complete"})
Others(d, op) == OpenJobs(jobs, d, op) \ {w.job} # {}

\* The items a document has or is about to have.
InUse(d) == ({docs[d].remote} \cup (IF w.pc \in AfterRead /\ w.doc = d
                                    THEN {Row.remote, w.item} ELSE {})) \ {NoItem}

\* What an operation is about.
Relabels == {"RENAME", "MOVE"}
Label(row, op) == IF op = "RENAME" THEN row.name ELSE row.place

Labels ==
    /\ \A d \in Docs : Clean(d) => \A i \in InUse(d), op \in Relabels :
           Label(items[i], op) # Label(docs[d], op) => Awaited(d, op)
    /\ /\ w.pc \in {"check", "transfer", "upload", "relabel", "record"}
       /\ Clean(w.doc)
       /\ Row.remote # NoItem \/ Op = "UPLOAD"
       => \A op \in Relabels : Label(Row, op) # Label(docs[w.doc], op) => Others(w.doc, op)
    /\ w.pc \in {"reconcile", "confirm"} =>
           \A d \in w.todo : Clean(d) => \A op \in Relabels :
               Label(w.seen[d], op) # Label(docs[d], op) => OpenJobs(jobs, d, op) # {}
    /\ w.pc = "confirm" /\ w.found = TRUE => \A op \in Relabels :
           Label(items[w.seen[w.doc].remote], op) = Label(w.seen[w.doc], op)

\* Before the worker closes an upload's job the document does not wait for it.
Marks ==
    /\ WaitingIsQueued
    /\ w.pc \in {"complete", "retry"} /\ Clean(w.doc) =>
           /\ docs[w.doc].cloud # "LOCAL_ONLY"
           /\ docs[w.doc].cloud \in {"PENDING_UPLOAD", "UPLOADING"} => Op # "UPLOAD"

\* A synchronization shows no item as there that was gone when it began, but for
\* the documents it has yet to come to.
Removed ==
    /\ w.pc \in SyncSteps => \A i \in w.gone : items[i].state = "gone"
    /\ w.pc \in {"reconcile", "confirm", "apply"} =>
           \A d \in Docs : Fresh(d) /\ docs[d].remote \in w.gone =>
               d \in w.todo \/ docs[d].cloud # "SYNCED"
    /\ w.pc = "confirm" /\ w.found = TRUE => w.seen[w.doc].remote \notin w.gone

IInv == /\ Types /\ WorkerPlaced /\ JobInHand
        /\ JobsPlaced /\ AttemptsBounded /\ RunningIsWorked
        /\ Owned /\ Known
        /\ NotLocal /\ RemoteFollows /\ Labels /\ Marks /\ Removed

-----------------------------------------------------------------------------
(* The tables.                                                             *)

\* What an enqueue leaves: the table it found, or one more waiting job.
LEMMA EnqueueLeaves ==
    ASSUME NEW js, NEW d, NEW op, NEW p, NEW after \in Enqueue(js, d, op, p)
    PROVE  \/ OpenJobs(js, d, op) # {} /\ after = js
           \/ \E j \in JobIds :
                 /\ js[j].status = "NONE"
                 /\ after = [js EXCEPT ![j] = [doc |-> d, op |-> op, provider |-> p,
                                               status |-> "PENDING", attempts |-> 0]]
BY DEF Enqueue, NextId, FreeIds

\* What a step may do to the table of jobs.
JobsMove ==
    \/ jobs' = jobs
    \/ \E d \in Docs, op \in Operations, p \in Providers :
           jobs' \in Enqueue(jobs, d, op, p) /\ docs[d].status = "ACTIVE"
    \/ \E d \in Docs : jobs' = CascadeDelete(jobs, d) /\ PermanentlyDelete(d)
    \/ w.pc = "loop" /\ ClaimJob
    \/ w.pc = "complete" /\ CompleteJob
    \/ w.pc = "read" /\ ReadDocument
    \/ w.pc = "retry" /\ RetryJob
    \/ w.pc = "failjobs" /\ FailJobs

\* Every step does one of these things to the jobs.
LEMMA JobsMoves == Types /\ Next => JobsMove
<1> SUFFICES ASSUME Types, Next PROVE JobsMove
    OBVIOUS
<1>0. Available => SyncMode \in Providers
    BY ProviderAssumption DEF Types, CloudTypeOK, Available, SyncMode
<1>1. ASSUME NEW d \in Docs, ImportEnqueue(d) PROVE JobsMove
    BY <1>1 DEF JobsMove, ImportEnqueue, Types, CloudTypeOK, Operations
<1>2. ASSUME NEW d \in Docs, NEW n \in Names, RenameDocument(d, n) PROVE JobsMove
    BY <1>0, <1>2 DEF JobsMove, RenameDocument, EnqueueEdit, Operations
<1>3. ASSUME NEW d \in Docs, NEW p \in Places, MoveDocument(d, p) PROVE JobsMove
    BY <1>0, <1>3 DEF JobsMove, MoveDocument, EnqueueEdit, Operations
<1>4. CASE Interface
    BY <1>1, <1>2, <1>3, <1>4
    DEF JobsMove, Interface, ImportDocument, ImportReadSettings, ImportMark, OpenRead,
        OpenWrite, PermanentlyDelete, Configure, SetPaused
<1>5. CASE Worker
  <2>1. ASSUME ClaimJob \/ CompleteJob \/ ReadDocument \/ RetryJob \/ FailJobs PROVE JobsMove
    <3>1. \/ w.pc = "loop" /\ ClaimJob
          \/ w.pc = "complete" /\ CompleteJob
          \/ w.pc = "read" /\ ReadDocument
          \/ w.pc = "retry" /\ RetryJob
          \/ w.pc = "failjobs" /\ FailJobs
      BY <2>1 DEF ClaimJob, CompleteJob, ReadDocument, RetryJob, FailJobs
    <3> QED
      BY <3>1 DEF JobsMove
  <2>2. ASSUME \/ StartSync \/ SyncFails \/ OpenProvider \/ ListDocuments
               \/ \E d \in Docs : ReconcileItem(d)
               \/ ReconcileWrite \/ ListChanges \/ ApplyChange \/ SaveCursor \/ LoopEnds
        PROVE  jobs' = jobs
    BY <2>2
    DEF StartSync, SyncFails, OpenProvider, ListDocuments, ReconcileItem, ReconcileWrite,
        ListChanges, ApplyChange, SaveCursor, LoopEnds
  <2>3. ASSUME \/ CheckAccount \/ JobFails \/ BeginTransfer \/ UploadNew \/ UploadExisting
               \/ Relabel \/ Record \/ AuditFails \/ RecordError \/ FailDocuments
        PROVE  jobs' = jobs
    BY <2>3
    DEF CheckAccount, JobFails, BeginTransfer, UploadNew, UploadExisting, Relabel, Record,
        AuditFails, RecordError, FailDocuments
  <2> QED
    BY <1>5, <2>1, <2>2, <2>3 DEF Worker, JobsMove
<1>6. CASE Remote \/ CrashAndRestart
    BY <1>6 DEF JobsMove, Remote, RemoteRemove, CrashAndRestart
<1> QED
    BY <1>4, <1>5, <1>6 DEF Next

\* What a step may do to one job.
JobMove(j) ==
    \/ jobs'[j] = jobs[j]
    \/ /\ jobs[j].status = "NONE"
       /\ \E d \in Docs, op \in Operations, p \in Providers :
              /\ docs[d].status = "ACTIVE"
              /\ jobs'[j] = [doc |-> d, op |-> op, provider |-> p,
                             status |-> "PENDING", attempts |-> 0]
    \/ /\ jobs[j].doc \in Docs
       /\ PermanentlyDelete(jobs[j].doc)
       /\ jobs'[j] = [jobs[j] EXCEPT !.status = "GONE"]
    \/ /\ ClaimJob
       /\ w'.job = j
       /\ jobs[j].status \in {"PENDING", "RETRY"}
       /\ jobs'[j] = [jobs[j] EXCEPT !.status = "RUNNING", !.attempts = @ + 1]
    \/ /\ CompleteJob
       /\ w.job = j /\ w.pc = "complete"
       /\ jobs[j].status # "GONE"
       /\ jobs'[j] = [jobs[j] EXCEPT !.status = "COMPLETED"]
    \/ /\ (w.pc = "read" /\ docs[w.doc].status # "ACTIVE") \/ (w.pc = "retry" /\ RetryJob)
       /\ w.job = j /\ w' = Failing
       /\ jobs[j].status # "GONE"
       /\ jobs'[j] = [jobs[j] EXCEPT !.status = IF jobs[j].attempts >= MaxAttempts
                                                THEN "ERROR" ELSE "RETRY"]
    \/ /\ FailJobs
       /\ jobs[j].status = "RUNNING"
       /\ jobs'[j] = [jobs[j] EXCEPT !.status = "RETRY"]

\* Every step does one of these things to each job.
LEMMA JobMoves ==
    ASSUME Types, WorkerPlaced, Next
    PROVE  /\ jobs' = [j \in JobIds |-> jobs'[j]]
           /\ \A j \in JobIds : JobMove(j)
<1> DEFINE Moved == /\ jobs' = [j \in JobIds |-> jobs'[j]]
                    /\ \A j \in JobIds : JobMove(j)
<1>0. jobs \in [JobIds -> SyncJob]
    BY DEF Types, CloudTypeOK
<1>1. ASSUME NEW d \in Docs, NEW op \in Operations, NEW p \in Providers,
             jobs' \in Enqueue(jobs, d, op, p), docs[d].status = "ACTIVE"
      PROVE  Moved
  <2>1. \/ jobs' = jobs
        \/ \E j \in JobIds :
              /\ jobs[j].status = "NONE"
              /\ jobs' = [jobs EXCEPT ![j] = [doc |-> d, op |-> op, provider |-> p,
                                              status |-> "PENDING", attempts |-> 0]]
    BY <1>1, EnqueueLeaves
  <2>2. CASE jobs' = jobs
    BY <1>0, <2>2 DEF JobMove
  <2>3. ASSUME NEW j \in JobIds, jobs[j].status = "NONE",
               jobs' = [jobs EXCEPT ![j] = [doc |-> d, op |-> op, provider |-> p,
                                            status |-> "PENDING", attempts |-> 0]]
        PROVE  Moved
    <3>1. JobMove(j)
      BY <1>0, <1>1, <2>3 DEF JobMove
    <3>2. \A i \in JobIds \ {j} : JobMove(i)
      BY <1>0, <2>3 DEF JobMove
    <3> QED
      BY <1>0, <2>3, <3>1, <3>2
  <2> QED
    BY <2>1, <2>2, <2>3
<1>2. ASSUME NEW d \in Docs, jobs' = CascadeDelete(jobs, d), PermanentlyDelete(d)
      PROVE  Moved
    BY <1>0, <1>2 DEF CascadeDelete, JobMove
<1>3. ASSUME w.pc = "loop", ClaimJob PROVE Moved
  <2>1. PICK j \in NextPending(jobs) :
            jobs' = MarkRunning(jobs, j) /\ w' = [w EXCEPT !.pc = "read", !.phase = "job",
                                                    !.job = j, !.doc = jobs[j].doc]
    BY <1>3 DEF ClaimJob
  <2>2. j \in JobIds /\ jobs[j].status \in {"PENDING", "RETRY"} /\ w'.job = j
    BY <2>1 DEF NextPending, Waiting, Types, Memory
  <2>3. jobs' = [jobs EXCEPT ![j].status = "RUNNING", ![j].attempts = @ + 1]
    BY <2>1, <2>2 DEF MarkRunning
  <2>4. jobs'[j] = [jobs[j] EXCEPT !.status = "RUNNING", !.attempts = @ + 1]
    BY <1>0, <2>2, <2>3 DEF SyncJob
  <2>5. JobMove(j)
    BY <1>3, <2>2, <2>4 DEF JobMove
  <2>6. \A i \in JobIds \ {j} : JobMove(i)
    BY <1>0, <2>2, <2>3 DEF JobMove
  <2> QED
    BY <1>0, <2>2, <2>3, <2>5, <2>6
<1>4. ASSUME w.pc = "complete", CompleteJob PROVE Moved
  <2>1. w.job \in JobIds /\ jobs' = Complete(jobs, w.job)
    BY <1>4 DEF CompleteJob, WorkerPlaced, JobSteps, AfterRead
  <2>2. CASE jobs[w.job].status = "GONE"
    BY <1>0, <2>1, <2>2 DEF Complete, JobMove
  <2>3. CASE jobs[w.job].status # "GONE"
    <3>1. jobs' = [jobs EXCEPT ![w.job].status = "COMPLETED"]
      BY <2>1, <2>3 DEF Complete
    <3>2. \A i \in JobIds \ {w.job} : JobMove(i)
      BY <1>0, <2>1, <3>1 DEF JobMove
    <3>3. jobs'[w.job] = [jobs[w.job] EXCEPT !.status = "COMPLETED"]
      BY <1>0, <2>1, <3>1
    <3>4. JobMove(w.job)
      BY <1>4, <2>1, <2>3, <3>3 DEF JobMove
    <3> QED
      BY <1>0, <2>1, <3>1, <3>2, <3>4
  <2> QED
    BY <2>2, <2>3
<1>5. ASSUME \/ w.pc = "read" /\ docs[w.doc].status # "ACTIVE"
             \/ w.pc = "retry" /\ RetryJob,
             jobs' = Retry(jobs, w.job), w' = Failing
      PROVE  Moved
  <2>1. w.job \in JobIds
    BY <1>5 DEF WorkerPlaced, JobSteps, AfterRead
  <2>2. CASE jobs[w.job].status = "GONE"
    BY <1>0, <1>5, <2>1, <2>2 DEF Retry, JobMove
  <2>3. CASE jobs[w.job].status # "GONE"
    <3>1. jobs' = [jobs EXCEPT ![w.job].status = IF jobs[w.job].attempts >= MaxAttempts
                                                 THEN "ERROR" ELSE "RETRY"]
      BY <1>5, <2>1, <2>3 DEF Retry
    <3>2. \A i \in JobIds \ {w.job} : JobMove(i)
      BY <1>0, <2>1, <3>1 DEF JobMove
    <3>3. jobs'[w.job] = [jobs[w.job] EXCEPT
                              !.status = IF jobs[w.job].attempts >= MaxAttempts
                                         THEN "ERROR" ELSE "RETRY"]
      BY <1>0, <2>1, <3>1
    <3>4. JobMove(w.job)
      BY <1>5, <2>1, <2>3, <3>3 DEF JobMove
    <3> QED
      BY <1>0, <2>1, <3>1, <3>2, <3>4
  <2> QED
    BY <2>2, <2>3
<1>6. ASSUME w.pc = "read", ReadDocument PROVE Moved
  <2>1. CASE docs[w.doc].status = "ACTIVE"
    BY <1>0, <1>6, <2>1 DEF ReadDocument, JobMove
  <2>2. CASE docs[w.doc].status # "ACTIVE"
    BY <1>5, <1>6, <2>2 DEF ReadDocument
  <2> QED
    BY <2>1, <2>2
<1>7. ASSUME w.pc = "retry", RetryJob PROVE Moved
    BY <1>5, <1>7 DEF RetryJob
<1>8. ASSUME FailJobs PROVE Moved
  <2>1. jobs' = [j \in JobIds |-> IF jobs[j].status = "RUNNING"
                                  THEN [jobs[j] EXCEPT !.status = "RETRY"] ELSE jobs[j]]
    BY <1>8 DEF FailJobs, FailPending
  <2> QED
    BY <1>0, <1>8, <2>1 DEF JobMove
<1>9. ASSUME jobs' = jobs PROVE Moved
    BY <1>0, <1>9 DEF JobMove
<1> HIDE DEF Moved
<1>10. JobsMove
    BY JobsMoves
<1>11. Moved
    BY <1>10, <1>1, <1>2, <1>3, <1>4, <1>6, <1>7, <1>8, <1>9 DEF JobsMove
<1> QED
    BY <1>11 DEF Moved

\* The types of the jobs, apart.
JobTypes ==
    /\ jobs \in [JobIds -> SyncJob]
    /\ \A j \in JobIds : jobs[j].status # "NONE" =>
           jobs[j].doc # NoDoc /\ jobs[j].provider # NoProvider
    /\ \A j \in JobIds : jobs[j].status = "NONE" => jobs[j].doc = NoDoc

\* A job once created keeps its document, operation and provider.
SameJob(j) == /\ jobs'[j].doc = jobs[j].doc
              /\ jobs'[j].op = jobs[j].op
              /\ jobs'[j].provider = jobs[j].provider
              /\ jobs'[j].status # "NONE"

\* Every step keeps the jobs' types and what a job is for.
LEMMA JobsKept ==
    ASSUME Types, WorkerPlaced, JobInHand, Next
    PROVE  /\ JobTypes'
           /\ \A j \in JobIds : jobs[j].status # "NONE" => SameJob(j)
<1>0. JobTypes
    BY DEF Types, CloudTypeOK, JobTypes
<1>1. jobs' = [j \in JobIds |-> jobs'[j]] /\ \A j \in JobIds : JobMove(j)
    BY JobMoves
<1>2. ASSUME NEW j \in JobIds
      PROVE  /\ jobs'[j] \in SyncJob
             /\ jobs'[j].status # "NONE" => jobs'[j].doc # NoDoc /\ jobs'[j].provider # NoProvider
             /\ jobs'[j].status = "NONE" => jobs'[j].doc = NoDoc
             /\ jobs[j].status # "NONE" => SameJob(j)
  <2>1. jobs[j] \in SyncJob /\ JobMove(j)
    BY <1>0, <1>1, <1>2 DEF JobTypes
  <2>2. NoDoc \notin Docs /\ NoProvider \notin Providers
    BY NullAssumption
  <2>3. CASE jobs'[j] = jobs[j]
    BY <1>0, <1>2, <2>1, <2>3 DEF JobTypes, SameJob
  <2>4. CASE /\ jobs[j].status = "NONE"
             /\ \E d \in Docs, op \in Operations, p \in Providers :
                    jobs'[j] = [doc |-> d, op |-> op, provider |-> p,
                                status |-> "PENDING", attempts |-> 0]
    BY <2>2, <2>4 DEF SyncJob, OpenStatuses
  <2>5. CASE \E status \in {"GONE", "COMPLETED", "ERROR", "RETRY"} :
                 jobs'[j] = [jobs[j] EXCEPT !.status = status] /\ jobs[j].status # "NONE"
    BY <1>0, <2>1, <2>2, <2>5 DEF JobTypes, SyncJob, SameJob, OpenStatuses
  <2>6. CASE /\ jobs[j].status # "NONE"
             /\ jobs'[j] = [jobs[j] EXCEPT !.status = "RUNNING", !.attempts = @ + 1]
    <3>1. jobs[j].attempts + 1 \in Nat
      BY <2>1 DEF SyncJob
    <3>2. jobs'[j] = [jobs[j] EXCEPT !.status = "RUNNING", !.attempts = jobs[j].attempts + 1]
      BY <2>6
    <3>3. jobs'[j] \in SyncJob
      BY <2>1, <3>1, <3>2 DEF SyncJob, OpenStatuses
    <3> QED
      BY <1>0, <2>1, <2>6, <3>2, <3>3 DEF JobTypes, SyncJob, SameJob
  <2>7. w.job = j /\ w.pc \in JobSteps => jobs[j].status # "NONE"
    BY DEF JobInHand
  <2> QED
    BY <1>0, <2>1, <2>2, <2>3, <2>4, <2>5, <2>6, <2>7 DEF JobMove, JobTypes, JobSteps, AfterRead
<1> QED
    BY <1>1, <1>2 DEF JobTypes

-----------------------------------------------------------------------------
(* The worker's thread.                                                    *)

\* A thread at rest remembers nothing but where it stands.
LEMMA RestPlaced ==
    ASSUME NEW pc \in RestSteps, NEW v, v = [IdleWorker EXCEPT !.pc = pc]
    PROVE  v \in Memory /\ v.pc = pc /\ v.item = NoItem /\ v.job = NoJob /\ v.todo = {}
           /\ v.phase = "sync"
<1>1. [d \in {} |-> 0] \in [{} -> Document]
    OBVIOUS
<1>2. [d \in {} |-> 0] \in UNION {[ds -> Document] : ds \in SUBSET Docs}
  <2>1. {} \in SUBSET Docs
    OBVIOUS
  <2> QED
    BY <1>1, <2>1
<1>3. <<>> \in Seq(Items)
    OBVIOUS
<1>4. IdleWorker \in Memory
    BY <1>2, <1>3 DEF IdleWorker, Memory, WorkerSteps
<1> QED
    BY <1>4 DEF IdleWorker, Memory, WorkerSteps, RestSteps

\* What a step may do to the worker's memory.
WorkerMove ==
    \/ w' = w
    \/ w'.pc \in RestSteps /\ w' = [IdleWorker EXCEPT !.pc = w'.pc]
    \/ StartSync
    \/ w'.pc = "list" /\ OpenProvider
    \/ ListDocuments
    \/ \E d \in Docs : ReconcileItem(d)
    \/ ReconcileWrite \/ ListChanges \/ ApplyChange \/ ClaimJob
    \/ w'.pc = "check" /\ ReadDocument
    \/ CheckAccount \/ JobFails \/ BeginTransfer \/ UploadNew \/ UploadExisting
    \/ Relabel \/ Record \/ AuditFails \/ RecordError
    \/ w'.pc = "failjobs" /\ FailDocuments

\* Every step does one of these things to it.
LEMMA WorkerMoves == Types /\ Next => WorkerMove
<1> SUFFICES ASSUME Types, Next PROVE WorkerMove
    OBVIOUS
<1>0. /\ IdleWorker.pc = "idle" /\ Failing.pc = "fail"
      /\ IdleWorker = [IdleWorker EXCEPT !.pc = IdleWorker.pc]
      /\ Failing = [IdleWorker EXCEPT !.pc = Failing.pc]
      /\ [IdleWorker EXCEPT !.pc = "loop"].pc = "loop"
    BY DEF IdleWorker, Failing
<1>a. \A v : v = IdleWorker \/ v = Failing \/ v = [IdleWorker EXCEPT !.pc = "loop"] =>
          v.pc \in RestSteps /\ v = [IdleWorker EXCEPT !.pc = v.pc]
    BY <1>0 DEF RestSteps
<1>1. CASE Interface
    BY <1>1
    DEF WorkerMove, Interface, ImportDocument, ImportReadSettings, ImportMark, ImportEnqueue,
        RenameDocument, MoveDocument, Edit, OpenRead, OpenWrite, PermanentlyDelete, Configure,
        SetPaused, threadVars
<1>2. ASSUME SyncFails \/ SaveCursor \/ LoopEnds \/ CompleteJob \/ RetryJob \/ FailJobs
             \/ CrashAndRestart
      PROVE  WorkerMove
  <2>1. w' = IdleWorker \/ w' = Failing \/ w' = [IdleWorker EXCEPT !.pc = "loop"]
    BY <1>2
    DEF SyncFails, SaveCursor, LoopEnds, CompleteJob, RetryJob, FailJobs, CrashAndRestart
  <2> QED
    BY <1>a, <2>1 DEF WorkerMove
<1>3. ASSUME OpenProvider PROVE WorkerMove
  <2>1. CASE w' = Failing
    BY <1>a, <2>1 DEF WorkerMove
  <2>2. CASE w' # Failing
    <3>1. w'.pc = "list"
      BY <1>3, <2>2 DEF OpenProvider, Types, Memory
    <3> QED
      BY <1>3, <3>1 DEF WorkerMove
  <2> QED
    BY <2>1, <2>2
<1>4. ASSUME ReadDocument PROVE WorkerMove
  <2>1. CASE w' = Failing
    BY <1>a, <2>1 DEF WorkerMove
  <2>2. CASE w' # Failing
    <3>1. w'.pc = "check"
      BY <1>4, <2>2 DEF ReadDocument, Types, Memory
    <3> QED
      BY <1>4, <3>1 DEF WorkerMove
  <2> QED
    BY <2>1, <2>2
<1>5. ASSUME FailDocuments PROVE WorkerMove
  <2>1. w'.pc = "failjobs"
    BY <1>5 DEF FailDocuments, Types, Memory
  <2> QED
    BY <1>5, <2>1 DEF WorkerMove
<1>6. CASE Worker
    BY <1>6, <1>2, <1>3, <1>4, <1>5 DEF WorkerMove, Worker
<1>7. CASE Remote
    BY <1>7 DEF WorkerMove, Remote, RemoteRemove, threadVars
<1> QED
    BY <1>1, <1>2, <1>6, <1>7 DEF Next

\* Every step keeps the types of the worker's memory and what it holds where.
LEMMA WorkerKept ==
    ASSUME Types, WorkerPlaced, JobInHand, Next
    PROVE  w' \in Memory /\ WorkerPlaced'
<1> DEFINE Kept == w' \in Memory /\ WorkerPlaced'
<1> USE DEF RestSteps, SyncSteps, AfterRead, JobSteps
<1>0. w \in Memory /\ docs \in [Docs -> Document] /\ NoItem \notin Items /\ NoJob \notin JobIds
    BY NoneAssumption DEF Types, CloudTypeOK
<1>1. ASSUME w' = w PROVE Kept
    BY <1>0, <1>1 DEF WorkerPlaced
<1>2. ASSUME w'.pc \in RestSteps, w' = [IdleWorker EXCEPT !.pc = w'.pc] PROVE Kept
  <2>1. w' \in Memory /\ w'.item = NoItem
    BY <1>2, RestPlaced
  <2> QED
    BY <1>2, <2>1 DEF WorkerPlaced
<1>3. ASSUME StartSync PROVE Kept
  <2>1. [IdleWorker EXCEPT !.pc = "idle"] \in Memory
    BY RestPlaced
  <2> QED
    BY <1>3, <2>1 DEF StartSync, IdleWorker, Memory, WorkerSteps, WorkerPlaced
<1>4. ASSUME w'.pc = "list", OpenProvider PROVE Kept
  <2>1. /\ w' = [w EXCEPT !.pc = "list", !.account = setting.account,
                          !.gone = {i \in Items : items[i].state = "gone"}]
        /\ setting.account \in Accounts /\ w.pc = "open"
    <3>1. Failing.pc # "list"
      BY DEF Failing, IdleWorker
    <3> QED
      BY <1>4, <3>1 DEF OpenProvider, Available, Types, CloudTypeOK
  <2> QED
    BY <1>0, <2>1 DEF Memory, WorkerSteps, WorkerPlaced
<1>5. ASSUME ListDocuments PROVE Kept
  <2> DEFINE ds == {d \in Docs : docs[d].status = "ACTIVE" /\ docs[d].remote # NoItem}
             seen == [d \in ds |-> docs[d]]
  <2>1. w' = [w EXCEPT !.pc = "reconcile", !.todo = ds, !.seen = seen] /\ w.pc = "list"
    BY <1>5 DEF ListDocuments
  <2>2. seen \in [ds -> Document] /\ ds \in SUBSET Docs
    BY <1>0
  <2>3. seen \in UNION {[x -> Document] : x \in SUBSET Docs}
    BY <2>2
  <2>4. DOMAIN seen = ds /\ \A d \in ds : seen[d].remote # NoItem
    OBVIOUS
  <2> HIDE DEF ds, seen
  <2> QED
    BY <1>0, <2>1, <2>2, <2>3, <2>4 DEF Memory, WorkerSteps, WorkerPlaced
<1>6. ASSUME NEW d \in Docs, ReconcileItem(d) PROVE Kept
    BY ZenonT(60), <1>0, <1>6 DEF ReconcileItem, Memory, WorkerSteps, WorkerPlaced, Found
<1>7. ASSUME ReconcileWrite PROVE Kept
    BY <1>0, <1>7 DEF ReconcileWrite, Memory, WorkerSteps, WorkerPlaced
<1>8. ASSUME ListChanges PROVE Kept
  <2> DEFINE changes == IF setting.cursor = NoCursor THEN <<>>
                        ELSE SubSeq(feed[w.account], setting.cursor.at + 1, Len(feed[w.account]))
  <2>1. w.account \in Accounts /\ w.pc = "reconcile" /\ w.todo = {}
    BY <1>8 DEF ListChanges, WorkerPlaced
  <2>2. feed[w.account] \in Seq(Items) /\ Len(feed[w.account]) \in Nat
    BY <2>1 DEF Types, CloudTypeOK
  <2>3. changes \in Seq(Items)
    <3>1. CASE setting.cursor # NoCursor
      <4>1. setting.cursor.at \in Nat
        BY <3>1 DEF Types, CloudTypeOK, Cursor
      <4>2. \A i \in (setting.cursor.at + 1)..Len(feed[w.account]) :
                feed[w.account][i] \in Items
        BY <2>2, <4>1
      <4> QED
        BY <2>2, <3>1, <4>1, SubSeqProperties
    <3>2. CASE setting.cursor = NoCursor
      BY <3>2
    <3> QED
      BY <3>1, <3>2
  <2>4. [IdleWorker EXCEPT !.pc = "idle"] \in Memory
    BY RestPlaced
  <2>5. IdleWorker.seen \in UNION {[x -> Document] : x \in SUBSET Docs}
    BY <2>4 DEF Memory, IdleWorker
  <2>6. w' = [w EXCEPT !.pc = "apply", !.seen = IdleWorker.seen, !.to = Len(feed[w.account]),
                       !.changes = changes]
    BY <1>8 DEF ListChanges
  <2> HIDE DEF changes
  <2> QED
    BY <1>0, <2>1, <2>2, <2>3, <2>5, <2>6 DEF Memory, WorkerSteps, WorkerPlaced
<1>9. ASSUME ApplyChange PROVE Kept
  <2>1. w' = [w EXCEPT !.changes = Tail(w.changes)] /\ w.changes # <<>> /\ w.pc = "apply"
    BY <1>9 DEF ApplyChange
  <2>2. Tail(w.changes) \in Seq(Items)
    BY <1>0, <2>1 DEF Memory
  <2> QED
    BY <1>0, <2>1, <2>2 DEF Memory, WorkerSteps, WorkerPlaced
<1>10. ASSUME ClaimJob PROVE Kept
  <2>1. PICK j \in NextPending(jobs) :
            w' = [w EXCEPT !.pc = "read", !.phase = "job", !.job = j, !.doc = jobs[j].doc]
    BY <1>10 DEF ClaimJob
  <2>2. j \in JobIds /\ jobs[j].doc \in Docs
    BY <2>1 DEF NextPending, Waiting, Types, CloudTypeOK, SyncJob
  <2>3. w.pc = "loop" /\ w.item = NoItem
    BY <1>10 DEF ClaimJob, WorkerPlaced
  <2> QED
    BY ZenonT(60), <1>0, <2>1, <2>2, <2>3 DEF Memory, WorkerSteps, WorkerPlaced
<1>11. ASSUME w'.pc = "check", ReadDocument PROVE Kept
  <2> DEFINE seen == [d \in {w.doc} |-> docs[d]]
  <2>1. w' = [w EXCEPT !.pc = "check", !.seen = seen] /\ w.pc = "read" /\ w.doc \in Docs
    <3>1. Failing.pc # "check"
      BY DEF Failing, IdleWorker
    <3> QED
      BY <1>11, <3>1 DEF ReadDocument, WorkerPlaced
  <2>2. seen \in [{w.doc} -> Document] /\ {w.doc} \in SUBSET Docs
    BY <1>0, <2>1
  <2>3. seen \in UNION {[x -> Document] : x \in SUBSET Docs} /\ DOMAIN seen = {w.doc}
    BY <2>2
  <2> HIDE DEF seen
  <2> QED
    BY <1>0, <2>1, <2>3 DEF Memory, WorkerSteps, WorkerPlaced
<1>12. ASSUME CheckAccount PROVE Kept
    BY ZenonT(60), <1>0, <1>12
    DEF CheckAccount, Available, Memory, WorkerSteps, WorkerPlaced, Types, CloudTypeOK
<1>13. ASSUME JobFails \/ BeginTransfer \/ RecordError PROVE Kept
    BY SMTT(30), <1>0, <1>13
    DEF JobFails, BeginTransfer, RecordError, Memory, WorkerSteps, WorkerPlaced
<1>b. ASSUME w' = [w EXCEPT !.pc = "error"], w.pc \in AfterRead, w.item = NoItem PROVE Kept
    BY <1>0, <1>b DEF Memory, WorkerSteps, WorkerPlaced
<1>c. ASSUME NEW i \in Items, w' = [w EXCEPT !.pc = "record", !.item = i], w.pc \in AfterRead
      PROVE  Kept
  <2>1. w' \in Memory
    BY <1>0, <1>c DEF Memory, WorkerSteps
  <2>2. WorkerPlaced'
    BY <1>0, <1>c, <2>1 DEF Memory, WorkerPlaced
  <2> QED
    BY <2>1, <2>2
<1>14. ASSUME UploadNew PROVE Kept
  <2>1. /\ w.pc = "upload"
        /\ \/ w' = [w EXCEPT !.pc = "error"]
           \/ \E i \in Items : w' = [w EXCEPT !.pc = "record", !.item = i]
    BY <1>14 DEF UploadNew, NewItem
  <2>2. w.pc \in AfterRead /\ w.item = NoItem
    BY <2>1 DEF WorkerPlaced
  <2> HIDE DEF Kept
  <2> QED
    BY <1>b, <1>c, <2>1, <2>2
<1>15. ASSUME UploadExisting \/ Relabel PROVE Kept
  <2>1. Row.remote \in Items \cup {NoItem} /\ Row.remote # NoItem
    <3>1. w.doc \in DOMAIN w.seen /\ w.seen \in UNION {[ds -> Document] : ds \in SUBSET Docs}
      BY <1>0, <1>15 DEF UploadExisting, Relabel, WorkerPlaced, Memory
    <3>2. Row \in Document
      BY <3>1 DEF Row
    <3> QED
      BY <1>15, <3>2 DEF UploadExisting, Relabel, JobInHand, Document
  <2>2. /\ w.pc \in {"upload", "relabel"}
        /\ \/ w' = [w EXCEPT !.pc = "error"]
           \/ w' = [w EXCEPT !.pc = "record", !.item = Row.remote]
    BY <1>15 DEF UploadExisting, Relabel
  <2>3. w.pc \in AfterRead /\ w.item = NoItem
    BY <2>2 DEF WorkerPlaced
  <2> HIDE DEF Kept
  <2> QED
    BY <1>b, <1>c, <2>1, <2>2, <2>3
<1>16. ASSUME Record PROVE Kept
    BY <1>0, <1>16 DEF Record, Memory, WorkerSteps, WorkerPlaced
<1>17. ASSUME AuditFails PROVE Kept
    BY <1>0, <1>17 DEF AuditFails, Memory, WorkerSteps, WorkerPlaced
<1>18. ASSUME w'.pc = "failjobs", FailDocuments PROVE Kept
  <2>1. w' = [w EXCEPT !.pc = "failjobs"] /\ w = [IdleWorker EXCEPT !.pc = "fail"]
    BY <1>18 DEF FailDocuments, WorkerPlaced
  <2>2. w' = [IdleWorker EXCEPT !.pc = w'.pc]
    BY <2>1, <1>18 DEF IdleWorker
  <2> QED
    BY <1>2, <1>18, <2>2
<1> HIDE DEF Kept
<1>19. WorkerMove
    BY WorkerMoves
<1>20. Kept
    BY <1>19, <1>1, <1>2, <1>3, <1>4, <1>5, <1>6, <1>7, <1>8, <1>9, <1>10, <1>11, <1>12,
       <1>13, <1>14, <1>15, <1>16, <1>17, <1>18
    DEF WorkerMove
<1> QED
    BY <1>20 DEF Kept

-----------------------------------------------------------------------------
(* The documents, the items and the small variables.                       *)

\* The rows the worker carries are rows.
LEMMA RowsTyped ==
    ASSUME Types, WorkerPlaced
    PROVE  /\ \A d \in DOMAIN w.seen : d \in Docs /\ w.seen[d] \in Document
           /\ w.pc \in AfterRead => w.doc \in Docs /\ Row \in Document
           /\ w.todo \subseteq Docs
<1>1. w \in Memory
    BY DEF Types
<1>2. \A d \in DOMAIN w.seen : d \in Docs /\ w.seen[d] \in Document
    BY <1>1 DEF Memory
<1> QED
    BY <1>1, <1>2 DEF WorkerPlaced, Row, JobSteps, Memory

\* An edit writes the row, and the marks of an upload if there is nothing remote.
Edited(d, row) ==
    /\ docs[d].status = "ACTIVE"
    /\ \/ docs'[d] = row
       \/ /\ docs[d].remote = NoItem
          /\ docs'[d] = [row EXCEPT !.cloud = "PENDING_UPLOAD", !.remote = NoItem]

\* The cloud columns of a document that is there.
Columns(d, state, item) ==
    /\ docs[d].status = "ACTIVE"
    /\ docs'[d] = [docs[d] EXCEPT !.cloud = state, !.remote = item]

\* What a step may do to one document.
DocMove(d) ==
    \/ docs'[d] = docs[d]
    \/ /\ ImportDocument(d)
       /\ docs[d].status = "NONE" /\ docs'[d] = [docs[d] EXCEPT !.status = "ACTIVE"]
    \/ ImportMark(d) /\ \E state \in {"LOCAL_ONLY", "PENDING_UPLOAD"} :
                            Columns(d, state, NoItem)
    \/ \E n \in Names : RenameDocument(d, n) /\ Edited(d, [docs[d] EXCEPT !.name = n])
    \/ \E p \in Places : MoveDocument(d, p) /\ Edited(d, [docs[d] EXCEPT !.place = p])
    \/ OpenWrite /\ opened.doc = d /\ docs[d].status = "ACTIVE" /\ docs'[d] = opened.row
    \/ /\ PermanentlyDelete(d)
       /\ docs'[d] = [docs[d] EXCEPT !.status = "DELETED", !.remote = NoItem,
                                     !.cloud = "LOCAL_ONLY"]
    \/ /\ ReconcileWrite /\ d = w.doc
       /\ Columns(d, IF w.found THEN "SYNCED" ELSE "REMOTE_DELETED", w.seen[d].remote)
    \/ /\ ApplyChange
       /\ docs[d].remote = Head(w.changes)
       /\ docs'[d] = [docs[d] EXCEPT !.cloud = "REMOTE_DELETED"]
    \/ /\ BeginTransfer /\ d = w.doc
       /\ Op = "UPLOAD" /\ w'.pc = "upload" /\ Columns(d, "UPLOADING", NoItem)
    \/ Record /\ d = w.doc /\ Columns(d, "SYNCED", w.item)
    \/ RecordError /\ d = w.doc /\ Columns(d, "SYNC_ERROR", Row.remote)
    \/ /\ FailDocuments
       /\ docs[d].status = "ACTIVE" /\ docs'[d] = [docs[d] EXCEPT !.cloud = "SYNC_ERROR"]

\* Every step does one of these things to each document.
LEMMA DocMoves ==
    ASSUME Types, WorkerPlaced, Next
    PROVE  /\ docs' = [d \in Docs |-> docs'[d]]
           /\ \A d \in Docs : DocMove(d)
<1> DEFINE Moved == /\ docs' = [d \in Docs |-> docs'[d]]
                    /\ \A d \in Docs : DocMove(d)
<1>0. docs \in [Docs -> Document] /\ w \in Memory
    BY DEF Types, CloudTypeOK
<1>1. ASSUME docs' = docs PROVE Moved
    BY <1>0, <1>1 DEF DocMove
<1>2. ASSUME NEW d \in Docs, NEW row, docs' = [docs EXCEPT ![d] = row], DocMove(d)
      PROVE  Moved
  <2>1. \A e \in Docs \ {d} : docs'[e] = docs[e]
    BY <1>0, <1>2
  <2> QED
    BY ZenonT(60), <1>0, <1>2, <2>1 DEF DocMove
<1>3. ASSUME NEW d \in Docs, NEW state, NEW item, docs' = CloudState(docs, d, state, item),
             Columns(d, state, item) => DocMove(d)
      PROVE  Moved
  <2>1. CASE docs[d].status # "ACTIVE"
    BY <1>1, <1>3, <2>1 DEF CloudState
  <2>2. CASE docs[d].status = "ACTIVE"
    <3>1. docs' = [docs EXCEPT ![d] = [docs[d] EXCEPT !.cloud = state, !.remote = item]]
      BY <1>0, <1>3, <2>2 DEF CloudState
    <3>2. Columns(d, state, item)
      BY <1>0, <2>2, <3>1 DEF Columns
    <3> HIDE DEF Moved
    <3> QED
      BY <1>2, <1>3, <3>1, <3>2
  <2> QED
    BY <2>1, <2>2
<1>4. ASSUME NEW d \in Docs, ImportDocument(d) PROVE Moved
  <2>1. docs' = [docs EXCEPT ![d] = [docs[d] EXCEPT !.status = "ACTIVE"]]
        /\ docs[d].status = "NONE"
    BY <1>0, <1>4 DEF ImportDocument
  <2>2. DocMove(d)
    BY <1>0, <1>4, <2>1 DEF DocMove
  <2> HIDE DEF Moved
  <2> QED
    BY <1>2, <2>1, <2>2
<1>5. ASSUME NEW d \in Docs, ImportMark(d) PROVE Moved
  <2>1. PICK state \in {"LOCAL_ONLY", "PENDING_UPLOAD"} :
            docs' = CloudState(docs, d, state, NoItem)
    BY <1>5 DEF ImportMark
  <2>2. Columns(d, state, NoItem) => DocMove(d)
    BY <1>5, <2>1 DEF DocMove
  <2> HIDE DEF Moved
  <2> QED
    BY <1>3, <2>1, <2>2
<1>6. ASSUME NEW d \in Docs, NEW row, docs[d].status = "ACTIVE", row.status = "ACTIVE",
             row.remote = docs[d].remote, NEW op \in {"RENAME", "MOVE"},
             EnqueueEdit(d, op, [docs EXCEPT ![d] = row]), Edited(d, row) => DocMove(d)
      PROVE  Moved
  <2>1. [docs EXCEPT ![d] = row][d] = row
    BY <1>0
  <2>2. \/ docs' = [docs EXCEPT ![d] = row]
        \/ /\ docs[d].remote = NoItem
           /\ docs' = CloudState([docs EXCEPT ![d] = row], d, "PENDING_UPLOAD", NoItem)
    BY <1>6, <2>1 DEF EnqueueEdit
  <2>3. CASE docs' = [docs EXCEPT ![d] = row]
    <3>1. Edited(d, row)
      BY <1>0, <1>6, <2>3 DEF Edited
    <3> HIDE DEF Moved
    <3> QED
      BY <1>2, <1>6, <2>3, <3>1
  <2>4. CASE /\ docs[d].remote = NoItem
             /\ docs' = CloudState([docs EXCEPT ![d] = row], d, "PENDING_UPLOAD", NoItem)
    <3> DEFINE marked == [row EXCEPT !.cloud = "PENDING_UPLOAD", !.remote = NoItem]
    <3>1. docs' = [docs EXCEPT ![d] = marked]
      BY <1>0, <1>6, <2>1, <2>4 DEF CloudState
    <3>2. Edited(d, row)
      BY <1>0, <1>6, <2>4, <3>1 DEF Edited
    <3> HIDE DEF Moved, marked
    <3> QED
      BY <1>2, <1>6, <3>1, <3>2
  <2> QED
    BY <2>2, <2>3, <2>4
<1>7. ASSUME NEW d \in Docs, NEW n \in Names, RenameDocument(d, n) PROVE Moved
  <2> DEFINE row == [docs[d] EXCEPT !.name = n]
  <2>1. /\ docs[d].status = "ACTIVE" /\ row.status = "ACTIVE" /\ row.remote = docs[d].remote
        /\ [docs EXCEPT ![d].name = n] = [docs EXCEPT ![d] = row]
    BY <1>0, <1>7 DEF RenameDocument, Document
  <2>2. EnqueueEdit(d, "RENAME", [docs EXCEPT ![d] = row])
    BY <1>7, <2>1 DEF RenameDocument
  <2>3. Edited(d, row) => DocMove(d)
    BY <1>7 DEF DocMove
  <2> HIDE DEF Moved, row
  <2> QED
    BY <1>6, <2>1, <2>2, <2>3
<1>8. ASSUME NEW d \in Docs, NEW p \in Places, MoveDocument(d, p) PROVE Moved
  <2> DEFINE row == [docs[d] EXCEPT !.place = p]
  <2>1. /\ docs[d].status = "ACTIVE" /\ row.status = "ACTIVE" /\ row.remote = docs[d].remote
        /\ [docs EXCEPT ![d].place = p] = [docs EXCEPT ![d] = row]
    BY <1>0, <1>8 DEF MoveDocument, Document
  <2>2. EnqueueEdit(d, "MOVE", [docs EXCEPT ![d] = row])
    BY <1>8, <2>1 DEF MoveDocument
  <2>3. Edited(d, row) => DocMove(d)
    BY <1>8 DEF DocMove
  <2> HIDE DEF Moved, row
  <2> QED
    BY <1>6, <2>1, <2>2, <2>3
<1>9. ASSUME OpenWrite PROVE Moved
  <2>1. opened.doc \in Docs
    BY <1>9 DEF OpenWrite, Types
  <2>2. CASE docs[opened.doc].status # "ACTIVE"
    BY <1>1, <1>9, <2>2 DEF OpenWrite
  <2>3. CASE docs[opened.doc].status = "ACTIVE"
    <3>1. docs' = [docs EXCEPT ![opened.doc] = opened.row]
      BY <1>9, <2>3 DEF OpenWrite
    <3>2. DocMove(opened.doc)
      BY <1>0, <1>9, <2>1, <2>3, <3>1 DEF DocMove
    <3> HIDE DEF Moved
    <3> QED
      BY <1>2, <2>1, <3>1, <3>2
  <2> QED
    BY <2>2, <2>3
<1>10. ASSUME NEW d \in Docs, PermanentlyDelete(d) PROVE Moved
  <2> DEFINE row == [docs[d] EXCEPT !.status = "DELETED", !.remote = NoItem,
                                    !.cloud = "LOCAL_ONLY"]
  <2>1. docs' = [docs EXCEPT ![d] = row]
    BY <1>0, <1>10 DEF PermanentlyDelete
  <2>2. docs'[d] = row
    BY <1>0, <2>1
  <2>3. DocMove(d)
    BY <1>10, <2>2 DEF DocMove
  <2> HIDE DEF Moved, row
  <2> QED
    BY <1>2, <2>1, <2>3
<1>11. ASSUME ReconcileWrite \/ Record \/ RecordError PROVE Moved
  <2>1. w.doc \in Docs
    BY <1>0, <1>11
    DEF ReconcileWrite, Record, RecordError, WorkerPlaced, Memory, JobSteps, AfterRead
  <2>2. PICK state, item : /\ docs' = CloudState(docs, w.doc, state, item)
                           /\ Columns(w.doc, state, item) => DocMove(w.doc)
    BY <1>11 DEF ReconcileWrite, Record, RecordError, DocMove
  <2> HIDE DEF Moved
  <2> QED
    BY <1>3, <2>1, <2>2
<1>12. ASSUME BeginTransfer PROVE Moved
  <2>1. w.doc \in Docs
    BY <1>12 DEF BeginTransfer, WorkerPlaced, JobSteps, AfterRead
  <2>2. CASE docs' = docs
    BY <1>1, <2>2
  <2>3. CASE docs' # docs
    <3>1. /\ Op = "UPLOAD" /\ w'.pc = "upload"
          /\ docs' = CloudState(docs, w.doc, "UPLOADING", NoItem)
      BY <1>0, <1>12, <2>3 DEF BeginTransfer, Memory
    <3>2. Columns(w.doc, "UPLOADING", NoItem) => DocMove(w.doc)
      BY <1>12, <3>1 DEF DocMove
    <3> HIDE DEF Moved
    <3> QED
      BY <1>3, <2>1, <3>1, <3>2
  <2> QED
    BY <2>2, <2>3
<1>13. ASSUME ApplyChange PROVE Moved
    BY <1>0, <1>13 DEF ApplyChange, DocMove
<1>14. ASSUME FailDocuments PROVE Moved
    BY <1>0, <1>14 DEF FailDocuments, DocMove
<1> HIDE DEF Moved
<1>15. ASSUME Interface PROVE Moved
    BY <1>15, <1>1, <1>4, <1>5, <1>7, <1>8, <1>9, <1>10
    DEF Interface, ImportReadSettings, ImportEnqueue, OpenRead, Configure, SetPaused
<1>16. ASSUME Worker PROVE Moved
  <2>1. ASSUME \/ StartSync \/ SyncFails \/ OpenProvider \/ ListDocuments
               \/ \E d \in Docs : ReconcileItem(d)
               \/ ListChanges \/ SaveCursor \/ LoopEnds \/ ClaimJob \/ ReadDocument
        PROVE  docs' = docs
    BY <2>1
    DEF StartSync, SyncFails, OpenProvider, ListDocuments, ReconcileItem, ListChanges,
        SaveCursor, LoopEnds, ClaimJob, ReadDocument
  <2>2. ASSUME \/ CheckAccount \/ JobFails \/ UploadNew \/ UploadExisting
               \/ Relabel \/ AuditFails \/ CompleteJob \/ RetryJob \/ FailJobs
        PROVE  docs' = docs
    BY <2>2
    DEF CheckAccount, JobFails, UploadNew, UploadExisting, Relabel, AuditFails, CompleteJob,
        RetryJob, FailJobs
  <2> QED
    BY <1>16, <1>1, <1>11, <1>12, <1>13, <1>14, <2>1, <2>2 DEF Worker
<1>17. ASSUME Remote \/ CrashAndRestart PROVE Moved
    BY <1>17, <1>1 DEF Remote, RemoteRemove, CrashAndRestart
<1>18. Moved
    BY <1>15, <1>16, <1>17 DEF Next
<1> QED
    BY <1>18 DEF Moved

\* What a step may do to one item.
ItemMove(i) ==
    \/ items'[i] = items[i]
    \/ /\ items[i].state = "live"
       /\ \E state \in {"trashed", "gone"} : items'[i] = [items[i] EXCEPT !.state = state]
    \/ \E d \in w.todo :
           /\ ReconcileItem(d) /\ i = w.seen[d].remote
           /\ items'[i] = [items[i] EXCEPT !.name = w.seen[d].name, !.place = w.seen[d].place]
    \/ /\ UploadNew
       /\ items[i].state = "none"
       /\ items'[i] = [state |-> "live", account |-> w.account, doc |-> w.doc,
                       name |-> Row.name, place |-> Row.place]
       /\ (w'.pc = "record" /\ w'.item = i) \/ (w'.pc = "error" /\ i \in strays')
    \/ /\ UploadExisting /\ i = Row.remote
       /\ items'[i] = [items[i] EXCEPT !.name = Row.name]
    \/ /\ Relabel /\ i = Row.remote /\ Op = "RENAME"
       /\ items'[i] = [items[i] EXCEPT !.name = Row.name]
    \/ /\ Relabel /\ i = Row.remote /\ Op # "RENAME"
       /\ items'[i] = [items[i] EXCEPT !.place = Row.place]

\* Every step does one of these things to each item.
LEMMA ItemMoves ==
    ASSUME Types, WorkerPlaced, Next
    PROVE  /\ items' = [i \in Items |-> items'[i]]
           /\ \A i \in Items : ItemMove(i)
<1> DEFINE Moved == /\ items' = [i \in Items |-> items'[i]]
                    /\ \A i \in Items : ItemMove(i)
<1>0. items \in [Items -> Item] /\ w \in Memory
    BY DEF Types, CloudTypeOK
<1>1. ASSUME items' = items PROVE Moved
    BY <1>0, <1>1 DEF ItemMove
<1>2. ASSUME NEW i \in Items, NEW row, items' = [items EXCEPT ![i] = row], ItemMove(i)
      PROVE  Moved
  <2>1. \A k \in Items \ {i} : items'[k] = items[k]
    BY <1>0, <1>2
  <2> QED
    BY ZenonT(60), <1>0, <1>2, <2>1 DEF ItemMove
<1>3. ASSUME NEW i \in Items, NEW state \in {"trashed", "gone"}, RemoteRemove(i, state)
      PROVE  Moved
  <2>1. items' = [items EXCEPT ![i] = [items[i] EXCEPT !.state = state]]
        /\ items[i].state = "live"
    BY <1>0, <1>3 DEF RemoteRemove
  <2>2. ItemMove(i)
    BY <1>0, <2>1 DEF ItemMove
  <2> HIDE DEF Moved
  <2> QED
    BY <1>2, <2>1, <2>2
<1>4. ASSUME NEW d \in Docs, ReconcileItem(d) PROVE Moved
  <2> DEFINE i == w.seen[d].remote
  <2>1. CASE items' = items
    BY <1>1, <2>1
  <2>2. CASE items' # items
    <3>1. i \in Items /\ items' = Relabelled(i, w.seen[d]) /\ d \in w.todo
      BY <1>4, <2>2 DEF ReconcileItem, Found, Ids
    <3>2. items' = [items EXCEPT ![i] = [items[i] EXCEPT !.name = w.seen[d].name,
                                                         !.place = w.seen[d].place]]
      BY <1>0, <3>1 DEF Relabelled
    <3>3. ItemMove(i)
      BY <1>0, <1>4, <3>1, <3>2 DEF ItemMove
    <3> HIDE DEF Moved, i
    <3> QED
      BY <1>2, <3>1, <3>2, <3>3
  <2> QED
    BY <2>1, <2>2
<1>5. ASSUME UploadNew PROVE Moved
  <2> DEFINE row == [state |-> "live", account |-> w.account, doc |-> w.doc,
                     name |-> Row.name, place |-> Row.place]
  <2>1. PICK i \in NewItem, answered \in BOOLEAN :
            /\ items' = [items EXCEPT ![i] = row]
            /\ IF answered
               THEN /\ w' = [w EXCEPT !.pc = "record", !.item = i]
                    /\ UNCHANGED strays
               ELSE /\ w' = [w EXCEPT !.pc = "error"]
                    /\ strays' = strays \cup {i}
    BY <1>5 DEF UploadNew
  <2>2. i \in Items /\ items[i].state = "none"
    BY DEF NewItem
  <2>3. (w'.pc = "record" /\ w'.item = i) \/ (w'.pc = "error" /\ i \in strays')
    <3>1. \/ w' = [w EXCEPT !.pc = "record", !.item = i]
          \/ w' = [w EXCEPT !.pc = "error"] /\ strays' = strays \cup {i}
      BY <2>1, Zenon
    <3>2. ASSUME w' = [w EXCEPT !.pc = "record", !.item = i]
          PROVE  w'.pc = "record" /\ w'.item = i
      BY <1>0, <3>2 DEF Memory
    <3>3. ASSUME w' = [w EXCEPT !.pc = "error"], strays' = strays \cup {i}
          PROVE  w'.pc = "error" /\ i \in strays'
      BY <1>0, <3>3 DEF Memory
    <3> QED
      BY <3>1, <3>2, <3>3
  <2>4. items'[i] = row
    BY <1>0, <2>1, <2>2
  <2>5. ItemMove(i)
    BY <1>5, <2>2, <2>3, <2>4 DEF ItemMove
  <2> HIDE DEF Moved, row
  <2> QED
    BY <1>2, <2>1, <2>2, <2>5
<1>6. ASSUME UploadExisting PROVE Moved
  <2>1. CASE items' = items
    BY <1>1, <2>1
  <2>2. CASE items' # items
    <3>1. /\ Row.remote \in Items
          /\ items' = [items EXCEPT ![Row.remote] = [items[Row.remote] EXCEPT !.name = Row.name]]
      BY <1>0, <1>6, <2>2 DEF UploadExisting, Found, Ids
    <3>2. ItemMove(Row.remote)
      BY <1>0, <1>6, <3>1 DEF ItemMove
    <3> HIDE DEF Moved
    <3> QED
      BY <1>2, <3>1, <3>2
  <2> QED
    BY <2>1, <2>2
<1>7. ASSUME Relabel PROVE Moved
  <2>1. CASE items' = items
    BY <1>1, <2>1
  <2>2. CASE items' # items /\ Op = "RENAME"
    <3>1. /\ Row.remote \in Items
          /\ items' = [items EXCEPT ![Row.remote] = [items[Row.remote] EXCEPT !.name = Row.name]]
      BY <1>0, <1>7, <2>2 DEF Relabel, Found, Ids
    <3>2. ItemMove(Row.remote)
      BY <1>0, <1>7, <2>2, <3>1 DEF ItemMove
    <3> HIDE DEF Moved
    <3> QED
      BY <1>2, <3>1, <3>2
  <2>3. CASE items' # items /\ Op # "RENAME"
    <3>1. /\ Row.remote \in Items
          /\ items' = [items EXCEPT ![Row.remote] =
                           [items[Row.remote] EXCEPT !.place = Row.place]]
      BY <1>0, <1>7, <2>3 DEF Relabel, Found, Ids
    <3>2. ItemMove(Row.remote)
      BY <1>0, <1>7, <2>3, <3>1 DEF ItemMove
    <3> HIDE DEF Moved
    <3> QED
      BY <1>2, <3>1, <3>2
  <2> QED
    BY <2>1, <2>2, <2>3
<1> HIDE DEF Moved
<1>8. ASSUME Interface PROVE Moved
    BY <1>8, <1>1
    DEF Interface, ImportDocument, ImportReadSettings, ImportMark, ImportEnqueue, Edit,
        RenameDocument, MoveDocument, OpenRead, OpenWrite, PermanentlyDelete, Configure,
        SetPaused
<1>9. ASSUME Worker PROVE Moved
  <2>1. ASSUME \/ StartSync \/ SyncFails \/ OpenProvider \/ ListDocuments
               \/ ReconcileWrite \/ ListChanges \/ ApplyChange \/ SaveCursor \/ LoopEnds
               \/ ClaimJob \/ ReadDocument
        PROVE  items' = items
    BY <2>1
    DEF StartSync, SyncFails, OpenProvider, ListDocuments, ReconcileWrite, ListChanges,
        ApplyChange, SaveCursor, LoopEnds, ClaimJob, ReadDocument
  <2>2. ASSUME \/ CheckAccount \/ JobFails \/ BeginTransfer \/ Record \/ RecordError
               \/ AuditFails \/ CompleteJob \/ RetryJob \/ FailDocuments \/ FailJobs
        PROVE  items' = items
    BY <2>2
    DEF CheckAccount, JobFails, BeginTransfer, Record, RecordError, AuditFails, CompleteJob,
        RetryJob, FailDocuments, FailJobs
  <2> QED
    BY <1>9, <1>1, <1>4, <1>5, <1>6, <1>7, <2>1, <2>2 DEF Worker
<1>10. ASSUME Remote \/ CrashAndRestart PROVE Moved
    BY <1>10, <1>1, <1>3 DEF Remote, CrashAndRestart
<1>11. Moved
    BY <1>8, <1>9, <1>10 DEF Next
<1> QED
    BY <1>11 DEF Moved

\* What a step may do to the rest: no set of a history but `missed` and the
\* crash's own ever loses a member.
RestMove ==
    /\ strays \subseteq strays' /\ strays' \subseteq Items
    /\ overtaken \subseteq overtaken' /\ overtaken' \subseteq Docs
    /\ missed' \subseteq Docs
    /\ missed \ missed' # {} => ReconcileWrite /\ missed' = missed \ {w.doc}
    /\ \/ orphans' = orphans
       \/ FailJobs /\ orphans' = {}
       \/ CrashAndRestart /\ orphans' = {j \in JobIds : jobs[j].status = "RUNNING"}
    /\ \/ opened' = opened
       \/ opened' = [doc |-> NoDoc]
       \/ \E d \in Docs : /\ docs[d].status = "ACTIVE"
                          /\ opened' = [doc |-> d, row |-> docs[d]]
    /\ \/ count'.crashes = count.crashes
       \/ CrashAndRestart /\ count'.crashes = count.crashes + 1
    /\ count' \in [edits : Nat, switches : Nat, removals : Nat, crashes : Nat]
    /\ setting' \in [account : Accounts \cup {NoAccount}, paused : BOOLEAN, cursor : Cursor]
    /\ feed' \in [Accounts -> Seq(Items)]
    /\ importer' \in [Docs -> [pc : {"idle", "saved", "mark", "enqueue"},
                               provider : Providers \cup {NoProvider}]]
    /\ \A d \in Docs : importer'[d].pc = "enqueue" => importer'[d].provider # NoProvider

\* Every step does this to them.
LEMMA RestMoves ==
    ASSUME Types, WorkerPlaced, JobInHand, Next
    PROVE  RestMove
<1>0. /\ w \in Memory /\ docs \in [Docs -> Document] /\ NoItem \notin Items
      /\ count \in [edits : Nat, switches : Nat, removals : Nat, crashes : Nat]
      /\ strays \subseteq Items /\ missed \subseteq Docs /\ overtaken \subseteq Docs
      /\ setting \in [account : Accounts \cup {NoAccount}, paused : BOOLEAN, cursor : Cursor]
      /\ feed \in [Accounts -> Seq(Items)]
      /\ importer \in [Docs -> [pc : {"idle", "saved", "mark", "enqueue"},
                                provider : Providers \cup {NoProvider}]]
      /\ \A d \in Docs : importer[d].pc = "enqueue" => importer[d].provider # NoProvider
      /\ NoProvider \notin Providers
    BY NoneAssumption, NullAssumption DEF Types, CloudTypeOK
<1>1. /\ w.pc \in AfterRead => w.doc \in Docs /\ Row.remote \in Items \cup {NoItem}
      /\ w.pc = "confirm" => w.doc \in Docs
      /\ w.item \in Items \cup {NoItem}
    BY <1>0, RowsTyped DEF Document, WorkerPlaced, Memory
<1>2. \A d \in Docs : docs[d].remote \in Items \cup {NoItem} /\ Forgotten(d) \subseteq Items
    BY <1>0 DEF Document, Forgotten
<1>3. InHand \subseteq Items
    BY <1>1 DEF InHand, AfterRead
<1>4. ASSUME UNCHANGED <<strays, overtaken, missed, orphans, opened, count, setting, feed,
                         importer>>
      PROVE  RestMove
    BY <1>0, <1>4 DEF RestMove
<1>d. ASSUME \/ count' = count
             \/ count' = [count EXCEPT !.edits = count.edits + 1]
             \/ count' = [count EXCEPT !.switches = count.switches + 1]
             \/ count' = [count EXCEPT !.removals = count.removals + 1]
      PROVE  /\ count'.crashes = count.crashes
             /\ count' \in [edits : Nat, switches : Nat, removals : Nat, crashes : Nat]
  <2>1. /\ count.edits + 1 \in Nat /\ count.switches + 1 \in Nat
        /\ count.removals + 1 \in Nat
    BY <1>0
  <2> QED
    BY <1>0, <1>d, <2>1
<1>5. ASSUME NEW d \in Docs,
             \/ ImportDocument(d) \/ ImportReadSettings(d) \/ ImportMark(d) \/ ImportEnqueue(d)
      PROVE  RestMove
  <2>1. /\ UNCHANGED <<missed, orphans, opened, count, setting, feed>>
        /\ strays \subseteq strays' /\ strays' \subseteq Items
        /\ overtaken \subseteq overtaken' /\ overtaken' \subseteq Docs
    BY <1>0, <1>2, <1>5
    DEF ImportDocument, ImportReadSettings, ImportMark, ImportEnqueue, historyVars
  <2>2. Available => SyncMode \in Providers
    BY <1>0, ProviderAssumption DEF Available, SyncMode
  <2>3. NotImporting \in [pc : {"idle", "saved", "mark", "enqueue"},
                          provider : Providers \cup {NoProvider}]
        /\ NotImporting.pc = "idle"
    BY DEF NotImporting
  <2>4. \/ importer' = [importer EXCEPT ![d].pc = "saved"]
        \/ importer' = [importer EXCEPT ![d] = NotImporting]
        \/ \E p \in Providers \cup {NoProvider} :
               importer' = [importer EXCEPT ![d] = [pc |-> "mark", provider |-> p]]
        \/ /\ importer[d].provider # NoProvider
           /\ importer' = [importer EXCEPT ![d] = [@ EXCEPT !.pc = "enqueue"]]
    <3>1. ASSUME ImportReadSettings(d)
          PROVE  \/ importer' = [importer EXCEPT ![d] = NotImporting]
                 \/ \E p \in Providers \cup {NoProvider} :
                        importer' = [importer EXCEPT ![d] = [pc |-> "mark", provider |-> p]]
      <4>1. (IF Available THEN SyncMode ELSE NoProvider) \in Providers \cup {NoProvider}
        BY <2>2
      <4> QED
        BY <3>1, <4>1 DEF ImportReadSettings
    <3>2. ASSUME ImportMark(d)
          PROVE  \/ importer' = [importer EXCEPT ![d] = NotImporting]
                 \/ /\ importer[d].provider # NoProvider
                    /\ importer' = [importer EXCEPT ![d] = [@ EXCEPT !.pc = "enqueue"]]
      BY <3>2 DEF ImportMark
    <3> QED
      BY <1>5, <3>1, <3>2 DEF ImportDocument, ImportEnqueue
  <2>5. \E at \in [pc : {"idle", "saved", "mark", "enqueue"},
                  provider : Providers \cup {NoProvider}] :
            /\ importer' = [importer EXCEPT ![d] = at]
            /\ at.pc = "enqueue" => at.provider # NoProvider
    <3>1. CASE \/ importer' = [importer EXCEPT ![d].pc = "saved"]
               \/ /\ importer[d].provider # NoProvider
                  /\ importer' = [importer EXCEPT ![d] = [@ EXCEPT !.pc = "enqueue"]]
      <4>1. PICK pc \in {"saved", "enqueue"} :
                /\ importer' = [importer EXCEPT ![d] = [importer[d] EXCEPT !.pc = pc]]
                /\ pc = "enqueue" => importer[d].provider # NoProvider
        BY <1>0, <3>1
      <4> DEFINE at == [importer[d] EXCEPT !.pc = pc]
      <4>2. at \in [pc : {"idle", "saved", "mark", "enqueue"},
                    provider : Providers \cup {NoProvider}]
            /\ at.pc = pc /\ at.provider = importer[d].provider
        BY <1>0
      <4> HIDE DEF at
      <4> QED
        BY <4>1, <4>2 DEF at
    <3>2. CASE importer' = [importer EXCEPT ![d] = NotImporting]
      BY <2>3, <3>2
    <3>3. CASE \E p \in Providers \cup {NoProvider} :
                   importer' = [importer EXCEPT ![d] = [pc |-> "mark", provider |-> p]]
      <4>1. PICK p \in Providers \cup {NoProvider} :
                importer' = [importer EXCEPT ![d] = [pc |-> "mark", provider |-> p]]
        BY <3>3
      <4> DEFINE at == [pc |-> "mark", provider |-> p]
      <4>2. /\ at \in [pc : {"idle", "saved", "mark", "enqueue"},
                       provider : Providers \cup {NoProvider}]
            /\ at.pc = "mark"
        OBVIOUS
      <4> HIDE DEF at
      <4> QED
        BY <4>1, <4>2 DEF at
    <3> QED
      BY <2>4, <3>1, <3>2, <3>3
  <2>6. /\ importer' \in [Docs -> [pc : {"idle", "saved", "mark", "enqueue"},
                                   provider : Providers \cup {NoProvider}]]
        /\ \A e \in Docs : importer'[e].pc = "enqueue" => importer'[e].provider # NoProvider
    BY <1>0, <2>5
  <2> QED
    BY <1>0, <2>1, <2>6 DEF RestMove
<1>6. ASSUME NEW d \in Docs, NEW op, NEW edited, EnqueueEdit(d, op, edited), Edit
      PROVE  RestMove
  <2>1. /\ UNCHANGED <<strays, overtaken, orphans, opened, setting, feed, importer>>
        /\ missed \subseteq missed' /\ missed' \subseteq Docs
        /\ count' = [count EXCEPT !.edits = count.edits + 1]
    BY <1>0, <1>6 DEF EnqueueEdit, Edit
  <2> QED
    BY <1>0, <1>d, <2>1 DEF RestMove
<1>7. ASSUME NEW d \in Docs, OpenRead(d) \/ PermanentlyDelete(d) PROVE RestMove
  <2>1. /\ UNCHANGED <<strays, overtaken, missed, orphans, setting, feed, importer>>
        /\ \/ opened' = opened
           \/ /\ docs[d].status = "ACTIVE"
              /\ opened' = [doc |-> d, row |-> docs[d]]
        /\ count' = count \/ count' = [count EXCEPT !.edits = count.edits + 1]
    BY <1>7 DEF OpenRead, PermanentlyDelete, historyVars
  <2> QED
    BY <1>0, <1>d, <2>1 DEF RestMove
<1>8. ASSUME OpenWrite PROVE RestMove
  <2>1. opened.doc \in Docs
    BY <1>8 DEF OpenWrite, Types
  <2>2. Forgotten(opened.doc) \subseteq Items
    BY <1>2, <2>1
  <2> QED
    BY <1>0, <1>8, <2>1, <2>2 DEF OpenWrite, RestMove
<1>9. ASSUME NEW a \in Accounts \cup {NoAccount}, NEW b \in BOOLEAN, Configure(a) \/ SetPaused(b)
      PROVE  RestMove
  <2>1. /\ UNCHANGED <<strays, overtaken, missed, orphans, opened, feed, importer>>
        /\ count' = [count EXCEPT !.switches = count.switches + 1]
    BY <1>9 DEF Configure, SetPaused, threadVars, historyVars
  <2>2. setting' \in [account : Accounts \cup {NoAccount}, paused : BOOLEAN, cursor : Cursor]
    <3>1. CASE SetPaused(b)
      BY <1>0, <3>1 DEF SetPaused
    <3>2. CASE Configure(a)
      <4>1. PICK cursor \in Cursor : setting' = [account |-> a, paused |-> FALSE,
                                                cursor |-> cursor]
        <5>1. setting.cursor \in Cursor /\ NoCursor \in Cursor
          BY <1>0 DEF Cursor
        <5> QED
          BY <3>2, <5>1 DEF Configure
      <4> QED
        BY <4>1
    <3> QED
      BY <1>9, <3>1, <3>2
  <2> QED
    BY <1>0, <1>d, <2>1, <2>2 DEF RestMove
<1>10. ASSUME Remote PROVE RestMove
  <2>1. PICK i \in Items, state \in {"trashed", "gone"} : RemoteRemove(i, state)
    BY <1>10 DEF Remote
  <2>2. feed' \in [Accounts -> Seq(Items)]
    <3>1. \A s \in Seq(Items) : Append(s, i) \in Seq(Items)
      OBVIOUS
    <3> QED
      BY <1>0, <2>1, <3>1 DEF RemoteRemove
  <2>3. /\ UNCHANGED <<strays, overtaken, missed, orphans, opened, setting, importer>>
        /\ count' = [count EXCEPT !.removals = count.removals + 1]
    BY <2>1 DEF RemoteRemove, threadVars, historyVars
  <2> QED
    BY <1>0, <1>d, <2>2, <2>3 DEF RestMove
<1>11. ASSUME CrashAndRestart PROVE RestMove
  <2>1. count' = [count EXCEPT !.crashes = count.crashes + 1]
    BY <1>11 DEF CrashAndRestart
  <2>2. importer' \in [Docs -> [pc : {"idle", "saved", "mark", "enqueue"},
                                provider : Providers \cup {NoProvider}]]
        /\ \A d \in Docs : importer'[d].pc = "idle"
    BY <1>11 DEF CrashAndRestart, NotImporting
  <2>3. count'.crashes = count.crashes + 1
        /\ count' \in [edits : Nat, switches : Nat, removals : Nat, crashes : Nat]
    BY <1>0, <2>1
  <2> QED
    BY <1>0, <1>3, <1>11, <2>2, <2>3 DEF CrashAndRestart, RestMove
<1>12. ASSUME ReconcileWrite PROVE RestMove
    BY <1>0, <1>1, <1>12 DEF ReconcileWrite, WorkerOnly, RestMove
<1>13. ASSUME SaveCursor PROVE RestMove
  <2>1. w.account \in Accounts /\ w.to \in Nat
    BY <1>0, <1>13 DEF SaveCursor, WorkerPlaced, SyncSteps, Memory
  <2>2. setting' \in [account : Accounts \cup {NoAccount}, paused : BOOLEAN, cursor : Cursor]
    BY <1>0, <1>13, <2>1 DEF SaveCursor, Cursor
  <2>3. UNCHANGED <<strays, overtaken, missed, orphans, opened, count, feed, importer>>
    BY <1>13 DEF SaveCursor, WorkerOnly, historyVars
  <2> QED
    BY <1>0, <2>2, <2>3 DEF RestMove
<1>14. ASSUME UploadNew \/ AuditFails PROVE RestMove
  <2>1. /\ UNCHANGED <<overtaken, missed, orphans, opened, count, setting, feed, importer>>
        /\ strays \subseteq strays'
    BY <1>14 DEF UploadNew, AuditFails, WorkerOnly
  <2>2. strays' \subseteq Items
    <3>1. CASE UploadNew
      BY <1>0, <3>1 DEF UploadNew, NewItem
    <3>2. CASE AuditFails
      BY <1>0, <1>1, <3>2 DEF AuditFails, WorkerPlaced
    <3> QED
      BY <1>14, <3>1, <3>2
  <2> QED
    BY <1>0, <2>1, <2>2 DEF RestMove
<1>15. ASSUME RetryJob PROVE RestMove
  <2>1. w.doc \in Docs
    BY <1>1, <1>15 DEF RetryJob, AfterRead
  <2> QED
    BY <1>0, <1>15, <2>1 DEF RetryJob, WorkerOnly, RestMove
<1>16. ASSUME FailJobs PROVE RestMove
    BY <1>0, <1>16 DEF FailJobs, WorkerOnly, RestMove
<1>17. ASSUME \/ StartSync \/ SyncFails \/ OpenProvider \/ ListDocuments
              \/ \E d \in Docs : ReconcileItem(d)
              \/ ListChanges \/ ApplyChange \/ LoopEnds \/ ClaimJob \/ ReadDocument
       PROVE  RestMove
    BY <1>4, <1>17
    DEF StartSync, SyncFails, OpenProvider, ListDocuments, ReconcileItem, ListChanges,
        ApplyChange, LoopEnds, ClaimJob, ReadDocument, historyVars, WorkerOnly
<1>18. ASSUME \/ CheckAccount \/ JobFails \/ BeginTransfer \/ UploadExisting \/ Relabel
              \/ Record \/ RecordError \/ CompleteJob \/ FailDocuments
       PROVE  RestMove
    BY <1>4, <1>18
    DEF CheckAccount, JobFails, BeginTransfer, UploadExisting, Relabel, Record, RecordError,
        CompleteJob, FailDocuments, historyVars, WorkerOnly
<1>19. ASSUME Interface PROVE RestMove
  <2>1. ASSUME NEW d \in Docs, NEW n \in Names, RenameDocument(d, n) PROVE RestMove
    BY <1>6, <2>1 DEF RenameDocument
  <2>2. ASSUME NEW d \in Docs, NEW p \in Places, MoveDocument(d, p) PROVE RestMove
    BY <1>6, <2>2 DEF MoveDocument
  <2> QED
    BY <1>19, <1>5, <1>7, <1>8, <1>9, <2>1, <2>2 DEF Interface
<1>20. ASSUME Worker PROVE RestMove
    BY <1>20, <1>12, <1>13, <1>14, <1>15, <1>16, <1>17, <1>18 DEF Worker
<1> QED
    BY <1>10, <1>11, <1>19, <1>20 DEF Next

\* Documents and items keep their types.
LEMMA RowsKept ==
    ASSUME Types, WorkerPlaced, Next
    PROVE  docs' \in [Docs -> Document] /\ items' \in [Items -> Item]
<1>0. /\ docs \in [Docs -> Document] /\ items \in [Items -> Item] /\ w \in Memory
    BY DEF Types, CloudTypeOK
<1>1. ASSUME NEW d \in Docs PROVE docs'[d] \in Document
  <2>1. docs[d] \in Document /\ DocMove(d)
    BY <1>0, DocMoves
  <2>2. ASSUME NEW row \in Document, Edited(d, row) PROVE docs'[d] \in Document
    BY <2>2 DEF Edited, Document, CloudStates
  <2>3. ASSUME NEW state \in CloudStates, NEW item \in Items \cup {NoItem},
               Columns(d, state, item)
        PROVE  docs'[d] \in Document
    BY <2>1, <2>3 DEF Columns, Document
  <2>4. ASSUME NEW n \in Names, Edited(d, [docs[d] EXCEPT !.name = n])
        PROVE  docs'[d] \in Document
    <3>1. [docs[d] EXCEPT !.name = n] \in Document
      BY <2>1 DEF Document
    <3> QED
      BY <2>2, <2>4, <3>1
  <2>5. ASSUME NEW p \in Places, Edited(d, [docs[d] EXCEPT !.place = p])
        PROVE  docs'[d] \in Document
    <3>1. [docs[d] EXCEPT !.place = p] \in Document
      BY <2>1 DEF Document
    <3> QED
      BY <2>2, <2>5, <3>1
  <2>6. /\ {"LOCAL_ONLY", "PENDING_UPLOAD", "SYNCED", "REMOTE_DELETED", "UPLOADING",
            "SYNC_ERROR"} \subseteq CloudStates
        /\ NoItem \in Items \cup {NoItem} /\ w.item \in Items \cup {NoItem}
    BY <1>0 DEF CloudStates, Memory
  <2>7. ReconcileWrite => w.doc \in DOMAIN w.seen
    BY DEF ReconcileWrite, WorkerPlaced
  <2>8. ReconcileWrite /\ d = w.doc => w.seen[d].remote \in Items \cup {NoItem}
    BY <2>7, RowsTyped DEF Document
  <2>9. RecordError => Row.remote \in Items \cup {NoItem}
    BY RowsTyped DEF RecordError, AfterRead, Document
  <2>10. OpenWrite /\ opened.doc = d => opened.row \in Document
    BY DEF OpenWrite, Types
  <2>11. \A status \in {"ACTIVE", "DELETED"}, state \in CloudStates :
             /\ [docs[d] EXCEPT !.status = status] \in Document
             /\ [docs[d] EXCEPT !.cloud = state] \in Document
             /\ [docs[d] EXCEPT !.status = status, !.remote = NoItem, !.cloud = state]
                    \in Document
    BY <2>1 DEF Document
  <2>12. CASE \E state \in CloudStates, item \in Items \cup {NoItem} : Columns(d, state, item)
    BY <2>3, <2>12
  <2>13. CASE ReconcileWrite /\ d = w.doc
              /\ Columns(d, IF w.found THEN "SYNCED" ELSE "REMOTE_DELETED", w.seen[d].remote)
    <3>1. (IF w.found THEN "SYNCED" ELSE "REMOTE_DELETED") \in CloudStates
      BY <2>6
    <3> QED
      BY <2>3, <2>8, <2>13, <3>1
  <2> QED
    BY ZenonT(60), <2>1, <2>4, <2>5, <2>6, <2>9, <2>10, <2>11, <2>12, <2>13 DEF DocMove
<1>2. ASSUME NEW i \in Items PROVE items'[i] \in Item
  <2>1. items[i] \in Item /\ ItemMove(i)
    BY <1>0, ItemMoves
  <2>2. /\ \A state \in {"trashed", "gone"} : [items[i] EXCEPT !.state = state] \in Item
        /\ \A name \in Names : [items[i] EXCEPT !.name = name] \in Item
        /\ \A place \in Places : [items[i] EXCEPT !.place = place] \in Item
        /\ \A name \in Names, place \in Places :
               [items[i] EXCEPT !.name = name, !.place = place] \in Item
    BY <2>1 DEF Item
  <2>3. \A d \in w.todo : ReconcileItem(d) => w.seen[d].name \in Names /\ w.seen[d].place \in Places
    BY RowsTyped DEF ReconcileItem, WorkerPlaced, Document
  <2>4. UploadNew \/ UploadExisting \/ Relabel =>
            w.doc \in Docs /\ Row.name \in Names /\ Row.place \in Places
    BY RowsTyped DEF UploadNew, UploadExisting, Relabel, AfterRead, Document
  <2>5. UploadNew => [state |-> "live", account |-> w.account, doc |-> w.doc,
                      name |-> Row.name, place |-> Row.place] \in Item
    BY <1>0, <2>4 DEF Item, Memory
  <2>6. \/ items'[i] = items[i]
        \/ \E state \in {"trashed", "gone"} : items'[i] = [items[i] EXCEPT !.state = state]
        \/ \E name \in Names, place \in Places :
               \/ items'[i] = [items[i] EXCEPT !.name = name]
               \/ items'[i] = [items[i] EXCEPT !.place = place]
               \/ items'[i] = [items[i] EXCEPT !.name = name, !.place = place]
        \/ items'[i] \in Item
    <3>1. \A d \in w.todo : ReconcileItem(d) /\ items'[i] =
              [items[i] EXCEPT !.name = w.seen[d].name, !.place = w.seen[d].place] =>
              \E name \in Names, place \in Places :
                  items'[i] = [items[i] EXCEPT !.name = name, !.place = place]
      BY <2>3
    <3>2. \E name \in Names, place \in Places : TRUE
      BY NonemptyAssumption
    <3> QED
      BY <2>1, <2>4, <2>5, <3>1, <3>2 DEF ItemMove
  <2> QED
    BY <2>1, <2>2, <2>6
<1> QED
  <2>1. docs' = [d \in Docs |-> docs'[d]] /\ items' = [i \in Items |-> items'[i]]
    BY DocMoves, ItemMoves
  <2> QED
    BY <1>1, <1>2, <2>1

\* Every step keeps all the types.
LEMMA TypesKept ==
    ASSUME Types, WorkerPlaced, JobInHand, Next
    PROVE  Types'
<1>1. /\ docs' \in [Docs -> Document] /\ items' \in [Items -> Item]
      /\ JobTypes' /\ w' \in Memory /\ RestMove
    BY RowsKept, JobsKept, WorkerKept, RestMoves
<1>2. orphans' \subseteq JobIds
    BY <1>1 DEF RestMove, Types, CloudTypeOK
<1>3. /\ opened' \in [doc : {NoDoc}] \cup [doc : Docs, row : Document]
      /\ opened'.doc # NoDoc => opened'.row.status = "ACTIVE"
  <2>1. docs \in [Docs -> Document]
    BY DEF Types, CloudTypeOK
  <2> QED
    BY <1>1, <2>1 DEF RestMove, Types
<1> QED
    BY <1>1, <1>2, <1>3 DEF Types, CloudTypeOK, JobTypes, Memory, RestMove

-----------------------------------------------------------------------------
(* The queue.                                                              *)

\* Between two steps with the same job in hand, the worker's job, document and
\* copy of the row stay, and the table of jobs stays when the worker moves.
LEMMA HandStays ==
    ASSUME Types, WorkerPlaced, Next, w'.pc \in JobSteps, w' # w
    PROVE  /\ jobs' = jobs \/ ClaimJob
           /\ ~ClaimJob => w.pc \in JobSteps /\ w'.job = w.job /\ w'.doc = w.doc
           /\ ~ClaimJob /\ w'.pc # "check" => w.pc \in AfterRead /\ w'.seen = w.seen
           /\ \/ ClaimJob
              \/ w'.pc = "check" /\ ReadDocument
              \/ CheckAccount \/ JobFails \/ BeginTransfer \/ UploadNew \/ UploadExisting
              \/ Relabel \/ Record \/ AuditFails \/ RecordError
<1> USE DEF RestSteps, SyncSteps, AfterRead, JobSteps
<1>0. WorkerMove /\ w \in Memory
    BY WorkerMoves DEF Types
<1>1. ~(w'.pc \in RestSteps) /\ w'.pc \notin SyncSteps
    OBVIOUS
<1>2. ASSUME StartSync \/ ListDocuments \/ (\E d \in Docs : ReconcileItem(d))
             \/ ReconcileWrite \/ ListChanges \/ ApplyChange \/ OpenProvider
      PROVE  w'.pc \in SyncSteps \cup RestSteps
    BY <1>0, <1>2
    DEF StartSync, ListDocuments, ReconcileItem, ReconcileWrite, ListChanges, ApplyChange,
        OpenProvider, Memory, Failing, IdleWorker
<1>3. \/ ClaimJob
      \/ w'.pc = "check" /\ ReadDocument
      \/ CheckAccount \/ JobFails \/ BeginTransfer \/ UploadNew \/ UploadExisting
      \/ Relabel \/ Record \/ AuditFails \/ RecordError
    BY <1>0, <1>1, <1>2 DEF WorkerMove
<1>4. CASE ClaimJob
    BY <1>3, <1>4
<1>5. CASE w'.pc = "check" /\ ReadDocument
  <2>1. Failing.pc # "check"
    BY DEF Failing, IdleWorker
  <2> QED
    BY <1>0, <1>3, <1>5, <2>1 DEF ReadDocument, Memory
<1>6. CASE CheckAccount \/ JobFails \/ BeginTransfer \/ Record \/ AuditFails \/ RecordError
  <2>1. /\ jobs' = jobs /\ w.pc \in AfterRead /\ w'.job = w.job /\ w'.doc = w.doc
        /\ w'.seen = w.seen
    BY ZenonT(60), <1>0, <1>6
    DEF CheckAccount, JobFails, BeginTransfer, Record, AuditFails, RecordError, Memory
  <2> QED
    BY <1>3, <2>1
<1>7. CASE UploadNew \/ UploadExisting \/ Relabel
  <2>1. /\ jobs' = jobs /\ w.pc \in {"upload", "relabel"}
        /\ \/ w' = [w EXCEPT !.pc = "error"]
           \/ \E i \in Items : w' = [w EXCEPT !.pc = "record", !.item = i]
           \/ w' = [w EXCEPT !.pc = "record", !.item = Row.remote]
    BY <1>7 DEF UploadNew, NewItem, UploadExisting, Relabel
  <2>2. w'.job = w.job /\ w'.doc = w.doc /\ w'.seen = w.seen
    BY <1>0, <2>1 DEF Memory
  <2> QED
    BY <1>3, <2>1, <2>2
<1> QED
    BY <1>3, <1>4, <1>5, <1>6, <1>7

\* The job in the worker's hands stays the one its steps are for.
LEMMA HandKept ==
    ASSUME Types, WorkerPlaced, JobInHand, Next
    PROVE  JobInHand'
<1> USE DEF AfterRead, JobSteps
<1>0. /\ w \in Memory /\ w' \in Memory /\ WorkerPlaced'
      /\ \A j \in JobIds : JobMove(j)
      /\ \A j \in JobIds : jobs[j].status # "NONE" => SameJob(j)
      /\ jobs \in [JobIds -> SyncJob]
    BY WorkerKept, JobMoves, JobsKept DEF Types, CloudTypeOK
<1>1. CASE w' = w /\ w.pc \in JobSteps
  <2>1. /\ w.job \in JobIds /\ jobs[w.job].status \in {"RUNNING", "GONE"}
        /\ jobs[w.job].doc = w.doc /\ SameJob(w.job) /\ JobMove(w.job)
    BY <1>0, <1>1 DEF WorkerPlaced, JobInHand
  <2>2. ~ClaimJob /\ w' # Failing /\ ~FailJobs
    BY <1>0, <1>1 DEF ClaimJob, Failing, IdleWorker, FailJobs
  <2>3. ~CompleteJob
    BY <1>0, <1>1 DEF CompleteJob, IdleWorker
  <2>4. jobs'[w.job] = jobs[w.job] \/ jobs'[w.job] = [jobs[w.job] EXCEPT !.status = "GONE"]
    BY <2>1, <2>2, <2>3 DEF JobMove
  <2>5. jobs'[w.job].status \in {"RUNNING", "GONE"}
    BY <1>0, <2>1, <2>4 DEF SyncJob
  <2> QED
    BY <1>1, <2>1, <2>5 DEF JobInHand, Op, Row, SameJob
<1>2. CASE w' # w /\ w'.pc \in JobSteps
  <2>1. CASE ClaimJob
    <3>1. PICK j \in NextPending(jobs) :
              /\ jobs' = MarkRunning(jobs, j)
              /\ w' = [w EXCEPT !.pc = "read", !.phase = "job", !.job = j,
                                !.doc = jobs[j].doc]
      BY <2>1 DEF ClaimJob
    <3>2. j \in JobIds /\ jobs[j].status \in {"PENDING", "RETRY"}
      BY DEF NextPending, Waiting
    <3>3. w'.pc = "read" /\ w'.job = j /\ w'.doc = jobs[j].doc
      BY <1>0, <3>1 DEF Memory
    <3>4. jobs'[j].doc = jobs[j].doc /\ jobs'[j].status = "RUNNING"
      BY <1>0, <3>1, <3>2 DEF MarkRunning, SyncJob
    <3> QED
      BY <3>3, <3>4 DEF JobInHand
  <2>2. CASE ~ClaimJob
    <3>1. /\ jobs' = jobs /\ w.pc \in JobSteps /\ w'.job = w.job /\ w'.doc = w.doc
          /\ w'.pc # "check" => w.pc \in AfterRead /\ w'.seen = w.seen
          /\ \/ w'.pc = "check"
             \/ CheckAccount \/ JobFails \/ BeginTransfer \/ UploadNew \/ UploadExisting
             \/ Relabel \/ Record \/ AuditFails \/ RecordError
      BY <1>2, <2>2, HandStays
    <3>2. CASE w'.pc = "check"
      BY <3>1, <3>2 DEF JobInHand
    <3>3. CASE w'.pc # "check"
      <4>1. Op' = Op /\ Row' = Row
        BY <3>1, <3>3 DEF Op, Row
      <4>2. w'.pc = "upload" => Op = "UPLOAD"
        BY <1>0, <3>1, <3>3
        DEF CheckAccount, JobFails, BeginTransfer, UploadNew, UploadExisting, Relabel, Record,
            AuditFails, RecordError, Memory
      <4>3. w'.pc = "relabel" => Op # "UPLOAD" /\ Row.remote # NoItem
        BY <1>0, <3>1, <3>3
        DEF CheckAccount, JobFails, BeginTransfer, UploadNew, UploadExisting, Relabel, Record,
            AuditFails, RecordError, Memory
      <4>4. ASSUME w'.pc \in {"record", "complete"}
            PROVE  /\ Op # "UPLOAD" => Row.remote # NoItem
                   /\ Row.remote # NoItem => w'.item = Row.remote
        <5>1. CASE UploadNew
          BY <5>1 DEF UploadNew, JobInHand
        <5>2. CASE UploadExisting \/ Relabel
          <6>1. w' = [w EXCEPT !.pc = "record", !.item = Row.remote] /\ Row.remote # NoItem
            BY <1>0, <4>4, <5>2 DEF UploadExisting, Relabel, JobInHand, Memory
          <6> QED
            BY <1>0, <6>1 DEF Memory
        <5>3. CASE Record
          BY <1>0, <5>3 DEF Record, JobInHand, Memory
        <5>4. w'.pc \notin {"record", "complete"}
              \/ ~(CheckAccount \/ JobFails \/ BeginTransfer \/ AuditFails \/ RecordError)
          BY <1>0
          DEF CheckAccount, JobFails, BeginTransfer, AuditFails, RecordError, Memory
        <5> QED
          BY <3>1, <3>3, <4>4, <5>1, <5>2, <5>3, <5>4
      <4> QED
        BY <3>1, <4>1, <4>2, <4>3, <4>4 DEF JobInHand
    <3> QED
      BY <3>2, <3>3
  <2> QED
    BY <2>1, <2>2
<1>3. CASE w'.pc \notin JobSteps
    BY <1>3 DEF JobInHand
<1> QED
    BY <1>1, <1>2, <1>3

\* The attempts stay within their limit, and a job that waits has one before it.
LEMMA QueueKept ==
    ASSUME Types, WorkerPlaced, JobInHand, JobsPlaced, AttemptsBounded, RunningIsWorked, Next
    PROVE  JobsPlaced' /\ AttemptsBounded' /\ RunningIsWorked'
<1> USE DEF AfterRead, JobSteps
<1>0. /\ w \in Memory /\ w' \in Memory /\ WorkerPlaced' /\ JobInHand'
      /\ \A j \in JobIds : JobMove(j)
      /\ \A j \in JobIds : jobs[j].status # "NONE" => SameJob(j)
      /\ jobs \in [JobIds -> SyncJob] /\ JobTypes' /\ RestMove
      /\ docs \in [Docs -> Document] /\ docs' \in [Docs -> Document]
      /\ \A d \in Docs : DocMove(d)
      /\ count.crashes \in Nat /\ count'.crashes \in Nat /\ MaxAttempts \in Nat \ {0}
      /\ orphans \subseteq JobIds /\ NoJob \notin JobIds
    BY WorkerKept, HandKept, JobMoves, JobsKept, RestMoves, RowsKept, DocMoves,
       MaxAttemptsAssumption, NoneAssumption
    DEF Types, CloudTypeOK, RestMove
<1>1. /\ \A d \in Docs : docs[d].status # "NONE" => docs'[d].status # "NONE"
      /\ \A d \in Docs : docs[d].status = "DELETED" => docs'[d].status = "DELETED"
  <2>1. ASSUME NEW d \in Docs
        PROVE  /\ docs[d].status # "NONE" => docs'[d].status # "NONE"
               /\ docs[d].status = "DELETED" => docs'[d].status = "DELETED"
    <3>1. docs[d] \in Document /\ DocMove(d) /\ (opened.doc = d => opened.row.status = "ACTIVE")
      BY <1>0, NullAssumption DEF Types
    <3>2. PermanentlyDelete(d) => docs[d].status = "ACTIVE"
      BY DEF PermanentlyDelete
    <3> QED
      BY <3>1, <3>2 DEF DocMove, Edited, Columns, Document, OpenWrite
  <2> QED
    BY <2>1
<1>2. count.crashes <= count'.crashes
    BY <1>0 DEF RestMove
<1>3. ASSUME NEW j \in JobIds
      PROVE  /\ jobs'[j].status # "NONE" => docs'[jobs'[j].doc].status # "NONE"
             /\ jobs'[j].status = "GONE" => docs'[jobs'[j].doc].status = "DELETED"
             /\ jobs'[j].status \in {"PENDING", "RETRY"} =>
                    jobs'[j].attempts < MaxAttempts + count'.crashes
             /\ jobs'[j].attempts <= MaxAttempts + count'.crashes
  <2>1. /\ jobs[j] \in SyncJob /\ JobMove(j)
        /\ jobs[j].attempts <= MaxAttempts + count.crashes
        /\ jobs[j].status \in {"PENDING", "RETRY"} =>
                  jobs[j].attempts < MaxAttempts + count.crashes
        /\ jobs[j].status # "NONE" => jobs[j].doc \in Docs /\ docs[jobs[j].doc].status # "NONE"
        /\ jobs[j].status = "GONE" => docs[jobs[j].doc].status = "DELETED"
    BY <1>0 DEF JobsPlaced, AttemptsBounded, SyncJob, Types, CloudTypeOK
  <2>2. CASE jobs'[j] = jobs[j]
    BY <1>0, <1>1, <1>2, <2>1, <2>2 DEF SyncJob
  <2>3. CASE /\ jobs[j].status = "NONE"
             /\ \E d \in Docs, op \in Operations, p \in Providers :
                    /\ docs[d].status = "ACTIVE"
                    /\ jobs'[j] = [doc |-> d, op |-> op, provider |-> p,
                                   status |-> "PENDING", attempts |-> 0]
    BY <1>0, <1>1, <2>3
  <2>4. CASE /\ jobs[j].doc \in Docs
             /\ PermanentlyDelete(jobs[j].doc)
             /\ jobs'[j] = [jobs[j] EXCEPT !.status = "GONE"]
    <3>1. docs'[jobs[j].doc].status = "DELETED"
      BY <1>0, <2>4 DEF PermanentlyDelete
    <3> QED
      BY <1>0, <1>2, <2>1, <2>4, <3>1 DEF SyncJob
  <2>5. CASE /\ jobs[j].status \in {"PENDING", "RETRY"}
             /\ jobs'[j] = [jobs[j] EXCEPT !.status = "RUNNING", !.attempts = @ + 1]
    BY <1>0, <1>1, <1>2, <2>1, <2>5 DEF SyncJob
  <2>6. CASE /\ jobs[j].status \notin {"GONE", "NONE"}
             /\ jobs'[j] = [jobs[j] EXCEPT !.status = "COMPLETED"]
    BY <1>0, <1>1, <1>2, <2>1, <2>6 DEF SyncJob
  <2>7. CASE /\ jobs[j].status \notin {"GONE", "NONE"}
             /\ jobs'[j] = [jobs[j] EXCEPT !.status = IF jobs[j].attempts >= MaxAttempts
                                                      THEN "ERROR" ELSE "RETRY"]
    BY <1>0, <1>1, <1>2, <2>1, <2>7 DEF SyncJob
  <2>8. CASE /\ FailJobs /\ jobs[j].status = "RUNNING"
             /\ jobs'[j] = [jobs[j] EXCEPT !.status = "RETRY"]
    <3>1. w.job = NoJob
      <4>1. w = [IdleWorker EXCEPT !.pc = "failjobs"]
        BY <2>8 DEF FailJobs, WorkerPlaced, RestSteps
      <4> QED
        BY <4>1 DEF IdleWorker
    <3>2. jobs[j].attempts < MaxAttempts + count.crashes
      BY <1>0, <2>8, <3>1 DEF RunningIsWorked, JobsPlaced
    <3> QED
      BY <1>0, <1>1, <1>2, <2>1, <2>8, <3>2 DEF SyncJob
  <2>9. w.pc \in JobSteps /\ w.job = j => jobs[j].status \in {"RUNNING", "GONE"}
    BY DEF JobInHand
  <2> QED
    BY <2>1, <2>2, <2>3, <2>4, <2>5, <2>6, <2>7, <2>8, <2>9 DEF JobMove
<1>4. ASSUME NEW j \in orphans'
      PROVE  /\ jobs'[j].status \in {"RUNNING", "GONE"}
             /\ jobs'[j].attempts < MaxAttempts + count'.crashes
             /\ j # w'.job
  <2>1. CASE CrashAndRestart
    <3>1. /\ jobs' = jobs /\ w' = IdleWorker /\ jobs[j].status = "RUNNING" /\ j \in JobIds
          /\ count' = [count EXCEPT !.crashes = @ + 1]
      BY <2>1 DEF CrashAndRestart
    <3>2. count'.crashes = count.crashes + 1 /\ IdleWorker.job = NoJob
      BY <3>1 DEF Types, IdleWorker
    <3>3. jobs[j].attempts \in Nat /\ jobs[j].attempts <= MaxAttempts + count.crashes
      BY <1>0, <3>1 DEF AttemptsBounded, SyncJob
    <3> QED
      BY <1>0, <3>1, <3>2, <3>3
  <2>2. CASE ~CrashAndRestart
    <3>1. orphans' = orphans
      BY <1>0, <1>4, <2>2 DEF RestMove
    <3>2. /\ j \in JobIds /\ JobMove(j) /\ jobs[j] \in SyncJob
          /\ jobs[j].status \in {"RUNNING", "GONE"}
          /\ jobs[j].attempts < MaxAttempts + count.crashes /\ j # w.job
      BY <1>0, <1>4, <3>1 DEF JobsPlaced
    <3>3. ~FailJobs
      <4>1. FailJobs => orphans' = {}
        BY DEF FailJobs
      <4> QED
        BY <1>4, <4>1
    <3>4. jobs'[j] = jobs[j] \/ jobs'[j] = [jobs[j] EXCEPT !.status = "GONE"]
      BY <3>2, <3>3 DEF JobMove
    <3>5. /\ jobs'[j].status \in {"RUNNING", "GONE"}
          /\ jobs'[j].attempts < MaxAttempts + count'.crashes
      BY <1>0, <1>2, <3>2, <3>4 DEF SyncJob
    <3>6. w'.job = j => ClaimJob /\ jobs[j].status \in {"PENDING", "RETRY"}
      <4>1. w'.job = j => w'.pc \in JobSteps
        <5>1. w'.pc \in RestSteps \cup SyncSteps => w'.job = NoJob
          BY <1>0 DEF WorkerPlaced, IdleWorker
        <5> QED
          BY <1>0, <3>2, <5>1 DEF RestSteps, SyncSteps, Memory, WorkerSteps
      <4>2. w'.job = j => ClaimJob
        BY <3>2, <4>1, HandStays
      <4>3. ASSUME ClaimJob, w'.job = j PROVE jobs[j].status \in {"PENDING", "RETRY"}
        <5>1. PICK k \in NextPending(jobs) :
                  w' = [w EXCEPT !.pc = "read", !.phase = "job", !.job = k,
                                 !.doc = jobs[k].doc]
          BY <4>3 DEF ClaimJob
        <5>2. k = j
          BY <1>0, <4>3, <5>1 DEF Memory
        <5> QED
          BY <5>2 DEF NextPending, Waiting
      <4> QED
        BY <4>2, <4>3
    <3> QED
      BY <3>2, <3>5, <3>6
  <2> QED
    BY <2>1, <2>2
<1>5. ASSUME NEW j \in JobIds, jobs'[j].status = "RUNNING"
      PROVE  j = w'.job \/ j \in orphans'
  <2>1. JobMove(j) /\ jobs[j] \in SyncJob
    BY <1>0
  <2>2. CASE ClaimJob /\ w'.job = j
    BY <2>2
  <2>3. CASE ~(ClaimJob /\ w'.job = j)
    <3>1. jobs'[j] = jobs[j]
      <4>1. \A status : [jobs[j] EXCEPT !.status = status].status = status
        BY <2>1 DEF SyncJob
      <4>2. CASE \E d \in Docs, op \in Operations, p \in Providers :
                     jobs'[j] = [doc |-> d, op |-> op, provider |-> p,
                                 status |-> "PENDING", attempts |-> 0]
        BY <1>5, <4>2
      <4>3. CASE \E status \in {"GONE", "COMPLETED", "RETRY"} :
                     jobs'[j] = [jobs[j] EXCEPT !.status = status]
        BY <1>5, <4>1, <4>3
      <4>4. CASE jobs'[j] = [jobs[j] EXCEPT !.status = IF jobs[j].attempts >= MaxAttempts
                                                       THEN "ERROR" ELSE "RETRY"]
        BY <1>5, <4>1, <4>4
      <4> QED
        BY <2>1, <2>3, <4>2, <4>3, <4>4 DEF JobMove
    <3>2. CASE CrashAndRestart
      BY <1>5, <3>1, <3>2 DEF CrashAndRestart
    <3>3. ~FailJobs
      BY <1>0, <1>5, <3>1 DEF FailJobs, FailPending, SyncJob
    <3>4. CASE ~CrashAndRestart /\ j \in orphans
      BY <1>0, <3>3, <3>4 DEF RestMove
    <3>5. CASE ~CrashAndRestart /\ j = w.job
      <4>1. w.pc \in JobSteps
        <5>1. w.pc \in RestSteps \cup SyncSteps => w.job = NoJob
          BY <1>0 DEF WorkerPlaced, IdleWorker
        <5> QED
          BY <1>0, <3>5, <5>1 DEF RestSteps, SyncSteps, Memory, WorkerSteps
      <4>2. CASE w'.pc \in JobSteps
        <5>1. ~ClaimJob
          BY <4>1 DEF ClaimJob
        <5> QED
          BY <3>5, <4>2, <5>1, HandStays
      <4>3. CASE w'.pc \notin JobSteps
        <5>1. CompleteJob \/ RetryJob \/ ReadDocument
          <6>1. w' # w
            BY <4>1, <4>3
          <6>2. \/ CompleteJob \/ RetryJob \/ ReadDocument
                \/ CheckAccount \/ JobFails \/ BeginTransfer \/ UploadNew \/ UploadExisting
                \/ Relabel \/ Record \/ AuditFails \/ RecordError
            BY <3>5, <4>1, <6>1
            DEF Next, Interface, ImportDocument, ImportReadSettings, ImportMark, ImportEnqueue,
                RenameDocument, MoveDocument, Edit, OpenRead, OpenWrite, PermanentlyDelete,
                Configure, SetPaused, Remote, RemoteRemove, threadVars, Worker, StartSync,
                SyncFails, OpenProvider, ListDocuments, ReconcileItem, ReconcileWrite,
                ListChanges, ApplyChange, SaveCursor, LoopEnds, ClaimJob, FailDocuments,
                FailJobs
          <6>3. CheckAccount \/ JobFails \/ BeginTransfer \/ Record \/ AuditFails \/ RecordError
                => w'.pc \in JobSteps
            BY <1>0
            DEF CheckAccount, JobFails, BeginTransfer, Record, AuditFails, RecordError, Memory
          <6>4. ASSUME UploadNew \/ UploadExisting \/ Relabel PROVE w'.pc \in JobSteps
            <7>1. \/ w' = [w EXCEPT !.pc = "error"]
                  \/ \E i : w' = [w EXCEPT !.pc = "record", !.item = i]
              BY <6>4 DEF UploadNew, UploadExisting, Relabel
            <7> QED
              BY <1>0, <7>1 DEF Memory
          <6> QED
            BY <4>3, <6>2, <6>3, <6>4
        <5>2. jobs[j].status = "RUNNING" /\ jobs[j].attempts \in Nat
          BY <1>5, <2>1, <3>1 DEF SyncJob
        <5>3. ASSUME CompleteJob PROVE FALSE
          BY <1>0, <1>5, <3>5, <5>2, <5>3 DEF CompleteJob, Complete, SyncJob
        <5>4. ASSUME jobs' = Retry(jobs, w.job) PROVE FALSE
          BY <1>0, <1>5, <3>5, <5>2, <5>4 DEF Retry, SyncJob
        <5>5. ReadDocument => jobs' = Retry(jobs, w.job) \/ w'.pc = "check"
          BY <1>0 DEF ReadDocument, Memory
        <5> QED
          BY <4>3, <5>1, <5>3, <5>4, <5>5 DEF RetryJob
      <4> QED
        BY <4>2, <4>3
    <3>6. jobs[j].status = "RUNNING"
      BY <1>5, <3>1
    <3> QED
      BY <3>2, <3>4, <3>5, <3>6 DEF RunningIsWorked
  <2> QED
    BY <2>2, <2>3
<1> QED
    BY <1>3, <1>4, <1>5 DEF JobsPlaced, AttemptsBounded, RunningIsWorked

-----------------------------------------------------------------------------
(* What a step of the worker changes in its memory, where it stands.       *)

HandStep ==
    /\ w'.doc = w.doc /\ w'.seen = w.seen /\ w'.job = w.job
    /\ \/ /\ CheckAccount \/ JobFails
          /\ w.pc \in {"check", "transfer", "upload", "relabel"} /\ w'.item = w.item
          /\ w'.pc = "error" \/ (w.pc = "check" /\ w'.pc = "transfer")
       \/ /\ BeginTransfer /\ w.pc = "transfer" /\ w'.item = w.item
          /\ \/ w'.pc = "upload" /\ Op = "UPLOAD"
             \/ w'.pc = "error" /\ Op # "UPLOAD" /\ Row.remote = NoItem
             \/ w'.pc = "relabel" /\ Op # "UPLOAD" /\ Row.remote # NoItem
       \/ /\ UploadNew /\ w.pc = "upload" /\ Row.remote = NoItem
          /\ \/ w'.pc = "record" /\ w'.item \in NewItem
             \/ w'.pc = "error" /\ w'.item = w.item
       \/ /\ UploadExisting /\ w.pc = "upload" /\ Row.remote # NoItem
          /\ (w'.pc = "record" /\ w'.item = Row.remote) \/ (w'.pc = "error" /\ w'.item = w.item)
       \/ /\ Relabel /\ w.pc = "relabel"
          /\ (w'.pc = "record" /\ w'.item = Row.remote) \/ (w'.pc = "error" /\ w'.item = w.item)
       \/ Record /\ w.pc = "record" /\ w'.pc = "complete" /\ w'.item = w.item
       \/ AuditFails /\ w.pc = "complete" /\ w'.pc = "error" /\ w'.item = NoItem
       \/ RecordError /\ w.pc = "error" /\ w'.pc = "retry" /\ w'.item = w.item

\* A document that is there with an item in an account.
Listed == {d \in Docs : docs[d].status = "ACTIVE" /\ docs[d].remote # NoItem}

SyncStep ==
    \/ w.pc = "idle" /\ w'.pc = "open" /\ w'.gone = {}
    \/ w.pc = "open" /\ w'.pc = "list" /\ OpenProvider /\ w'.gone = {i \in Items : items[i].state = "gone"}
    \/ /\ ListDocuments /\ w.pc = "list" /\ w'.pc = "reconcile"
       /\ w'.todo = Listed /\ w'.seen = [d \in Listed |-> docs[d]] /\ w'.gone = w.gone
    \/ \E d \in w.todo :
           /\ ReconcileItem(d) /\ w.pc = "reconcile" /\ w'.pc = "confirm"
           /\ w'.doc = d /\ w'.todo = w.todo /\ w'.seen = w.seen /\ w'.gone = w.gone
           /\ w'.found = Found(w.account, w.seen[d].remote)
    \/ /\ ReconcileWrite /\ w.pc = "confirm" /\ w'.pc = "reconcile"
       /\ w'.todo = w.todo \ {w.doc} /\ w'.seen = w.seen /\ w'.gone = w.gone
    \/ /\ ListChanges /\ w.pc = "reconcile" /\ w.todo = {} /\ w'.pc = "apply"
       /\ w'.todo = {} /\ w'.gone = w.gone
    \/ /\ ApplyChange /\ w.pc = "apply" /\ w'.pc = "apply"
       /\ w'.todo = w.todo /\ w'.gone = w.gone

WorkerStep ==
    \/ w' = w
    \/ w'.pc \in RestSteps
    \/ SyncStep
    \/ ClaimJob /\ w.pc = "loop" /\ w'.pc = "read"
    \/ /\ ReadDocument /\ w.pc = "read" /\ w'.pc = "check"
       /\ w'.doc = w.doc /\ w'.job = w.job /\ w'.item = w.item
       /\ docs[w.doc].status = "ACTIVE" /\ w'.seen = [d \in {w.doc} |-> docs[d]]
    \/ HandStep

\* Every step is one of these for the worker.
LEMMA StepsOfWorker ==
    ASSUME Types, WorkerPlaced, Next
    PROVE  WorkerStep
<1>0. WorkerMove /\ w \in Memory
    BY WorkerMoves DEF Types
<1>1. ASSUME StartSync PROVE SyncStep
    BY <1>0, <1>1 DEF StartSync, IdleWorker, SyncStep
<1>2. ASSUME w'.pc = "list", OpenProvider PROVE SyncStep
  <2>1. Failing.pc # "list"
    BY DEF Failing, IdleWorker
  <2> QED
    BY <1>0, <1>2, <2>1 DEF OpenProvider, SyncStep, Memory
<1>3. ASSUME ListDocuments PROVE SyncStep
    BY <1>0, <1>3 DEF ListDocuments, SyncStep, Memory, Listed
<1>4. ASSUME NEW d \in Docs, ReconcileItem(d) PROVE SyncStep
  <2>1. d \in w.todo /\ w.pc = "reconcile"
    BY <1>4 DEF ReconcileItem
  <2>2. /\ w'.doc = d /\ w'.todo = w.todo /\ w'.seen = w.seen /\ w'.gone = w.gone
        /\ w'.pc = "confirm" /\ w'.found = Found(w.account, w.seen[d].remote)
    BY <1>0, <1>4 DEF ReconcileItem, Memory
  <2> QED
    BY <1>4, <2>1, <2>2 DEF SyncStep
<1>5. ASSUME ReconcileWrite PROVE SyncStep
    BY <1>0, <1>5 DEF ReconcileWrite, SyncStep, Memory
<1>6. ASSUME ListChanges PROVE SyncStep
    BY <1>0, <1>6 DEF ListChanges, SyncStep, Memory
<1>7. ASSUME ApplyChange PROVE SyncStep
    BY <1>0, <1>7 DEF ApplyChange, SyncStep, Memory
<1>8. ASSUME ClaimJob PROVE w.pc = "loop" /\ w'.pc = "read"
    BY <1>0, <1>8 DEF ClaimJob, Memory
<1>9. ASSUME w'.pc = "check", ReadDocument
      PROVE  /\ w.pc = "read" /\ w'.doc = w.doc /\ w'.job = w.job /\ w'.item = w.item
             /\ docs[w.doc].status = "ACTIVE" /\ w'.seen = [d \in {w.doc} |-> docs[d]]
  <2>1. Failing.pc # "check"
    BY DEF Failing, IdleWorker
  <2> QED
    BY <1>0, <1>9, <2>1 DEF ReadDocument, Memory
<1>10. ASSUME CheckAccount \/ JobFails PROVE HandStep
  <2>1. /\ w.pc \in {"check", "transfer", "upload", "relabel"}
        /\ \/ w' = [w EXCEPT !.pc = "error"]
           \/ /\ w.pc = "check"
              /\ w' = [w EXCEPT !.pc = "transfer", !.account = setting.account]
    BY <1>10 DEF CheckAccount, JobFails
  <2>2. /\ w'.doc = w.doc /\ w'.seen = w.seen /\ w'.job = w.job /\ w'.item = w.item
        /\ w'.pc = "error" \/ (w.pc = "check" /\ w'.pc = "transfer")
    BY <1>0, <2>1 DEF Memory
  <2> QED
    BY <1>10, <2>1, <2>2 DEF HandStep
<1>11. ASSUME BeginTransfer PROVE HandStep
    BY <1>0, <1>11 DEF BeginTransfer, HandStep, Memory
<1>12. ASSUME UploadNew PROVE HandStep
  <2>1. /\ w.pc = "upload" /\ Row.remote = NoItem
        /\ \/ w' = [w EXCEPT !.pc = "error"]
           \/ \E i \in NewItem : w' = [w EXCEPT !.pc = "record", !.item = i]
    BY <1>12 DEF UploadNew
  <2>2. /\ w'.doc = w.doc /\ w'.seen = w.seen /\ w'.job = w.job
        /\ \/ w'.pc = "record" /\ w'.item \in NewItem
           \/ w'.pc = "error" /\ w'.item = w.item
    BY <1>0, <2>1 DEF Memory
  <2> QED
    BY <1>12, <2>1, <2>2 DEF HandStep
<1>13. ASSUME UploadExisting PROVE HandStep
    BY <1>0, <1>13 DEF UploadExisting, HandStep, Memory
<1>14. ASSUME Relabel PROVE HandStep
    BY <1>0, <1>14 DEF Relabel, HandStep, Memory
<1>15. ASSUME Record \/ AuditFails \/ RecordError PROVE HandStep
    BY ZenonT(60), <1>0, <1>15 DEF Record, AuditFails, RecordError, HandStep, Memory
<1>16. ASSUME w'.pc = "failjobs" PROVE w'.pc \in RestSteps
    BY <1>16 DEF RestSteps
<1> QED
    BY <1>0, <1>1, <1>2, <1>3, <1>4, <1>5, <1>6, <1>7, <1>8, <1>9, <1>10, <1>11, <1>12, <1>13,
       <1>14, <1>15, <1>16
    DEF WorkerMove, WorkerStep

\* Where the steps stand that write a document or an item, and what they write for certain.
LEMMA Where ==
    ASSUME Types, WorkerPlaced
    PROVE  /\ \A d \in Docs : ImportDocument(d) \/ ImportMark(d) \/ PermanentlyDelete(d)
                              => w' = w
           /\ \A d \in Docs, n \in Names : RenameDocument(d, n) => w' = w
           /\ \A d \in Docs, p \in Places : MoveDocument(d, p) => w' = w
           /\ OpenWrite => w' = w
           /\ ReconcileWrite => /\ w.pc = "confirm" /\ w'.pc = "reconcile"
                                /\ w.doc \in Docs /\ w.doc \in w.todo
                                /\ w.doc \in DOMAIN w.seen /\ w.seen[w.doc].remote # NoItem
           /\ ApplyChange => w.pc = "apply" /\ w'.pc = "apply" /\ Head(w.changes) \in Items
           /\ BeginTransfer => w.pc = "transfer" /\ w'.pc # "transfer"
           /\ Record => w.pc = "record" /\ w'.pc = "complete"
           /\ RecordError => w.pc = "error" /\ w'.pc = "retry"
           /\ FailDocuments => w.pc = "fail" /\ w'.pc = "failjobs"
           /\ \A d \in Docs : ReconcileItem(d) => w.pc = "reconcile" /\ w'.pc = "confirm"
                                                  /\ w'.doc = d
           /\ UploadNew => w.pc = "upload" /\ w'.pc \in {"record", "error"}
           /\ UploadExisting => w.pc = "upload" /\ w'.pc \in {"record", "error"}
           /\ Relabel => w.pc = "relabel" /\ w'.pc \in {"record", "error"}
<1>0. w \in Memory
    BY DEF Types
<1>1. /\ \A d \in Docs : ImportDocument(d) \/ ImportMark(d) \/ PermanentlyDelete(d) => w' = w
      /\ \A d \in Docs, n \in Names : RenameDocument(d, n) => w' = w
      /\ \A d \in Docs, p \in Places : MoveDocument(d, p) => w' = w
      /\ OpenWrite => w' = w
    BY DEF ImportDocument, ImportMark, PermanentlyDelete, RenameDocument, MoveDocument, Edit,
           OpenWrite
<1>2. ReconcileWrite => /\ w.pc = "confirm" /\ w'.pc = "reconcile"
                        /\ w.doc \in Docs /\ w.doc \in w.todo
                        /\ w.doc \in DOMAIN w.seen /\ w.seen[w.doc].remote # NoItem
    BY <1>0 DEF ReconcileWrite, WorkerPlaced, Memory
<1>3. ApplyChange => w.pc = "apply" /\ w'.pc = "apply" /\ Head(w.changes) \in Items
    BY <1>0 DEF ApplyChange, Memory
<1>4. /\ BeginTransfer => w.pc = "transfer" /\ w'.pc # "transfer"
      /\ Record => w.pc = "record" /\ w'.pc = "complete"
      /\ RecordError => w.pc = "error" /\ w'.pc = "retry"
      /\ FailDocuments => w.pc = "fail" /\ w'.pc = "failjobs"
      /\ \A d \in Docs : ReconcileItem(d) => w.pc = "reconcile" /\ w'.pc = "confirm"
                                             /\ w'.doc = d
    BY <1>0 DEF BeginTransfer, Record, RecordError, FailDocuments, ReconcileItem, Memory
<1>5. UploadNew => w.pc = "upload" /\ w'.pc \in {"record", "error"}
  <2> SUFFICES ASSUME UploadNew PROVE w.pc = "upload" /\ w'.pc \in {"record", "error"}
    OBVIOUS
  <2>1. /\ w.pc = "upload"
        /\ \/ w' = [w EXCEPT !.pc = "error"]
           \/ \E i : w' = [w EXCEPT !.pc = "record", !.item = i]
    BY DEF UploadNew
  <2> QED
    BY <1>0, <2>1 DEF Memory
<1>6. /\ UploadExisting => w.pc = "upload" /\ w'.pc \in {"record", "error"}
      /\ Relabel => w.pc = "relabel" /\ w'.pc \in {"record", "error"}
    BY <1>0 DEF UploadExisting, Relabel, Memory
<1> QED
    BY <1>1, <1>2, <1>3, <1>4, <1>5, <1>6

\* What the worker's writes leave in a row for certain.
LEMMA Writes ==
    ASSUME Types, WorkerPlaced
    PROVE  /\ ReconcileWrite /\ docs[w.doc].status = "ACTIVE" =>
                  Columns(w.doc, IF w.found THEN "SYNCED" ELSE "REMOTE_DELETED",
                          w.seen[w.doc].remote)
           /\ BeginTransfer /\ w'.pc = "upload" /\ docs[w.doc].status = "ACTIVE" =>
                  Columns(w.doc, "UPLOADING", NoItem)
           /\ Record /\ docs[w.doc].status = "ACTIVE" => Columns(w.doc, "SYNCED", w.item)
           /\ RecordError /\ docs[w.doc].status = "ACTIVE" =>
                  Columns(w.doc, "SYNC_ERROR", Row.remote)
<1>0. w \in Memory /\ docs \in [Docs -> Document]
    BY DEF Types, CloudTypeOK
<1>1. ASSUME NEW state, NEW item, w.doc \in Docs, docs[w.doc].status = "ACTIVE",
             docs' = CloudState(docs, w.doc, state, item)
      PROVE  Columns(w.doc, state, item)
    BY <1>0, <1>1 DEF CloudState, Columns
<1>2. ReconcileWrite \/ BeginTransfer \/ Record \/ RecordError => w.doc \in Docs
    BY Where DEF BeginTransfer, Record, RecordError, WorkerPlaced, JobSteps, AfterRead
<1>3. BeginTransfer /\ w'.pc = "upload" => docs' = CloudState(docs, w.doc, "UPLOADING", NoItem)
    BY <1>0 DEF BeginTransfer, Memory
<1> QED
    BY <1>1, <1>2, <1>3 DEF ReconcileWrite, Record, RecordError

-----------------------------------------------------------------------------
(* Whose the items are.                                                    *)

\* Only an import brings a document, and only a deletion ends it.
LEMMA StatusMoves ==
    ASSUME Types, WorkerPlaced, Next, NEW d \in Docs
    PROVE  /\ docs[d].status # "NONE" => docs'[d].status # "NONE"
           /\ docs'[d].status = "ACTIVE" =>
                  docs[d].status = "ACTIVE" \/ (docs[d].status = "NONE" /\ w' = w)
<1>1. docs[d] \in Document /\ DocMove(d) /\ (opened.doc = d => opened.row.status = "ACTIVE")
    BY DocMoves, NullAssumption DEF Types, CloudTypeOK
<1>2. ImportDocument(d) => w' = w
    BY Where
<1> QED
    BY <1>1, <1>2 DEF DocMove, Edited, Columns, Document, OpenWrite

\* An item keeps its account and its document, and what is gone stays gone.
LEMMA ItemsStay ==
    ASSUME Types, WorkerPlaced, Next, NEW i \in Items
    PROVE  /\ items[i].state # "none" => /\ items'[i].state # "none"
                                         /\ items'[i].doc = items[i].doc
           /\ items[i].state = "gone" => items'[i].state = "gone"
           /\ items'[i].state = "live" => items[i].state \in {"live", "none"}
           /\ items[i].state = "none" /\ items'[i].state # "none" =>
                  /\ UploadNew /\ items'[i].doc = w.doc
                  /\ \A op \in Relabels : Label(items'[i], op) = Label(Row, op)
                  /\ (w'.pc = "record" /\ w'.item = i) \/ (w'.pc = "error" /\ i \in strays')
<1>1. items[i] \in Item /\ ItemMove(i)
    BY ItemMoves DEF Types, CloudTypeOK
<1>2. CASE \/ items'[i] = items[i]
           \/ \E state \in {"trashed", "gone"} :
                  items[i].state = "live" /\ items'[i] = [items[i] EXCEPT !.state = state]
    BY <1>1, <1>2 DEF Item
<1>3. CASE \/ \E name \in Names : items'[i] = [items[i] EXCEPT !.name = name]
           \/ \E place \in Places : items'[i] = [items[i] EXCEPT !.place = place]
           \/ \E name \in Names, place \in Places :
                  items'[i] = [items[i] EXCEPT !.name = name, !.place = place]
    BY <1>1, <1>3 DEF Item
<1>4. CASE /\ UploadNew
           /\ items[i].state = "none"
           /\ items'[i] = [state |-> "live", account |-> w.account, doc |-> w.doc,
                           name |-> Row.name, place |-> Row.place]
           /\ (w'.pc = "record" /\ w'.item = i) \/ (w'.pc = "error" /\ i \in strays')
    BY <1>4 DEF Label, Relabels
<1>5. /\ \A d \in w.todo : ReconcileItem(d) => w.seen[d].name \in Names /\ w.seen[d].place \in Places
      /\ UploadExisting \/ Relabel => Row.name \in Names /\ Row.place \in Places
    BY RowsTyped
    DEF ReconcileItem, WorkerPlaced, UploadExisting, Relabel, AfterRead, Document
<1>6. \A d \in w.todo :
          /\ ReconcileItem(d)
          /\ items'[i] = [items[i] EXCEPT !.name = w.seen[d].name, !.place = w.seen[d].place]
          => \E name \in Names, place \in Places :
                 items'[i] = [items[i] EXCEPT !.name = name, !.place = place]
    BY <1>5
<1> QED
    BY <1>1, <1>2, <1>3, <1>4, <1>5, <1>6 DEF ItemMove

\* Where a document's remote id comes from.
RemoteMove(d) ==
    \/ docs'[d].remote = docs[d].remote
    \/ docs'[d].remote = NoItem /\ w' = w
    \/ /\ BeginTransfer /\ d = w.doc
       /\ Op = "UPLOAD" /\ w'.pc = "upload" /\ docs'[d].remote = NoItem
    \/ OpenWrite /\ opened.doc = d /\ docs'[d].remote = opened.row.remote
    \/ ReconcileWrite /\ d = w.doc /\ docs'[d].remote = w.seen[d].remote
    \/ Record /\ d = w.doc /\ docs'[d].remote = w.item
    \/ RecordError /\ d = w.doc /\ docs'[d].remote = Row.remote

\* Every step leaves it so.
LEMMA RemoteMoves ==
    ASSUME Types, WorkerPlaced, Next, NEW d \in Docs
    PROVE  RemoteMove(d)
<1>1. /\ docs[d] \in Document /\ DocMove(d)
      /\ ImportMark(d) \/ PermanentlyDelete(d) => w' = w
      /\ \A n \in Names : RenameDocument(d, n) => w' = w
      /\ \A p \in Places : MoveDocument(d, p) => w' = w
    BY DocMoves, Where DEF Types, CloudTypeOK
<1> QED
    BY <1>1 DEF DocMove, Edited, Columns, Document, RemoteMove

\* The rows the worker carries are those it carried, or rows of now.
LEMMA SeenMoves ==
    ASSUME Types, WorkerPlaced, Next, NEW d \in DOMAIN w'.seen
    PROVE  \/ d \in DOMAIN w.seen /\ w'.seen[d] = w.seen[d]
           \/ d \in Docs /\ w'.seen[d] = docs[d]
<1>1. WorkerMove /\ w \in Memory
    BY WorkerMoves DEF Types
<1>2. ASSUME NEW S, w'.seen = [e \in S |-> docs[e]], S \subseteq Docs
      PROVE  d \in Docs /\ w'.seen[d] = docs[d]
    BY <1>2
<1>3. w'.seen # IdleWorker.seen
    BY DEF IdleWorker
<1>4. w' # [IdleWorker EXCEPT !.pc = w'.pc] /\ ~StartSync
    BY <1>3 DEF IdleWorker, StartSync
<1>5. ASSUME ListDocuments PROVE d \in Docs /\ w'.seen[d] = docs[d]
  <2>1. w'.seen = [e \in Listed |-> docs[e]]
    BY <1>1, <1>5 DEF ListDocuments, Memory, Listed
  <2> QED
    BY <1>2, <2>1 DEF Listed
<1>6. ASSUME w'.pc = "check", ReadDocument
      PROVE  d \in Docs /\ w'.seen[d] = docs[d]
  <2>1. Failing.pc # "check" /\ w.doc \in Docs
    BY <1>6 DEF Failing, IdleWorker, ReadDocument, WorkerPlaced, JobSteps
  <2>2. w'.seen = [e \in {w.doc} |-> docs[e]]
    BY <1>1, <1>6, <2>1 DEF ReadDocument, Memory
  <2> QED
    BY <1>2, <2>1, <2>2
<1>7. ASSUME \/ \E e \in Docs : ReconcileItem(e)
             \/ ReconcileWrite \/ ApplyChange \/ ClaimJob \/ CheckAccount \/ JobFails
             \/ BeginTransfer \/ Record \/ AuditFails \/ RecordError \/ FailDocuments
      PROVE  w'.seen = w.seen
    BY ZenonT(60), <1>1, <1>7
    DEF ReconcileItem, ReconcileWrite, ApplyChange, ClaimJob, CheckAccount, JobFails,
        BeginTransfer, Record, AuditFails, RecordError, FailDocuments, Memory
<1>8. ASSUME UploadNew \/ UploadExisting \/ Relabel PROVE w'.seen = w.seen
  <2>1. \/ w' = [w EXCEPT !.pc = "error"]
        \/ \E i : w' = [w EXCEPT !.pc = "record", !.item = i]
    BY <1>8 DEF UploadNew, UploadExisting, Relabel
  <2> QED
    BY <1>1, <2>1 DEF Memory
<1>9. ASSUME w'.pc = "list", OpenProvider PROVE w'.seen = w.seen
  <2>1. Failing.pc # "list"
    BY DEF Failing, IdleWorker
  <2> QED
    BY <1>1, <1>9, <2>1 DEF OpenProvider, Memory
<1>10. ~ListChanges
    BY <1>1, <1>3 DEF ListChanges, Memory
<1> QED
    BY <1>1, <1>2, <1>4, <1>5, <1>6, <1>7, <1>8, <1>9, <1>10 DEF WorkerMove

\* An id of a document's item stays one, and every item has its document.
LEMMA OwnedKept ==
    ASSUME Types, WorkerPlaced, JobInHand, JobsPlaced, Owned, Next
    PROVE  Owned'
<1>0. /\ Types' /\ WorkerPlaced' /\ w \in Memory /\ w' \in Memory /\ RestMove
      /\ docs \in [Docs -> Document] /\ docs' \in [Docs -> Document]
      /\ items \in [Items -> Item] /\ NoItem \notin Items /\ NoDoc \notin Docs
    BY TypesKept, WorkerKept, RestMoves, NoneAssumption, NullAssumption
    DEF Types, CloudTypeOK
<1> DEFINE Of(d, i) == i \in Items /\ items[i].state # "none" /\ items[i].doc = d
           OfNow(d, i) == i \in Items /\ items'[i].state # "none" /\ items'[i].doc = d
<1>1. \A d, i : Of(d, i) => OfNow(d, i)
    BY ItemsStay
<1>2. \A d \in Docs : docs[d].remote = NoItem \/ Of(d, docs[d].remote)
    BY <1>0 DEF Owned, ItemOf, Document
<1>3. opened.doc # NoDoc => opened.row.remote = NoItem \/ Of(opened.doc, opened.row.remote)
    BY <1>0 DEF Owned, ItemOf, Types, Document
<1>4. \A d \in DOMAIN w.seen : w.seen[d].remote = NoItem \/ Of(d, w.seen[d].remote)
    BY RowsTyped DEF Owned, ItemOf, Document
<1>5. w.item = NoItem \/ Of(w.doc, w.item)
    BY <1>0 DEF Owned, ItemOf, Memory
<1>6. w.pc \in AfterRead => w.doc \in DOMAIN w.seen /\ Row = w.seen[w.doc]
    BY DEF WorkerPlaced, Row
<1> HIDE DEF Of, OfNow
<1>7. ASSUME NEW d \in Docs PROVE docs'[d].remote = NoItem \/ OfNow(d, docs'[d].remote)
  <2>1. RemoteMove(d)
    BY RemoteMoves
  <2>2. /\ ReconcileWrite => w.doc \in DOMAIN w.seen
        /\ RecordError => w.pc \in AfterRead
        /\ OpenWrite => opened.doc # NoDoc
    BY Where DEF AfterRead, OpenWrite
  <2> QED
    BY <1>1, <1>2, <1>3, <1>4, <1>5, <1>6, <2>1, <2>2 DEF RemoteMove
<1>8. opened'.doc # NoDoc => opened'.row.remote = NoItem \/ OfNow(opened'.doc, opened'.row.remote)
  <2>1. CASE opened' = opened
    BY <1>1, <1>3, <2>1
  <2>2. CASE opened' # opened /\ opened'.doc # NoDoc
    <3>1. PICK d \in Docs : opened' = [doc |-> d, row |-> docs[d]]
      BY <1>0, <2>2 DEF RestMove
    <3> QED
      BY <1>1, <1>2, <3>1
  <2> QED
    BY <2>1, <2>2
<1>9. \A d \in DOMAIN w'.seen : w'.seen[d].remote = NoItem \/ OfNow(d, w'.seen[d].remote)
    BY <1>1, <1>2, <1>4, SeenMoves
<1>10. w'.item = NoItem \/ OfNow(w'.doc, w'.item)
  <2>1. CASE w' = w
    BY <1>1, <1>5, <2>1
  <2>2. CASE w' # w /\ w'.pc \in {"record", "complete"}
    <3>1. HandStep /\ w'.pc \in JobSteps
      BY <1>0, <2>2, StepsOfWorker
      DEF WorkerStep, SyncStep, RestSteps, JobSteps, AfterRead, Memory
    <3>2. w'.doc = w.doc
      BY <3>1 DEF HandStep
    <3>3. CASE w'.item = w.item
      BY <1>1, <1>5, <3>2, <3>3
    <3>4. CASE w'.item = Row.remote /\ w.pc \in AfterRead
      BY <1>1, <1>4, <1>6, <3>2, <3>4
    <3>5. CASE UploadNew /\ w'.pc = "record"
      <4>1. PICK i \in NewItem :
                /\ items' = [items EXCEPT ![i] = [state |-> "live", account |-> w.account,
                                 doc |-> w.doc, name |-> Row.name, place |-> Row.place]]
                /\ w' = [w EXCEPT !.pc = "record", !.item = i] \/ w' = [w EXCEPT !.pc = "error"]
        BY <3>5 DEF UploadNew
      <4>2. i \in Items /\ w'.item = i
        BY <1>0, <3>5, <4>1 DEF NewItem, Memory
      <4> QED
        BY <1>0, <3>2, <4>1, <4>2 DEF OfNow
    <3> QED
      BY <2>2, <3>1, <3>3, <3>4, <3>5 DEF HandStep, AfterRead
  <2>3. CASE w'.pc \notin {"record", "complete"}
    BY <1>0, <2>3 DEF WorkerPlaced
  <2> QED
    BY <2>1, <2>2, <2>3
<1>11. ASSUME NEW i \in Items, items'[i].state # "none"
       PROVE  items'[i].doc \in Docs /\ docs'[items'[i].doc].status # "NONE"
  <2>1. CASE items[i].state # "none"
    BY <2>1, ItemsStay, StatusMoves DEF Owned
  <2>2. CASE items[i].state = "none"
    <3>1. UploadNew /\ items'[i].doc = w.doc
      BY <1>11, <2>2, ItemsStay
    <3>2. /\ w.doc \in Docs /\ w.job \in JobIds
          /\ jobs[w.job].doc = w.doc /\ jobs[w.job].status # "NONE"
      BY <3>1, Where DEF WorkerPlaced, JobInHand, JobSteps, AfterRead
    <3>3. docs[w.doc].status # "NONE"
      BY <3>2 DEF JobsPlaced
    <3> QED
      BY <3>1, <3>2, <3>3, StatusMoves
  <2> QED
    BY <2>1, <2>2
<1> QED
    BY <1>7, <1>8, <1>9, <1>10, <1>11 DEF Owned, ItemOf, OfNow

-----------------------------------------------------------------------------
(* No item of a document that nobody knows.                                *)

\* From the middle of a job a thread comes to rest by finishing it, or by a crash.
LEMMA RestFrom ==
    ASSUME Types, Next, w'.pc \in RestSteps, w.pc \in AfterRead
    PROVE  \/ CrashAndRestart
           \/ CompleteJob /\ w.pc = "complete"
           \/ RetryJob /\ w.pc = "retry"
<1> USE DEF RestSteps, AfterRead
<1>0. w \in Memory
    BY DEF Types
<1>1. \/ CrashAndRestart \/ CompleteJob \/ RetryJob
      \/ CheckAccount \/ JobFails \/ BeginTransfer \/ UploadNew \/ UploadExisting
      \/ Relabel \/ Record \/ AuditFails \/ RecordError
  <2>1. CASE Interface \/ Remote
    <3>1. w' = w
      BY <2>1
      DEF Interface, ImportDocument, ImportReadSettings, ImportMark, ImportEnqueue,
          RenameDocument, MoveDocument, Edit, OpenRead, OpenWrite, PermanentlyDelete,
          Configure, SetPaused, Remote, RemoteRemove, threadVars
    <3> QED
      BY <3>1
  <2>2. CASE Worker
    BY <2>2
    DEF Worker, StartSync, SyncFails, OpenProvider, ListDocuments, ReconcileItem,
        ReconcileWrite, ListChanges, ApplyChange, SaveCursor, LoopEnds, ClaimJob, ReadDocument,
        FailDocuments, FailJobs
  <2> QED
    BY <2>1, <2>2 DEF Next
<1>2. ~(CheckAccount \/ JobFails \/ BeginTransfer \/ Record \/ AuditFails \/ RecordError)
    BY ZenonT(60), <1>0 DEF CheckAccount, JobFails, BeginTransfer, Record, AuditFails, RecordError, Memory
<1>3. ASSUME UploadNew \/ UploadExisting \/ Relabel PROVE FALSE
  <2>1. \/ w' = [w EXCEPT !.pc = "error"]
        \/ \E i : w' = [w EXCEPT !.pc = "record", !.item = i]
    BY <1>3 DEF UploadNew, UploadExisting, Relabel
  <2> QED
    BY <1>0, <2>1 DEF Memory
<1> QED
    BY <1>1, <1>2, <1>3 DEF CompleteJob, RetryJob

\* What is known of a document's items is known after a step, of what the step
\* leaves to know it by.
LEMMA WithinMoves ==
    ASSUME Types, WorkerPlaced, JobInHand, JobsPlaced, Owned, Next,
           NEW d \in Docs, NEW S, NEW T, Within(d, S),
           docs[d].status = "ACTIVE" /\ docs'[d].status = "ACTIVE"
               => S \cap Live(d) \subseteq T \cup strays',
           UploadNew /\ d = w.doc /\ w'.pc = "record" => w'.item \in T
    PROVE  docs'[d].status = "ACTIVE" =>
               \A i \in Items : items'[i].state = "live" /\ items'[i].doc = d
                                => i \in T \cup strays'
<1> SUFFICES ASSUME docs'[d].status = "ACTIVE", NEW i \in Items,
                    items'[i].state = "live", items'[i].doc = d
             PROVE  i \in T \cup strays'
    OBVIOUS
<1>1. CASE items[i].state = "none"
    BY <1>1, ItemsStay
<1>2. CASE items[i].state # "none"
  <2>1. items[i].state = "live" /\ items[i].doc = d
    BY <1>2, ItemsStay
  <2>2. docs[d].status = "ACTIVE"
    BY <2>1, StatusMoves DEF Owned
  <2>3. strays \subseteq strays'
    BY RestMoves DEF RestMove
  <2> QED
    BY <2>1, <2>2, <2>3 DEF Within, Live
<1> QED
    BY <1>1, <1>2

\* Nobody but the worker gives a document's remote id away without a trace.
LEMMA RemoteStays ==
    ASSUME Types, WorkerPlaced, Next, w' = w, NEW d \in Docs, docs[d].status = "ACTIVE",
           docs'[d].status = "ACTIVE"
    PROVE  docs[d].remote \in {docs'[d].remote, NoItem} \cup strays'
<1>1. docs[d] \in Document /\ DocMove(d)
    BY DocMoves DEF Types, CloudTypeOK
<1>2. ImportMark(d) => docs[d].remote \in {NoItem} \cup strays'
    BY DEF ImportMark, Forgotten
<1>3. OpenWrite /\ opened.doc = d =>
          docs[d].remote \in {NoItem, opened.row.remote} \cup strays'
    BY DEF OpenWrite, Forgotten
<1>4. \A row \in Document : Edited(d, row) /\ row.remote = docs[d].remote =>
          docs'[d].remote = docs[d].remote
    BY <1>1 DEF Edited, Document
<1>5. /\ \A n \in Names : /\ [docs[d] EXCEPT !.name = n] \in Document
                         /\ [docs[d] EXCEPT !.name = n].remote = docs[d].remote
      /\ \A p \in Places : /\ [docs[d] EXCEPT !.place = p] \in Document
                          /\ [docs[d] EXCEPT !.place = p].remote = docs[d].remote
    BY <1>1 DEF Document
<1>6. ~ReconcileWrite /\ ~BeginTransfer /\ ~Record /\ ~RecordError
    BY Where
<1>7. CASE \E n \in Names : Edited(d, [docs[d] EXCEPT !.name = n])
    BY <1>4, <1>5, <1>7
<1>8. CASE \E p \in Places : Edited(d, [docs[d] EXCEPT !.place = p])
    BY <1>4, <1>5, <1>8
<1> QED
    BY <1>1, <1>2, <1>3, <1>6, <1>7, <1>8 DEF DocMove, Document

\* Every item of a document stays known.
LEMMA KnownKept ==
    ASSUME Types, WorkerPlaced, JobInHand, JobsPlaced, Owned, Known, Next
    PROVE  Known'
<1> USE DEF AfterRead, JobSteps
<1> DEFINE Holding == {"upload", "relabel", "record", "complete", "error", "retry"}
           Now(d, T) == docs'[d].status = "ACTIVE" =>
                            \A i \in Items : items'[i].state = "live" /\ items'[i].doc = d
                                             => i \in T \cup strays'
<1>0. /\ w \in Memory /\ w' \in Memory /\ WorkerPlaced' /\ WorkerStep /\ NoItem \notin Items
      /\ \A d \in Docs : RemoteMove(d)
      /\ docs \in [Docs -> Document] /\ Holding \subseteq AfterRead
    BY WorkerKept, StepsOfWorker, RemoteMoves, NoneAssumption DEF Types, CloudTypeOK
<1>1. \A d : Live(d) \subseteq Items
    BY DEF Live
<1>2. \A d \in Docs : ~(w.pc \in Holding /\ d = w.doc) => Within(d, {docs[d].remote})
  <2>1. ASSUME NEW d \in Docs, NEW i \in Live(d), w.pc \in Holding, d # w.doc
        PROVE  i \notin Held
    <3>1. i \in Items /\ items[i].doc = d
      BY DEF Live
    <3>2. w.doc \in DOMAIN w.seen /\ Row = w.seen[w.doc]
      BY <2>1, <1>0 DEF WorkerPlaced, Row
    <3> QED
      BY <1>0, <2>1, <3>1, <3>2 DEF Held, Owned, ItemOf
  <2>2. \A d \in Docs : Within(d, {docs[d].remote} \cup Held)
    BY DEF Known
  <2>3. w.pc \notin Holding => Held = {}
    BY DEF Held
  <2> QED
    BY <2>1, <2>2, <2>3 DEF Within
<1>3. ASSUME NEW d \in Docs, NEW S, NEW T, Within(d, S),
             docs[d].status = "ACTIVE" /\ docs'[d].status = "ACTIVE"
                 => S \cap Live(d) \subseteq T \cup strays',
             UploadNew /\ d = w.doc /\ w'.pc = "record" => w'.item \in T
      PROVE  Now(d, T)
    BY <1>3, WithinMoves
<1>4. /\ ReconcileWrite => w.pc = "confirm" /\ w'.pc = "reconcile"
      /\ BeginTransfer => w.pc = "transfer" /\ w'.pc # "transfer"
      /\ Record => w.pc = "record" /\ w'.pc = "complete"
      /\ RecordError => w.pc = "error" /\ w'.pc = "retry"
      /\ OpenWrite => w' = w
      /\ UploadNew => w.pc = "upload"
    BY Where
<1>5. \A d \in Docs : w' # w /\ d # w.doc => docs'[d].remote = docs[d].remote
    BY <1>0, <1>4 DEF RemoteMove
<1>6. w.pc \in AfterRead => w.doc \in Docs /\ Within(w.doc, {Row.remote, w.item})
    BY <1>0 DEF Known, WorkerPlaced
<1> HIDE DEF Now, Holding
<1>7. ASSUME HandStep, w.pc \in Holding
      PROVE  /\ w'.pc \in Holding /\ Row' = Row /\ Held' = {w'.item, Row.remote}
             /\ w.item \in {NoItem, w'.item, Row.remote} \cup strays'
  <2>1. w'.pc \in Holding /\ Row' = Row
    BY <1>7 DEF HandStep, Row, Holding
  <2>2. Held' = {w'.item, Row.remote}
    BY <2>1 DEF Held, Holding
  <2>3. CASE AuditFails
    BY <2>1, <2>2, <2>3 DEF AuditFails
  <2>4. CASE ~AuditFails
    BY <1>7, <2>1, <2>2, <2>4 DEF HandStep, WorkerPlaced
  <2> QED
    BY <2>3, <2>4
<1>8. ASSUME NEW d \in Docs PROVE Now(d, {docs'[d].remote} \cup Held')
  <2>1. CASE w' = w
    <3>1. Held' = Held
      BY <2>1 DEF Held, Row
    <3>2. Within(d, {docs[d].remote} \cup Held)
      BY DEF Known
    <3>3. docs[d].status = "ACTIVE" /\ docs'[d].status = "ACTIVE" =>
              ({docs[d].remote} \cup Held) \cap Live(d)
                  \subseteq ({docs'[d].remote} \cup Held') \cup strays'
      BY <1>0, <1>1, <2>1, <3>1, RemoteStays
    <3>4. ~UploadNew
      BY <2>1, Where
    <3> QED
      BY <1>3, <3>2, <3>3, <3>4
  <2>2. ASSUME w' # w, ~(w.pc \in Holding /\ d = w.doc), docs'[d].remote = docs[d].remote
        PROVE  Now(d, {docs'[d].remote} \cup Held')
    <3>1. Within(d, {docs[d].remote})
      BY <1>2, <2>2
    <3>2. ~(UploadNew /\ d = w.doc)
      BY <1>4, <2>2 DEF Holding
    <3> QED
      BY <1>3, <2>2, <3>1, <3>2
  <2>3. CASE ReconcileWrite /\ d = w.doc
    <3>1. /\ Within(d, {w.seen[d].remote}) /\ ~UploadNew
      BY <1>4, <2>3, Where DEF Known
    <3>2. docs[d].status = "ACTIVE" => docs'[d].remote = w.seen[d].remote
      BY <1>0, <2>3, Writes DEF Columns, Document
    <3> QED
      BY <1>3, <3>1, <3>2
  <2>4. CASE BeginTransfer /\ d = w.doc /\ w'.pc = "upload"
    <3>1. /\ Within(d, {Row.remote, w.item}) /\ ~UploadNew /\ w.item = NoItem
      BY <1>4, <1>6, <2>4 DEF WorkerPlaced
    <3>2. HandStep
      BY <1>0, <1>4, <2>4 DEF WorkerStep, SyncStep, RestSteps
    <3>3. Row.remote \in Held'
      BY <2>4, <3>2 DEF HandStep, Held, Row
    <3> QED
      BY <1>0, <1>1, <1>3, <3>1, <3>3
  <2>5. CASE w.pc \in Holding /\ d = w.doc /\ HandStep
    <3>1. Within(d, {Row.remote, w.item})
      BY <1>0, <1>6, <2>5
    <3>2. {Row.remote, w.item} \cap Live(d)
              \subseteq ({docs'[d].remote} \cup Held') \cup strays'
      BY <1>0, <1>1, <1>7, <2>5
    <3>3. w'.item \in {docs'[d].remote} \cup Held'
      BY <1>7, <2>5
    <3> QED
      BY <1>3, <3>1, <3>2, <3>3
  <2>6. CASE CrashAndRestart /\ w.pc \in Holding /\ d = w.doc
    <3>1. /\ Within(d, {docs[d].remote} \cup Held)
      BY DEF Known
    <3>2. docs' = docs /\ strays' = strays \cup InHand /\ ~UploadNew
      <4>1. UploadNew => count' = count
        BY DEF UploadNew, WorkerOnly
      <4>2. count' # count
        <5>1. count' = [count EXCEPT !.crashes = count.crashes + 1] /\ count.crashes \in Nat
          BY <2>6 DEF CrashAndRestart, Types
        <5>2. count'.crashes = count.crashes + 1
          BY <5>1 DEF Types
        <5>3. count.crashes \in Nat
          BY <5>1
        <5>4. ASSUME count' = count PROVE FALSE
          BY <5>2, <5>3, <5>4
        <5> QED
          BY <5>4
      <4>3. docs' = docs /\ strays' = strays \cup InHand
        BY <2>6 DEF CrashAndRestart
      <4> QED
        BY <4>1, <4>2, <4>3
    <3>3. Held \cap Live(d) \subseteq {docs[d].remote} \cup strays'
      <4>1. SUFFICES ASSUME NEW i \in Held, i \in Live(d), i # docs[d].remote
                     PROVE  i \in InHand
        BY <3>2
      <4>2. i \in Items /\ items[i].doc = d
        BY <4>1 DEF Live
      <4>3. \A e \in Docs : docs[e].remote # i
        BY <1>0, <4>1, <4>2 DEF Owned, ItemOf
      <4>4. w.phase = "job"
        BY <2>6, <1>0 DEF WorkerPlaced
      <4> QED
        BY <1>0, <2>6, <4>1, <4>2, <4>3, <4>4 DEF InHand, Held, Holding
    <3> QED
      BY <1>3, <3>1, <3>2, <3>3
  <2>7. CASE w.pc \in {"complete", "retry"} /\ d = w.doc /\ w' # w /\ ~HandStep
    <3>1. Within(d, {docs[d].remote})
      BY <2>7 DEF Known
    <3>2. docs'[d].remote = docs[d].remote /\ ~UploadNew
      BY <1>0, <1>4, <2>7 DEF RemoteMove
    <3> QED
      BY <1>3, <3>1, <3>2
  <2>8. w' # w /\ ~HandStep /\ w.pc \in Holding =>
            CrashAndRestart \/ w.pc \in {"complete", "retry"}
    <3>1. w' # w /\ ~HandStep /\ w.pc \in Holding => w'.pc \in RestSteps
      BY <1>0, Where DEF WorkerStep, SyncStep, Holding, OpenProvider, WorkerPlaced, SyncSteps
    <3> QED
      BY <1>0, <3>1, RestFrom
  <2> QED
    BY <1>0, <1>4, <2>1, <2>2, <2>3, <2>4, <2>5, <2>6, <2>7, <2>8 DEF RemoteMove, Holding
<1>9. ASSUME w'.pc \in AfterRead PROVE Now(w'.doc, {Row'.remote, w'.item})
  <2>1. CASE w' = w
    <3>1. Within(w.doc, {Row.remote, w.item}) /\ w.doc \in Docs /\ Row' = Row /\ ~UploadNew
      BY <1>6, <1>9, <2>1, Where DEF Row
    <3> QED
      BY <1>3, <2>1, <3>1
  <2>2. CASE w' # w /\ w'.pc = "check"
    <3>1. /\ w.pc = "read" /\ w.doc \in Docs /\ w'.doc = w.doc
          /\ Row'.remote = docs[w.doc].remote
      BY <1>0, <2>2 DEF WorkerStep, SyncStep, HandStep, RestSteps, WorkerPlaced, Row
    <3>2. Within(w.doc, {docs[w.doc].remote}) /\ ~UploadNew
      BY <1>2, <1>4, <3>1 DEF Holding
    <3> QED
      BY <1>3, <3>1, <3>2
  <2>3. CASE w' # w /\ w'.pc # "check"
    <3>1. HandStep /\ w.pc \in AfterRead
      BY <1>0, <1>9, <2>3 DEF WorkerStep, SyncStep, RestSteps, HandStep
    <3>2. w'.doc = w.doc /\ Row' = Row /\ Within(w.doc, {Row.remote, w.item}) /\ w.doc \in Docs
      BY <1>6, <3>1 DEF HandStep, Row
    <3>3. w.item \in {NoItem, w'.item, Row.remote} \cup strays'
      <4>1. CASE w.pc \in Holding
        BY <1>7, <3>1, <4>1
      <4>2. CASE w.pc \notin Holding
        BY <1>0, <3>1, <4>2 DEF Holding, WorkerPlaced
      <4> QED
        BY <4>1, <4>2
    <3>4. {Row.remote, w.item} \cap Live(w.doc) \subseteq {Row.remote, w'.item} \cup strays'
      BY <1>0, <1>1, <3>3
    <3> QED
      BY <1>3, <3>2, <3>4
  <2> QED
    BY <2>1, <2>2, <2>3
<1>10. ASSUME w'.pc \in {"reconcile", "confirm"}, NEW d \in w'.todo
       PROVE  Now(d, {w'.seen[d].remote})
  <2>1. d \in Docs /\ ~UploadNew
    <3>1. w'.todo \subseteq Docs
      BY <1>0 DEF Memory
    <3>2. UploadNew => w'.pc \notin {"reconcile", "confirm"}
      BY Where
    <3> QED
      BY <1>10, <3>1, <3>2
  <2>2. CASE ListDocuments /\ w.pc = "list" /\ w'.todo = Listed
             /\ w'.seen = [e \in Listed |-> docs[e]]
    <3>1. Within(d, {docs[d].remote}) /\ w'.seen[d] = docs[d]
      BY <1>2, <1>10, <2>1, <2>2 DEF Holding
    <3> QED
      BY <1>3, <2>1, <3>1
  <2>3. CASE d \in w.todo /\ w'.seen = w.seen /\ w.pc \in {"reconcile", "confirm"}
    <3>1. Within(d, {w.seen[d].remote})
      BY <2>3 DEF Known
    <3> QED
      BY <1>3, <2>1, <2>3, <3>1
  <2> QED
    BY <1>0, <1>10, <2>2, <2>3 DEF WorkerStep, SyncStep, HandStep, RestSteps
<1>11. ASSUME w'.pc \in {"complete", "retry"} PROVE Now(w'.doc, {docs'[w'.doc].remote})
  <2>1. CASE w' = w
    <3>1. Within(w.doc, {docs[w.doc].remote}) /\ w.doc \in Docs
      BY <1>6, <1>11, <2>1 DEF Known
    <3>2. docs[w.doc].status = "ACTIVE" /\ docs'[w.doc].status = "ACTIVE" =>
              {docs[w.doc].remote} \cap Live(w.doc) \subseteq {docs'[w.doc].remote} \cup strays'
      BY <1>0, <1>1, <2>1, <3>1, RemoteStays
    <3>3. ~UploadNew
      BY <2>1, Where
    <3> QED
      BY <1>3, <2>1, <3>1, <3>2, <3>3
  <2>2. CASE w' # w
    <3>1. HandStep /\ (Record \/ RecordError) /\ w'.doc = w.doc /\ w.pc \in {"record", "error"}
      BY <1>0, <1>11, <2>2 DEF WorkerStep, SyncStep, RestSteps, HandStep
    <3>2. /\ w.doc \in Docs /\ Within(w.doc, {Row.remote, w.item}) /\ ~UploadNew
      BY <1>4, <1>6, <3>1
    <3>3. docs[w.doc].status = "ACTIVE" =>
              {Row.remote, w.item} \subseteq {docs'[w.doc].remote, NoItem}
      <4>1. CASE Record
        <5>1. Row.remote \in {NoItem, w.item}
          BY <1>4, <4>1 DEF JobInHand
        <5> QED
          BY <1>0, <3>2, <4>1, <5>1, Writes DEF Columns, Document
      <4>2. CASE RecordError
        <5>1. w.item = NoItem
          BY <1>4, <4>2 DEF WorkerPlaced
        <5> QED
          BY ZenonT(60), <1>0, <3>2, <4>2, <5>1, Writes DEF Columns, Document
      <4> QED
        BY <3>1, <4>1, <4>2
    <3>4. docs[w.doc].status = "ACTIVE" =>
              {Row.remote, w.item} \cap Live(w.doc) \subseteq {docs'[w.doc].remote} \cup strays'
      BY <1>0, <1>1, <3>3
    <3> QED
      BY <1>3, <3>1, <3>2, <3>4
  <2> QED
    BY <2>1, <2>2
<1>12. ASSUME NEW d \in Docs, NEW T, Now(d, T)
       PROVE  docs'[d].status = "ACTIVE" => Live(d)' \subseteq T \cup strays'
    BY <1>12 DEF Now, Live
<1>13. \A d \in Docs : Within(d, {docs[d].remote} \cup Held)'
    BY <1>8, <1>12 DEF Within
<1>14. w'.pc \in AfterRead => w'.doc \in Docs
    BY <1>0 DEF WorkerPlaced
<1>15. w'.pc \in AfterRead => Within(w.doc, {Row.remote, w.item})'
    BY <1>9, <1>12, <1>14 DEF Within
<1>16. w'.pc \in {"reconcile", "confirm"} => \A d \in w'.todo : Within(d, {w.seen[d].remote})'
  <2>1. w'.todo \subseteq Docs
    BY <1>0 DEF Memory
  <2> QED
    BY <1>10, <1>12, <2>1 DEF Within
<1>17. w'.pc \in {"complete", "retry"} => Within(w.doc, {docs[w.doc].remote})'
    BY <1>11, <1>12, <1>14 DEF Within
<1> QED
    BY <1>13, <1>15, <1>16, <1>17 DEF Known

-----------------------------------------------------------------------------
(* What is shown: the remote ids.                                          *)

\* A document with a remote id stays there and is not shown as local.
LEMMA NotLocalKept ==
    ASSUME Types, WorkerPlaced, JobInHand, NotLocal, Next
    PROVE  NotLocal'
<1>0. /\ docs \in [Docs -> Document] /\ RestMove /\ NoItem \notin Items /\ NoDoc \notin Docs
    BY RestMoves, NoneAssumption, NullAssumption DEF Types, CloudTypeOK
<1>1. ASSUME NEW d \in Docs
      PROVE  /\ docs'[d].remote # NoItem => docs'[d].cloud # "LOCAL_ONLY"
             /\ docs'[d].status # "ACTIVE" =>
                    docs'[d].remote = NoItem /\ docs'[d].cloud = "LOCAL_ONLY"
  <2>1. /\ docs[d] \in Document /\ DocMove(d)
        /\ docs[d].remote # NoItem => docs[d].cloud # "LOCAL_ONLY"
        /\ docs[d].status # "ACTIVE" => docs[d].remote = NoItem /\ docs[d].cloud = "LOCAL_ONLY"
        /\ OpenWrite /\ opened.doc = d =>
               /\ opened.row \in Document /\ opened.row.status = "ACTIVE"
               /\ opened.row.remote # NoItem => opened.row.cloud # "LOCAL_ONLY"
        /\ ApplyChange => Head(w.changes) \in Items
    BY <1>0, DocMoves, Where DEF NotLocal, Types, OpenWrite
  <2> QED
    BY ZenonT(60), <1>0, <2>1 DEF DocMove, Edited, Columns, Document
<1>2. opened'.doc # NoDoc /\ opened'.row.remote # NoItem => opened'.row.cloud # "LOCAL_ONLY"
  <2>1. CASE opened' = opened
    BY <2>1 DEF NotLocal
  <2>2. CASE opened' = [doc |-> NoDoc]
    BY <2>2
  <2>3. CASE \E d \in Docs : opened' = [doc |-> d, row |-> docs[d]]
    BY <2>3 DEF NotLocal
  <2> QED
    BY <1>0, <2>1, <2>2, <2>3 DEF RestMove
<1> QED
    BY <1>1, <1>2 DEF NotLocal

\* A thread with a job in its hands stands in one.
LEMMA InJob ==
    ASSUME Types, WorkerPlaced, w.job \in JobIds
    PROVE  w.pc \in JobSteps
<1>1. w.pc \in RestSteps \cup SyncSteps => w.job = NoJob
    BY DEF WorkerPlaced, IdleWorker
<1> QED
    BY <1>1, NoneAssumption
    DEF Types, RestSteps, SyncSteps, JobSteps, AfterRead, Memory, WorkerSteps

\* What the interface and the importing threads may do to a document whose row no
\* old one replaces.
Undisturbed(d) ==
    \/ docs'[d] = docs[d]
    \/ /\ ImportMark(d) /\ docs[d].cloud = "LOCAL_ONLY" /\ docs[d].remote = NoItem
       /\ \E state \in {"LOCAL_ONLY", "PENDING_UPLOAD"} :
              docs'[d] = [docs[d] EXCEPT !.cloud = state]
    \/ \E n \in Names : RenameDocument(d, n) /\ Edited(d, [docs[d] EXCEPT !.name = n])
    \/ \E p \in Places : MoveDocument(d, p) /\ Edited(d, [docs[d] EXCEPT !.place = p])

\* While the worker stands still nobody does more than that to a fresh document.
LEMMA Undisturbing ==
    ASSUME Types, WorkerPlaced, NotLocal, Next, w' = w, NEW d \in Docs,
           docs[d].status = "ACTIVE", Fresh(d)'
    PROVE  Undisturbed(d) /\ docs'[d].remote = docs[d].remote
<1>1. /\ docs[d] \in Document /\ DocMove(d)
      /\ docs'[d].status = "ACTIVE" /\ d \notin overtaken'
      /\ docs[d].remote # NoItem => docs[d].cloud # "LOCAL_ONLY"
    BY DocMoves DEF Types, CloudTypeOK, Fresh, NotLocal
<1>2. ~ReconcileWrite /\ ~BeginTransfer /\ ~Record /\ ~RecordError /\ ~FailDocuments
    BY Where
<1>3. ASSUME ApplyChange PROVE FALSE
  <2>1. w.changes # <<>> /\ w'.changes = Tail(w.changes) /\ w.changes \in Seq(Items)
    BY <1>3 DEF ApplyChange, Types, Memory
  <2>2. Len(Tail(w.changes)) # Len(w.changes)
    BY <2>1
  <2> QED
    BY <2>1, <2>2
<1>4. ImportMark(d) => docs[d].cloud = "LOCAL_ONLY"
    BY <1>1 DEF ImportMark
<1>5. OpenWrite /\ opened.doc = d => docs[d] = opened.row
    BY <1>1 DEF OpenWrite
<1>6. ASSUME NEW state, Columns(d, state, NoItem), docs[d].remote = NoItem
      PROVE  docs'[d] = [docs[d] EXCEPT !.cloud = state]
    BY <1>1, <1>6 DEF Columns, Document
<1>7. ImportDocument(d) => docs[d].status = "NONE"
    BY DEF ImportDocument
<1>8. PermanentlyDelete(d) => docs'[d].status # "ACTIVE"
    BY <1>1 DEF PermanentlyDelete, Types, CloudTypeOK
<1>9. Undisturbed(d)
    BY <1>1, <1>2, <1>3, <1>4, <1>5, <1>6, <1>7, <1>8 DEF DocMove, Undisturbed
<1>10. docs'[d].remote = docs[d].remote
    BY <1>1, <1>9 DEF Undisturbed, Edited, Document
<1> QED
    BY <1>9, <1>10

\* A document that is fresh after a step was fresh, or was not there.
LEMMA FreshMoves ==
    ASSUME Types, WorkerPlaced, JobInHand, Next, NEW d \in Docs, Fresh(d)'
    PROVE  \/ Fresh(d)
           \/ docs[d].status = "NONE" /\ w' = w
    BY StatusMoves, RestMoves DEF Fresh, RestMove

\* Nobody but the worker touches the remote id of a fresh document.
LEMMA RemoteFollowsKept ==
    ASSUME Types, WorkerPlaced, JobInHand, JobsPlaced, Owned, NotLocal, RemoteFollows, Next
    PROVE  RemoteFollows'
<1> USE DEF AfterRead, JobSteps
<1>0. /\ w \in Memory /\ w' \in Memory /\ WorkerPlaced' /\ WorkerStep /\ NoItem \notin Items
      /\ \A d \in Docs : RemoteMove(d)
      /\ docs \in [Docs -> Document]
    BY WorkerKept, StepsOfWorker, RemoteMoves, NoneAssumption DEF Types, CloudTypeOK
<1>1. /\ ReconcileWrite => w.pc = "confirm" /\ w'.pc = "reconcile"
      /\ BeginTransfer => w.pc = "transfer" /\ w'.pc # "transfer"
      /\ Record => w.pc = "record" /\ w'.pc = "complete"
      /\ RecordError => w.pc = "error" /\ w'.pc = "retry"
      /\ OpenWrite => w' = w
    BY Where
<1>2. w.pc \in JobSteps => w.doc \in Docs /\ docs[w.doc].status # "NONE" /\ jobs[w.job].status # "NONE"
    BY <1>0 DEF WorkerPlaced, JobInHand, JobsPlaced
<1>3. ASSUME NEW d \in Docs, w' = w, docs[d].status # "NONE", Fresh(d)'
      PROVE  Fresh(d) /\ docs'[d].remote = docs[d].remote
    BY <1>3, FreshMoves, Undisturbing DEF Fresh
<1>4. ASSUME w'.pc \in AfterRead, Fresh(w.doc)'
      PROVE  /\ Op' # "UPLOAD" \/ w'.pc \in {"check", "transfer", "retry"} =>
                    docs'[w'.doc].remote = Row'.remote
             /\ Op' = "UPLOAD" /\ w'.pc \in {"upload", "record"} => docs'[w'.doc].remote = NoItem
             /\ w'.pc = "complete" => docs'[w'.doc].remote = w'.item
  <2>1. CASE w' = w
    <3>1. Fresh(w.doc) /\ docs'[w.doc].remote = docs[w.doc].remote
      BY <1>2, <1>3, <1>4, <2>1 DEF Fresh
    <3>2. Op' = Op /\ Row' = Row
      BY <1>0, <1>2, <1>4, <2>1, JobsKept DEF Op, Row, WorkerPlaced, SameJob
    <3> QED
      BY <1>4, <2>1, <3>1, <3>2 DEF RemoteFollows
  <2>2. CASE w' # w /\ w'.pc = "check"
    <3>1. /\ w.pc = "read" /\ w'.doc = w.doc /\ Row'.remote = docs[w.doc].remote
      BY <1>0, <1>2, <2>2 DEF WorkerStep, SyncStep, HandStep, RestSteps, Row
    <3>2. docs'[w.doc].remote = docs[w.doc].remote
      BY <1>0, <1>1, <1>2, <2>2, <3>1 DEF RemoteMove
    <3> QED
      BY <2>2, <3>1, <3>2
  <2>3. CASE w' # w /\ w'.pc # "check"
    <3>1. HandStep /\ w.pc \in AfterRead
      BY <1>0, <1>4, <2>3 DEF WorkerStep, SyncStep, RestSteps, HandStep
    <3>2. /\ w'.doc = w.doc /\ Row' = Row /\ w.doc \in Docs /\ w'.job = w.job
      BY <1>2, <3>1 DEF HandStep, Row
    <3>3. Fresh(w.doc) /\ docs[w.doc].status = "ACTIVE"
      BY <1>4, <2>3, <3>2, FreshMoves DEF Fresh
    <3>4. Op' = Op
      BY <1>0, <1>2, <3>1, <3>2, JobsKept DEF Op, SameJob, WorkerPlaced
    <3>5. docs[w.doc] \in Document
      BY <1>0, <3>2
    <3>6. CASE BeginTransfer
      <4>1. CASE w'.pc = "upload"
        <5>1. docs'[w.doc].remote = NoItem
          BY <3>3, <3>5, <3>6, <4>1, Writes DEF Columns, Document
        <5>2. Op = "UPLOAD"
          BY <1>1, <3>1, <3>6, <4>1 DEF HandStep
        <5> QED
          BY <3>2, <3>4, <4>1, <5>1, <5>2
      <4>2. CASE w'.pc # "upload"
        <5>1. /\ w'.pc \in {"error", "relabel"}
              /\ docs'[w.doc].remote = docs[w.doc].remote
          BY <1>0, <1>1, <2>3, <3>1, <3>2, <3>6, <4>2 DEF HandStep, RemoteMove
        <5> QED
          BY <1>1, <3>2, <3>3, <3>4, <3>6, <5>1 DEF RemoteFollows
      <4> QED
        BY <4>1, <4>2
    <3>7. CASE Record
      <4>1. docs'[w.doc].remote = w.item /\ w.pc = "record" /\ w'.pc = "complete"
        BY <1>1, <3>3, <3>5, <3>7, Writes DEF Columns, Document
      <4>2. w'.item = w.item
        BY <3>1, <4>1 DEF HandStep
      <4>3. Op # "UPLOAD" => w.item = Row.remote
        BY <4>1 DEF JobInHand
      <4> QED
        BY <3>2, <3>4, <4>1, <4>2, <4>3
    <3>8. CASE RecordError
      <4>1. docs'[w.doc].remote = Row.remote /\ w'.pc = "retry"
        BY <1>1, <3>3, <3>5, <3>8, Writes DEF Columns, Document
      <4> QED
        BY <3>2, <4>1
    <3>9. CASE ~BeginTransfer /\ ~Record /\ ~RecordError
      <4>1. docs'[w.doc].remote = docs[w.doc].remote
        BY <1>0, <1>1, <2>3, <3>1, <3>2, <3>9 DEF RemoteMove
      <4>2. w'.pc \in {"record", "error", "transfer"}
        BY <3>1, <3>9 DEF HandStep
      <4> QED
        BY <3>1, <3>2, <3>3, <3>4, <3>9, <4>1, <4>2 DEF RemoteFollows, HandStep, JobInHand
    <3> QED
      BY <3>6, <3>7, <3>8, <3>9
  <2> QED
    BY <2>1, <2>2, <2>3
<1>5. ASSUME w'.pc \in {"reconcile", "confirm"}, NEW d \in w'.todo, Fresh(d)'
      PROVE  docs'[d].remote = w'.seen[d].remote
  <2>1. d \in Docs /\ d \in DOMAIN w'.seen
    BY <1>0, <1>5 DEF Memory, WorkerPlaced
  <2>2. CASE w' = w
    <3>1. ItemOf(d, w.seen[d].remote) /\ w.seen[d].remote # NoItem /\ d \in w.todo
      BY <1>0, <1>5, <2>1, <2>2 DEF Owned, WorkerPlaced
    <3>2. w.seen[d].remote \in Items
      BY <1>5, <2>1, <2>2, <3>1, RowsTyped DEF Document
    <3>3. docs[d].status # "NONE"
      BY <3>1, <3>2 DEF Owned, ItemOf
    <3> QED
      BY <1>3, <1>5, <2>1, <2>2, <3>1, <3>3 DEF RemoteFollows
  <2>3. CASE ListDocuments /\ w.pc = "list" /\ w'.todo = Listed
             /\ w'.seen = [e \in Listed |-> docs[e]]
    <3>1. w'.seen[d] = docs[d] /\ docs' = docs
      BY <1>5, <2>3 DEF ListDocuments
    <3> QED
      BY <3>1
  <2>4. CASE d \in w.todo /\ w'.seen = w.seen /\ w.pc \in {"reconcile", "confirm"} /\ w' # w
    <3>1. Fresh(d)
      BY <1>5, <2>1, <2>4, FreshMoves
    <3>2. docs[d].remote = w.seen[d].remote
      BY <2>4, <3>1 DEF RemoteFollows
    <3>3. docs'[d].remote \in {docs[d].remote, w.seen[d].remote}
      BY <1>0, <1>1, <2>1, <2>4 DEF RemoteMove
    <3> QED
      BY <2>4, <3>2, <3>3
  <2> QED
    BY <1>0, <1>5, <2>2, <2>3, <2>4 DEF WorkerStep, SyncStep, HandStep, RestSteps
<1> QED
    BY <1>4, <1>5 DEF RemoteFollows, Fresh

-----------------------------------------------------------------------------
(* What is shown: names, places and states.                                *)

\* A job of a document that is there stays open, unless its worker ends it.
LEMMA OpenStays ==
    ASSUME Types, WorkerPlaced, JobInHand, Next, NEW d \in Docs, NEW op,
           NEW j \in OpenJobs(jobs, d, op), docs'[d].status = "ACTIVE"
    PROVE  \/ j \in OpenJobs(jobs', d, op)
           \/ j = w.job /\ CompleteJob
           \/ j = w.job /\ RetryJob /\ jobs'[j].status = "ERROR"
<1>0. /\ j \in JobIds /\ jobs[j] \in SyncJob /\ JobMove(j)
      /\ jobs[j].doc = d /\ jobs[j].op = op /\ jobs[j].status \in OpenStatuses
    BY JobMoves DEF OpenJobs, Types, CloudTypeOK
<1>1. ASSUME NEW status \in OpenStatuses, jobs'[j] = [jobs[j] EXCEPT !.status = status]
      PROVE  j \in OpenJobs(jobs', d, op)
    BY <1>0, <1>1 DEF OpenJobs, SyncJob
<1>2. CASE jobs'[j] = jobs[j]
    BY <1>0, <1>2 DEF OpenJobs
<1>3. ~PermanentlyDelete(jobs[j].doc)
  <2>1. PermanentlyDelete(d) => docs'[d].status = "DELETED"
    BY DEF PermanentlyDelete, Types, CloudTypeOK
  <2> QED
    BY <1>0, <2>1
<1>4. CASE jobs'[j] = [jobs[j] EXCEPT !.status = "RUNNING", !.attempts = @ + 1]
    BY <1>0, <1>4 DEF OpenJobs, SyncJob, OpenStatuses
<1>5. CASE w.pc = "read" /\ docs[w.doc].status # "ACTIVE" /\ w.job = j /\ w' = Failing
  <2>1. w.doc = d /\ w' # w
    BY <1>0, <1>5 DEF JobInHand, JobSteps, Failing, IdleWorker
  <2> QED
    BY <1>5, <2>1, StatusMoves
<1>6. CASE /\ w.pc = "retry" /\ RetryJob /\ w.job = j
           /\ jobs'[j] = [jobs[j] EXCEPT !.status = IF jobs[j].attempts >= MaxAttempts
                                                    THEN "ERROR" ELSE "RETRY"]
  <2>1. CASE jobs[j].attempts >= MaxAttempts
    <3>1. jobs'[j] = [jobs[j] EXCEPT !.status = "ERROR"]
      BY <1>6, <2>1
    <3>2. jobs'[j].status = "ERROR"
      BY <1>0, <3>1 DEF SyncJob
    <3> QED
      BY <1>6, <3>2
  <2>2. CASE ~(jobs[j].attempts >= MaxAttempts)
    <3>1. jobs'[j] = [jobs[j] EXCEPT !.status = "RETRY"]
      BY <1>6, <2>2
    <3> QED
      BY <1>1, <3>1 DEF OpenStatuses
  <2> QED
    BY <2>1, <2>2
<1>7. CASE jobs'[j] = [jobs[j] EXCEPT !.status = "RETRY"]
    BY <1>1, <1>7 DEF OpenStatuses
<1> QED
    BY <1>0, <1>2, <1>3, <1>4, <1>5, <1>6, <1>7 DEF JobMove, OpenStatuses

\* An edit that nothing is missed of has a job to stand for it, and the worker is
\* not at that work already.
Told(d, op) ==
    LET kind == IF docs[d].remote = NoItem THEN "UPLOAD" ELSE op
    IN /\ \E j \in OpenJobs(jobs', d, kind) : j # w.job \/ w.pc = "read"
       /\ ~(w.pc \in AfterRead /\ w.doc = d /\ Op = kind)

\* Every edit that misses nothing is told.
LEMMA EditTold ==
    ASSUME Types, WorkerPlaced, JobInHand, JobsPlaced, NEW d \in Docs, NEW op, NEW edited,
           docs[d].status = "ACTIVE", edited[d].remote = docs[d].remote,
           EnqueueEdit(d, op, edited), d \notin missed'
    PROVE  Told(d, op)
<1> DEFINE kind == IF docs[d].remote = NoItem THEN "UPLOAD" ELSE op
<1>1. /\ Available /\ jobs' \in Enqueue(jobs, d, kind, SyncMode)
      /\ ~(w.job \in OpenJobs(jobs, d, kind) /\ w.pc # "read")
    BY DEF EnqueueEdit
<1> HIDE DEF kind
<1>2. \E j \in OpenJobs(jobs', d, kind) : j # w.job \/ w.pc = "read"
  <2>1. CASE OpenJobs(jobs, d, kind) # {} /\ jobs' = jobs
    BY <1>1, <2>1
  <2>2. CASE \E j \in JobIds :
                 /\ jobs[j].status = "NONE"
                 /\ jobs' = [jobs EXCEPT ![j] = [doc |-> d, op |-> kind, provider |-> SyncMode,
                                                 status |-> "PENDING", attempts |-> 0]]
    <3>1. PICK j \in JobIds :
              /\ jobs[j].status = "NONE"
              /\ jobs' = [jobs EXCEPT ![j] = [doc |-> d, op |-> kind, provider |-> SyncMode,
                                              status |-> "PENDING", attempts |-> 0]]
      BY <2>2
    <3>2. j # w.job
      BY <3>1, InJob DEF JobInHand
    <3>3. j \in OpenJobs(jobs', d, kind)
      <4>1. jobs'[j] = [doc |-> d, op |-> kind, provider |-> SyncMode,
                        status |-> "PENDING", attempts |-> 0]
        BY <3>1 DEF Types, CloudTypeOK
      <4> QED
        BY <4>1 DEF OpenJobs, OpenStatuses
    <3> QED
      BY <3>2, <3>3
  <2> QED
    BY <1>1, <2>1, <2>2, EnqueueLeaves
<1>3. ASSUME w.pc \in AfterRead, w.doc = d, Op = kind PROVE FALSE
  <2>1. /\ w.job \in JobIds /\ jobs[w.job].doc = d /\ jobs[w.job].op = kind
        /\ jobs[w.job].status \in {"RUNNING", "GONE"}
    BY <1>3 DEF WorkerPlaced, JobInHand, JobSteps, Op
  <2>2. jobs[w.job].status = "RUNNING"
    BY <2>1 DEF JobsPlaced
  <2> QED
    BY <1>1, <1>3, <2>1, <2>2 DEF OpenJobs, OpenStatuses, AfterRead
<1> QED
    BY <1>2, <1>3 DEF Told, kind

\* A label of a fresh document changes with an edit that is told, or missed.
LEMMA DocLabels ==
    ASSUME Types, WorkerPlaced, JobInHand, JobsPlaced, NotLocal, Next, NEW d \in Docs,
           NEW op \in Relabels, docs[d].status = "ACTIVE", Clean(d)'
    PROVE  \/ Label(docs'[d], op) = Label(docs[d], op)
           \/ w' = w /\ docs'[d].remote = docs[d].remote /\ Told(d, op)
<1>0. docs[d] \in Document /\ DocMove(d) /\ docs \in [Docs -> Document]
    BY DocMoves DEF Types, CloudTypeOK
<1>1. CASE w' # w
  <2>1. /\ ~ImportDocument(d) /\ ~ImportMark(d) /\ ~OpenWrite /\ ~PermanentlyDelete(d)
        /\ \A n \in Names : ~RenameDocument(d, n)
        /\ \A p \in Places : ~MoveDocument(d, p)
    BY <1>1, Where
  <2> QED
    BY <1>0, <2>1 DEF DocMove, Columns, Document, Label
<1>2. CASE w' = w
  <2>1. Fresh(d)' /\ d \notin missed'
    BY DEF Clean, Fresh
  <2>2. Undisturbed(d) /\ docs'[d].remote = docs[d].remote
    BY <1>2, <2>1, Undisturbing
  <2>3. ASSUME NEW n \in Names, RenameDocument(d, n), Edited(d, [docs[d] EXCEPT !.name = n])
        PROVE  \/ Label(docs'[d], op) = Label(docs[d], op)
               \/ Told(d, op)
    <3>1. EnqueueEdit(d, "RENAME", [docs EXCEPT ![d].name = n])
      BY <2>3 DEF RenameDocument
    <3>2. [docs EXCEPT ![d].name = n][d].remote = docs[d].remote
      BY <1>0
    <3>3. Told(d, "RENAME")
      BY <2>1, <3>1, <3>2, EditTold
    <3>4. docs'[d].place = docs[d].place
      BY <1>0, <2>3 DEF Edited, Document
    <3> QED
      BY <3>3, <3>4 DEF Label, Relabels
  <2>4. ASSUME NEW p \in Places, MoveDocument(d, p), Edited(d, [docs[d] EXCEPT !.place = p])
        PROVE  \/ Label(docs'[d], op) = Label(docs[d], op)
               \/ Told(d, op)
    <3>1. EnqueueEdit(d, "MOVE", [docs EXCEPT ![d].place = p])
      BY <2>4 DEF MoveDocument
    <3>2. [docs EXCEPT ![d].place = p][d].remote = docs[d].remote
      BY <1>0
    <3>3. Told(d, "MOVE")
      BY <2>1, <3>1, <3>2, EditTold
    <3>4. docs'[d].name = docs[d].name
      BY <1>0, <2>4 DEF Edited, Document
    <3> QED
      BY <3>3, <3>4 DEF Label, Relabels
  <2>5. CASE docs'[d] = docs[d] \/ \E state : docs'[d] = [docs[d] EXCEPT !.cloud = state]
    BY <1>0, <2>5 DEF Label, Document
  <2> QED
    BY <1>2, <2>2, <2>3, <2>4, <2>5 DEF Undisturbed
<1> QED
    BY <1>1, <1>2

\* A job that will still relabel a document goes on doing so, unless it just has.
LEMMA AwaitedStays ==
    ASSUME Types, WorkerPlaced, JobInHand, Next, NEW d \in Docs, NEW op \in Relabels,
           Clean(d)', Awaited(d, op),
           ~(w.pc = "relabel" /\ w'.pc = "record" /\ w.doc = d /\ Op = op)
    PROVE  Awaited(d, op)'
<1> USE DEF AfterRead, JobSteps
<1>1. PICK j \in OpenJobs(jobs, d, op) : ~(j = w.job /\ w.pc \in {"record", "complete"})
    BY DEF Awaited
<1>2. docs'[d].status = "ACTIVE" /\ d \notin missed'
    BY DEF Clean, Fresh
<1>3. j \in JobIds /\ jobs[j].doc = d /\ jobs[j].op = op
    BY DEF OpenJobs
<1>4. j \in OpenJobs(jobs', d, op)
  <2>1. ~(j = w.job /\ CompleteJob)
    BY <1>1 DEF CompleteJob
  <2>2. ASSUME j = w.job, RetryJob, jobs'[j].status = "ERROR" PROVE FALSE
    <3>1. Op # "UPLOAD" /\ w.doc = d
      BY <1>3, <2>2 DEF Op, Relabels, RetryJob, JobInHand
    <3> QED
      BY <1>2, <2>2, <3>1 DEF RetryJob
  <2> QED
    BY <1>2, <2>1, <2>2, OpenStays
<1>5. ASSUME j = w'.job, w'.pc \in {"record", "complete"} PROVE FALSE
  <2>1. w' # w
    BY <1>1, <1>5
  <2>2. HandStep
    BY <1>5, <2>1, StepsOfWorker DEF WorkerStep, SyncStep, RestSteps
  <2>3. j = w.job /\ w.pc \in {"upload", "relabel", "record"}
    BY <1>5, <2>2 DEF HandStep
  <2>4. w.doc = d /\ Op = op
    BY <1>3, <2>3 DEF JobInHand, Op
  <2>5. w.pc # "upload" /\ w.pc # "record"
    BY <1>1, <2>3, <2>4 DEF JobInHand, Relabels
  <2>6. w'.pc = "record"
    BY <1>5, <2>2, <2>3, <2>5 DEF HandStep
  <2> QED
    BY <2>3, <2>4, <2>5, <2>6
<1> QED
    BY <1>4, <1>5 DEF Awaited

\* Jobs that are not in the worker's hands stay open, and are awaited.
LEMMA OthersStay ==
    ASSUME Types, WorkerPlaced, JobInHand, Next, NEW d \in Docs, NEW op,
           docs'[d].status = "ACTIVE", Others(d, op), w.pc \in JobSteps
    PROVE  /\ w'.job = w.job => Others(d, op)'
           /\ Awaited(d, op)'
<1>1. PICK j \in OpenJobs(jobs, d, op) : j # w.job
    BY DEF Others
<1>2. j \in OpenJobs(jobs', d, op)
    BY <1>1, OpenStays
<1>3. w'.pc \in {"record", "complete"} => w'.job = w.job
  <2>1. w' = w \/ HandStep \/ w'.pc \notin {"record", "complete"}
    BY StepsOfWorker DEF WorkerStep, SyncStep, RestSteps
  <2> QED
    BY <2>1 DEF HandStep
<1> QED
    BY <1>1, <1>2, <1>3 DEF Others, Awaited

\* An open job outside the worker's jobs is awaited after a step of a synchronization.
LEMMA OpenAwaited ==
    ASSUME Types, WorkerPlaced, JobInHand, Next, NEW d \in Docs, NEW op,
           docs'[d].status = "ACTIVE", OpenJobs(jobs, d, op) # {},
           w.pc \in {"reconcile", "confirm"}
    PROVE  OpenJobs(jobs', d, op) # {} /\ Awaited(d, op)'
<1>1. PICK j \in OpenJobs(jobs, d, op) : TRUE
    OBVIOUS
<1>2. ~CompleteJob /\ ~RetryJob
    BY DEF CompleteJob, RetryJob
<1>3. j \in OpenJobs(jobs', d, op)
    BY <1>1, <1>2, OpenStays
<1>4. w'.pc \notin {"record", "complete"}
    BY StepsOfWorker DEF WorkerStep, SyncStep, HandStep, RestSteps
<1> QED
    BY <1>3, <1>4 DEF Awaited

\* Where an item's label comes from.
LEMMA ItemLabels ==
    ASSUME Types, WorkerPlaced, Next, NEW i \in Items, items[i].state # "none",
           NEW op \in Relabels
    PROVE  \/ Label(items'[i], op) = Label(items[i], op)
           \/ \E e \in w.todo : /\ ReconcileItem(e) /\ i = w.seen[e].remote
                                /\ Label(items'[i], op) = Label(w.seen[e], op)
           \/ /\ UploadExisting \/ Relabel
              /\ i = Row.remote /\ Label(items'[i], op) = Label(Row, op)
<1>1. items[i] \in Item /\ ItemMove(i)
    BY ItemMoves DEF Types, CloudTypeOK
<1>2. ASSUME NEW e \in w.todo, ReconcileItem(e), i = w.seen[e].remote,
             items'[i] = [items[i] EXCEPT !.name = w.seen[e].name, !.place = w.seen[e].place]
      PROVE  Label(items'[i], op) = Label(w.seen[e], op)
    BY <1>1, <1>2 DEF Item, Label, Relabels
<1>3. ASSUME items'[i] = [items[i] EXCEPT !.name = Row.name]
      PROVE  Label(items'[i], op) \in {Label(items[i], op), Label(Row, op)}
    BY <1>1, <1>3 DEF Item, Label, Relabels
<1>4. ASSUME items'[i] = [items[i] EXCEPT !.place = Row.place]
      PROVE  Label(items'[i], op) \in {Label(items[i], op), Label(Row, op)}
    BY <1>1, <1>4 DEF Item, Label, Relabels
<1>5. ASSUME NEW state, items'[i] = [items[i] EXCEPT !.state = state]
      PROVE  Label(items'[i], op) = Label(items[i], op)
    BY <1>1, <1>5 DEF Item, Label
<1> QED
    BY <1>1, <1>2, <1>3, <1>4, <1>5 DEF ItemMove

\* What the provider has done for certain when it has answered.
LEMMA Labelled ==
    ASSUME Types, WorkerPlaced
    PROVE  /\ Relabel /\ w'.pc = "record" /\ Op \in Relabels =>
                  /\ Row.remote \in Items
                  /\ Label(items'[Row.remote], Op) = Label(Row, Op)
           /\ \A e \in Docs, op \in Relabels :
                  ReconcileItem(e) /\ w'.found = TRUE =>
                      Label(items'[w.seen[e].remote], op) = Label(w.seen[e], op)
<1>0. w \in Memory /\ items \in [Items -> Item]
    BY DEF Types, CloudTypeOK
<1>1. ASSUME Relabel, w'.pc = "record", Op \in Relabels
      PROVE  Row.remote \in Items /\ Label(items'[Row.remote], Op) = Label(Row, Op)
  <2>1. Found(w.account, Row.remote)
    BY <1>0, <1>1 DEF Relabel, Memory
  <2>2. Row.remote \in Items
    BY <2>1 DEF Found, Ids
  <2>3. items' = IF Op = "RENAME" THEN [items EXCEPT ![Row.remote].name = Row.name]
                                  ELSE [items EXCEPT ![Row.remote].place = Row.place]
    BY <1>1, <2>1 DEF Relabel
  <2>4. items[Row.remote] \in Item
    BY <1>0, <2>2
  <2>5. CASE Op = "RENAME"
    <3>1. items'[Row.remote] = [items[Row.remote] EXCEPT !.name = Row.name]
      BY <1>0, <2>2, <2>3, <2>5
    <3> QED
      BY <2>2, <2>4, <2>5, <3>1 DEF Label, Item
  <2>6. CASE Op # "RENAME"
    <3>1. items'[Row.remote] = [items[Row.remote] EXCEPT !.place = Row.place]
      BY <1>0, <2>2, <2>3, <2>6
    <3> QED
      BY <2>2, <2>4, <2>6, <3>1 DEF Label, Item
  <2> QED
    BY <2>5, <2>6
<1>2. ASSUME NEW e \in Docs, NEW op \in Relabels, ReconcileItem(e), w'.found = TRUE
      PROVE  Label(items'[w.seen[e].remote], op) = Label(w.seen[e], op)
  <2> DEFINE i == w.seen[e].remote
  <2>1. Found(w.account, i)
    BY <1>0, <1>2 DEF ReconcileItem, Memory
  <2>2. i \in Items /\ items' = Relabelled(i, w.seen[e])
    BY <1>2, <2>1 DEF ReconcileItem, Found, Ids
  <2>3. items'[i] = [items[i] EXCEPT !.name = w.seen[e].name, !.place = w.seen[e].place]
    BY <1>0, <2>2 DEF Relabelled
  <2>4. items[i] \in Item
    BY <1>0, <2>2
  <2> QED
    BY <2>3, <2>4 DEF Label, Item
<1> QED
    BY <1>1, <1>2

\* The items a document has in use are its own.
LEMMA InUseOwned ==
    ASSUME Types, WorkerPlaced, Owned, NEW d \in Docs, NEW i \in InUse(d)
    PROVE  i \in Items /\ items[i].state # "none" /\ items[i].doc = d
<1>1. /\ docs[d].remote \in Items \cup {NoItem} /\ w.item \in Items \cup {NoItem}
      /\ w.pc \in AfterRead => /\ Row.remote \in Items \cup {NoItem}
                               /\ w.doc \in DOMAIN w.seen /\ Row = w.seen[w.doc]
    BY RowsTyped DEF Types, CloudTypeOK, Document, Row, WorkerPlaced
<1> QED
    BY <1>1 DEF InUse, Owned, ItemOf

\* A fresh document comes to have an item in use by an upload only.
LEMMA InUseMoves ==
    ASSUME Types, WorkerPlaced, JobInHand, JobsPlaced, Owned, NotLocal, RemoteFollows, Next,
           NEW d \in Docs, docs[d].status = "ACTIVE", Fresh(d)', NEW i \in InUse(d)'
    PROVE  \/ i \in InUse(d)
           \/ UploadNew /\ w.pc = "upload" /\ w.doc = d /\ i \in Items /\ items[i].state = "none"
<1> USE DEF AfterRead, JobSteps
<1>0. /\ WorkerPlaced' /\ WorkerStep /\ RemoteMove(d) /\ Fresh(d) /\ i # NoItem
    BY WorkerKept, StepsOfWorker, RemoteMoves, FreshMoves DEF InUse
<1>1. CASE i = docs'[d].remote
  <2>1. CASE w' = w
    BY <1>0, <1>1, <2>1, Undisturbing DEF InUse
  <2>2. CASE ReconcileWrite /\ d = w.doc /\ docs'[d].remote = w.seen[d].remote
    <3>1. docs[d].remote = w.seen[d].remote
      BY <1>0, <2>2, Where DEF RemoteFollows
    <3> QED
      BY <1>0, <1>1, <2>2, <3>1 DEF InUse
  <2>3. CASE Record /\ d = w.doc /\ docs'[d].remote = w.item
    BY <1>0, <1>1, <2>3, Where DEF InUse
  <2>4. CASE RecordError /\ d = w.doc /\ docs'[d].remote = Row.remote
    BY <1>0, <1>1, <2>4, Where DEF InUse
  <2>5. CASE docs'[d].remote = docs[d].remote
    BY <1>0, <1>1, <2>5 DEF InUse
  <2> QED
    BY <1>0, <1>1, <2>1, <2>2, <2>3, <2>4, <2>5, Where DEF RemoteMove
<1>2. CASE w'.pc \in AfterRead /\ w'.doc = d /\ i \in {Row'.remote, w'.item}
  <2>1. CASE w' = w
    BY <1>0, <1>2, <2>1 DEF InUse, Row
  <2>2. CASE w' # w /\ w'.pc = "check"
    <3>1. w'.doc = w.doc /\ Row'.remote = docs[d].remote /\ w'.item = NoItem
      BY <1>0, <1>2, <2>2 DEF WorkerStep, SyncStep, HandStep, RestSteps, Row, WorkerPlaced
    <3> QED
      BY <1>0, <1>2, <3>1 DEF InUse
  <2>3. CASE w' # w /\ w'.pc # "check"
    <3>1. HandStep
      BY <1>0, <1>2, <2>3 DEF WorkerStep, SyncStep, RestSteps
    <3>2. w.pc \in AfterRead /\ w.doc = d /\ Row' = Row
      BY <1>2, <3>1 DEF HandStep, Row
    <3>3. CASE UploadNew /\ w.pc = "upload" /\ w'.item \in NewItem
      BY <1>0, <1>2, <3>2, <3>3 DEF InUse, NewItem
    <3>4. CASE w'.item \in {w.item, Row.remote, NoItem}
      BY <1>0, <1>2, <3>2, <3>4 DEF InUse
    <3> QED
      BY <3>1, <3>3, <3>4 DEF HandStep
  <2> QED
    BY <2>1, <2>2, <2>3
<1> QED
    BY <1>1, <1>2 DEF InUse

\* A document that is clean after a step was, unless a reconciliation has just
\* mended it, or it was not there.
LEMMA CleanMoves ==
    ASSUME Types, WorkerPlaced, JobInHand, Next, NEW d \in Docs, Clean(d)'
    PROVE  \/ Clean(d)
           \/ Fresh(d) /\ d \in missed /\ ReconcileWrite /\ d = w.doc
           \/ docs[d].status = "NONE" /\ w' = w
<1>1. Fresh(d)' /\ d \notin missed'
    BY DEF Clean, Fresh
<1>2. d \in missed => ReconcileWrite /\ d = w.doc
    BY <1>1, RestMoves DEF RestMove
<1> QED
    BY <1>1, <1>2, FreshMoves DEF Clean

\* The items a clean document has in use have its labels, or a job will give them.
LEMMA ItemsFollow ==
    ASSUME Types, WorkerPlaced, JobInHand, JobsPlaced, Owned, NotLocal, RemoteFollows,
           Labels, Next, NEW d \in Docs, Clean(d)', NEW i \in InUse(d)',
           NEW op \in Relabels, Label(items'[i], op) # Label(docs'[d], op)
    PROVE  Awaited(d, op)'
<1> USE DEF AfterRead, JobSteps
<1>0. /\ w \in Memory /\ docs[d] \in Document /\ DocMove(d) /\ WorkerStep
      /\ Types' /\ WorkerPlaced' /\ Owned' /\ i # NoItem /\ NoItem \notin Items
      /\ Fresh(d)' /\ docs'[d].status = "ACTIVE" /\ d \notin missed'
  <2>1. docs'[d].status = "ACTIVE" /\ d \notin missed' /\ Fresh(d)'
    BY DEF Clean, Fresh
  <2>2. i # NoItem
    BY DEF InUse
  <2> QED
    BY <2>1, <2>2, DocMoves, StepsOfWorker, TypesKept, WorkerKept, OwnedKept, NoneAssumption
    DEF Types, CloudTypeOK
<1>1. w.pc \in AfterRead => w.doc \in Docs /\ docs[w.doc].status # "NONE"
    BY <1>0 DEF WorkerPlaced, JobInHand, JobsPlaced
<1>2. docs[d].status # "NONE"
  <2> SUFFICES ASSUME docs[d].status = "NONE" PROVE FALSE
    OBVIOUS
  <2>1. w' = w /\ docs[d].remote = NoItem
    BY <1>0, FreshMoves DEF Fresh, NotLocal
  <2>2. docs'[d].remote = NoItem
    BY <1>0, <2>1, Where DEF DocMove, Edited, Columns, Document
  <2>3. w.pc \in AfterRead /\ w.doc = d
    BY <1>0, <2>1, <2>2 DEF InUse
  <2> QED
    BY <1>1, <2>3
<1>3. docs[d].status = "ACTIVE" /\ Fresh(d)
    BY <1>0, <1>2, FreshMoves DEF Fresh
<1>4. i \in Items /\ items'[i].state # "none" /\ items'[i].doc = d
  <2>1. w' \in Memory /\ docs' \in [Docs -> Document]
    BY <1>0 DEF Types, CloudTypeOK
  <2>2. CASE i = docs'[d].remote
    BY <1>0, <2>1, <2>2 DEF Owned, ItemOf, Document
  <2>3. CASE w'.pc \in AfterRead /\ w'.doc = d /\ i = Row'.remote
    <3>1. d \in DOMAIN w'.seen /\ i = w'.seen[d].remote
      BY <1>0, <2>3 DEF WorkerPlaced, Row
    <3>2. w'.seen[d] \in Document
      BY <2>1, <3>1 DEF Memory
    <3> QED
      BY <1>0, <3>1, <3>2 DEF Owned, ItemOf, Document
  <2>4. CASE w'.pc \in AfterRead /\ w'.doc = d /\ i = w'.item
    BY <1>0, <2>1, <2>4 DEF Owned, ItemOf, Memory
  <2> QED
    BY <2>2, <2>3, <2>4 DEF InUse
<1>5. CASE d \in missed
  <2>1. ReconcileWrite /\ d = w.doc /\ w.pc = "confirm" /\ w'.pc = "reconcile"
    BY <1>3, <1>5, CleanMoves, Where DEF Clean
  <2>2. /\ w.found = TRUE /\ docs[d].name = w.seen[d].name /\ docs[d].place = w.seen[d].place
        /\ items' = items
    BY <1>0, <1>5, <2>1 DEF ReconcileWrite, Memory
  <2>3. /\ docs'[d].name = docs[d].name /\ docs'[d].place = docs[d].place
        /\ docs'[d].remote = w.seen[d].remote
    BY <1>0, <1>3, <2>1, Writes DEF Columns, Document
  <2>4. i = w.seen[d].remote
    BY <1>0, <2>1, <2>3 DEF InUse
  <2>5. Label(items[i], op) = Label(w.seen[d], op)
    BY <2>1, <2>2, <2>4 DEF Labels
  <2>6. Label(w.seen[d], op) = Label(docs'[d], op)
    BY <2>2, <2>3 DEF Label
  <2> QED
    BY <2>2, <2>5, <2>6
<1>6. CASE d \notin missed
  <2>0. Clean(d)
    BY <1>3, <1>6 DEF Clean
  <2>1. \/ Label(docs'[d], op) = Label(docs[d], op)
        \/ w' = w /\ docs'[d].remote = docs[d].remote /\ Told(d, op)
    BY <1>3, DocLabels
  <2>2. ASSUME UploadNew, w.pc = "upload", w.doc = d, items[i].state = "none"
        PROVE  Awaited(d, op)'
    <3>1. Label(items'[i], op) = Label(Row, op)
      BY <1>4, <2>2, ItemsStay
    <3>2. Label(docs'[d], op) = Label(docs[d], op)
      BY <2>1, <2>2, Where
    <3>3. Others(d, op)
      BY <2>0, <2>2, <3>1, <3>2 DEF Labels, JobInHand
    <3> QED
      BY <1>0, <2>2, <3>3, OthersStay
  <2>3. ASSUME i \in InUse(d), w' = w, Told(d, op) PROVE Awaited(d, op)'
    <3>1. CASE docs[d].remote = NoItem
      <4>1. w.pc \in AfterRead /\ w.doc = d /\ i \in {Row.remote, w.item}
        BY <1>0, <2>3, <3>1 DEF InUse
      <4>2. Op # "UPLOAD"
        BY <2>3, <3>1, <4>1 DEF Told
      <4>3. Row.remote = NoItem
        BY <1>3, <3>1, <4>1, <4>2 DEF RemoteFollows
      <4> QED
        BY <1>0, <4>1, <4>2, <4>3 DEF WorkerPlaced, JobInHand
    <3>2. CASE docs[d].remote # NoItem
      BY <2>3, <3>2 DEF Told, Awaited
    <3> QED
      BY <3>1, <3>2
  <2>4. ASSUME i \in InUse(d), Label(docs'[d], op) = Label(docs[d], op)
        PROVE  Awaited(d, op)'
    <3>0. items[i].state # "none" /\ items[i].doc = d
      BY <2>4, InUseOwned
    <3>1. CASE Label(items'[i], op) = Label(items[i], op)
      <4>1. Awaited(d, op)
        BY <2>0, <2>4, <3>1 DEF Labels
      <4>2. ASSUME w.pc = "relabel", w'.pc = "record", w.doc = d, Op = op
            PROVE  Awaited(d, op)'
        <5>1. Relabel
          BY <1>0, <4>2 DEF WorkerStep, SyncStep, HandStep, RestSteps
        <5>2. Label(items'[Row.remote], op) = Label(Row, op)
          BY <4>2, <5>1, Labelled
        <5>3. w.item = NoItem
          BY <4>2 DEF WorkerPlaced
        <5>4. docs[d].remote = Row.remote
          BY <1>3, <4>2 DEF RemoteFollows, Relabels
        <5>5. i = Row.remote
          BY <1>0, <2>4, <4>2, <5>3, <5>4 DEF InUse
        <5>6. Others(d, op)
          BY <1>0, <2>0, <2>4, <4>2, <5>2, <5>5 DEF Labels
        <5> QED
          BY <1>0, <4>2, <5>6, OthersStay
      <4> QED
        BY <4>1, <4>2, AwaitedStays
    <3>2. ASSUME NEW e \in w.todo, ReconcileItem(e), i = w.seen[e].remote,
                 Label(items'[i], op) = Label(w.seen[e], op)
          PROVE  Awaited(d, op)'
      <4>1. w.pc = "reconcile"
        BY <3>2 DEF ReconcileItem
      <4>2. e = d
        BY <1>0, <3>0, <3>2, <4>1 DEF WorkerPlaced, Owned, ItemOf
      <4>3. OpenJobs(jobs, d, op) # {}
        BY <2>0, <2>4, <3>2, <4>1, <4>2 DEF Labels
      <4> QED
        BY <1>0, <4>1, <4>3, OpenAwaited
    <3>3. ASSUME UploadExisting \/ Relabel, i = Row.remote,
                 Label(items'[i], op) = Label(Row, op)
          PROVE  Awaited(d, op)'
      <4>1. w.pc \in {"upload", "relabel"}
        BY <3>3, Where
      <4>2. w.doc = d
        BY <1>0, <3>0, <3>3, <4>1 DEF WorkerPlaced, Owned, ItemOf, Row
      <4>3. Others(d, op)
        BY <1>0, <2>0, <2>4, <3>3, <4>1, <4>2 DEF Labels
      <4> QED
        BY <1>0, <4>1, <4>3, OthersStay
    <3> QED
      BY <1>4, <3>0, <3>1, <3>2, <3>3, ItemLabels
  <2> QED
    BY <1>0, <1>3, <2>1, <2>2, <2>3, <2>4, InUseMoves
<1> QED
    BY <1>5, <1>6

\* The row a transfer carries has the document's labels, or another job will give them.
LEMMA RowFollows ==
    ASSUME Types, WorkerPlaced, JobInHand, JobsPlaced, Owned, NotLocal, RemoteFollows,
           Labels, Next, w'.pc \in {"check", "transfer", "upload", "relabel", "record"},
           Clean(w.doc)', Row'.remote # NoItem \/ Op' = "UPLOAD",
           NEW op \in Relabels, Label(Row, op)' # Label(docs[w.doc], op)'
    PROVE  Others(w.doc, op)'
<1> USE DEF AfterRead, JobSteps
<1>0. /\ w \in Memory /\ WorkerStep /\ WorkerPlaced' /\ docs \in [Docs -> Document]
      /\ w'.pc \in JobSteps
    BY StepsOfWorker, WorkerKept DEF Types, CloudTypeOK
<1>1. w.pc \in JobSteps =>
          w.doc \in Docs /\ docs[w.doc].status # "NONE" /\ jobs[w.job].status # "NONE"
    BY <1>0 DEF WorkerPlaced, JobInHand, JobsPlaced
<1>2. CASE w' = w
  <2>1. w.doc \in Docs /\ Clean(w.doc) /\ docs[w.doc].status = "ACTIVE"
    <3>1. w.doc \in Docs /\ docs[w.doc].status # "NONE"
      BY <1>0, <1>1, <1>2
    <3>2. Clean(w.doc)
      BY <1>2, <3>1, CleanMoves, Where
    <3> QED
      BY <3>1, <3>2 DEF Clean, Fresh
  <2>2. Op' = Op /\ Row' = Row
    BY <1>0, <1>1, <1>2, JobsKept DEF Op, Row, SameJob, WorkerPlaced
  <2>3. \/ Label(docs'[w.doc], op) = Label(docs[w.doc], op)
        \/ docs'[w.doc].remote = docs[w.doc].remote /\ Told(w.doc, op)
    <3>1. PICK d \in Docs : d = w.doc /\ docs[d].status = "ACTIVE"
      BY <2>1
    <3>2. Clean(d)'
      BY <1>2, <3>1 DEF Clean, Fresh
    <3>3. \/ Label(docs'[d], op) = Label(docs[d], op)
          \/ docs'[d].remote = docs[d].remote /\ Told(d, op)
      BY <3>1, <3>2, DocLabels
    <3> QED
      BY <3>1, <3>2, <3>3
  <2>4. CASE Label(docs'[w.doc], op) = Label(docs[w.doc], op)
    <3>1. Others(w.doc, op)
      BY <1>2, <2>1, <2>2, <2>4 DEF Labels
    <3>2. docs'[w.doc].status = "ACTIVE" /\ w.pc \in JobSteps
      BY <1>0, <1>2 DEF Clean, Fresh
    <3>3. \A d \in Docs : docs'[d].status = "ACTIVE" /\ Others(d, op) => Others(d, op)'
      BY <1>2, <3>2, OthersStay
    <3> QED
      BY <1>2, <2>1, <3>1, <3>2, <3>3
  <2>5. CASE docs'[w.doc].remote = docs[w.doc].remote /\ Told(w.doc, op)
    <3>1. CASE docs[w.doc].remote = NoItem
      <4>1. Op # "UPLOAD"
        BY <1>2, <2>5, <3>1 DEF Told
      <4>2. Row.remote = NoItem
        BY <1>2, <2>1, <3>1, <4>1 DEF RemoteFollows, Clean
      <4> QED
        BY <2>2, <4>1, <4>2
    <3>2. CASE docs[w.doc].remote # NoItem
      BY <1>2, <2>5, <3>2 DEF Told, Others
    <3> QED
      BY <3>1, <3>2
  <2> QED
    BY <2>3, <2>4, <2>5
<1>3. CASE w' # w
  <2>1. /\ w'.doc = w.doc /\ w.pc \in JobSteps /\ w.doc \in Docs
        /\ \/ w.pc = "read" /\ w'.pc = "check" /\ docs[w.doc].status = "ACTIVE"
              /\ w'.seen = [d \in {w.doc} |-> docs[d]]
           \/ HandStep /\ w.pc # "read"
    BY <1>0, <1>1, <1>3 DEF WorkerStep, SyncStep, HandStep, RestSteps
  <2>2. docs[w.doc].status # "NONE" /\ w'.pc # "reconcile"
    BY <1>1, <2>1
  <2>3. /\ docs'[w.doc].status = "ACTIVE" /\ w.doc \notin overtaken' /\ w.doc \notin missed'
    BY <2>1 DEF Clean, Fresh
  <2>4. PICK d \in Docs : d = w.doc /\ docs[d].status # "NONE"
    BY <2>1, <2>2
  <2>5. /\ docs'[d].status = "ACTIVE" /\ d \notin overtaken' /\ d \notin missed'
        /\ ~ReconcileWrite
    BY <2>2, <2>3, <2>4, Where
  <2>6. Clean(d)'
    BY <2>5 DEF Clean, Fresh
  <2>7. Clean(d) /\ docs[d].status = "ACTIVE"
    BY <2>4, <2>5, <2>6, CleanMoves DEF Clean, Fresh
  <2>8. Label(docs'[d], op) = Label(docs[d], op)
    BY <1>3, <2>4, <2>6, <2>7, DocLabels
  <2>9. CASE w.pc = "read"
    <3>1. Row' = docs[d]
      BY <2>1, <2>4, <2>9 DEF Row
    <3> QED
      BY <2>1, <2>4, <2>8, <3>1 DEF Label
  <2>10. CASE HandStep /\ w.pc # "read"
    <3>1. /\ w.pc \in {"check", "transfer", "upload", "relabel", "record"}
          /\ Row' = Row /\ w'.job = w.job /\ w'.doc = d
      BY <1>0, <2>4, <2>10 DEF HandStep, Row
    <3>2. Op' = Op
      BY <1>0, <1>1, <2>1, <3>1, JobsKept DEF Op, SameJob, WorkerPlaced
    <3>3. Label(Row, op) # Label(docs[d], op)
      BY <2>4, <2>8, <3>1 DEF Label
    <3>4. Others(d, op)
      BY <2>4, <2>7, <3>1, <3>2, <3>3 DEF Labels
    <3>5. Others(d, op)'
      BY <2>1, <2>4, <2>5, <3>1, <3>4, OthersStay
    <3> QED
      BY <3>1, <3>5 DEF Others
  <2> QED
    BY <2>1, <2>9, <2>10
<1> QED
    BY <1>2, <1>3

\* The rows a reconciliation is to write have the documents' labels, or a job will
\* give them.
LEMMA SeenFollows ==
    ASSUME Types, WorkerPlaced, JobInHand, JobsPlaced, Owned, NotLocal, RemoteFollows,
           Labels, Next, w'.pc \in {"reconcile", "confirm"}, NEW d \in w'.todo,
           Clean(d)', NEW op \in Relabels, Label(w'.seen[d], op) # Label(docs'[d], op)
    PROVE  OpenJobs(jobs', d, op) # {}
<1> USE DEF AfterRead, JobSteps
<1>0. /\ w \in Memory /\ w' \in Memory /\ WorkerStep /\ docs \in [Docs -> Document]
      /\ d \in Docs /\ docs'[d].status = "ACTIVE" /\ d \notin missed'
  <2>1. docs'[d].status = "ACTIVE" /\ d \notin missed'
    BY DEF Clean, Fresh
  <2> QED
    BY <2>1, StepsOfWorker, TypesKept DEF Types, CloudTypeOK, Memory
<1>1. ASSUME Clean(d), w.pc \in {"reconcile", "confirm"}, d \in w.todo, w'.seen = w.seen
      PROVE  OpenJobs(jobs', d, op) # {}
  <2>1. \/ Label(docs'[d], op) = Label(docs[d], op)
        \/ w' = w /\ docs'[d].remote = docs[d].remote /\ Told(d, op)
    BY <1>0, <1>1, DocLabels DEF Clean, Fresh
  <2>2. CASE Label(docs'[d], op) = Label(docs[d], op)
    <3>1. OpenJobs(jobs, d, op) # {}
      BY <1>1, <2>2 DEF Labels
    <3> QED
      BY <1>0, <1>1, <3>1, OpenAwaited
  <2>3. CASE Told(d, op)
    <3>1. docs[d].remote # NoItem
      BY <1>1 DEF RemoteFollows, WorkerPlaced, Clean
    <3> QED
      BY <2>3, <3>1 DEF Told
  <2> QED
    BY <2>1, <2>2, <2>3
<1>2. CASE w' = w
  <2>1. docs[d].status # "NONE"
    <3>1. d \in DOMAIN w.seen /\ w.seen[d].remote # NoItem
      BY <1>2 DEF WorkerPlaced
    <3>2. w.seen[d].remote \in Items
      BY <1>0, <3>1 DEF Memory, Document
    <3> QED
      BY <3>1, <3>2 DEF Owned, ItemOf
  <2>2. Clean(d)
    BY <1>0, <1>2, <2>1, CleanMoves, Where
  <2> QED
    BY <1>1, <1>2, <2>2
<1>3. CASE w' # w
  <2>1. \/ w.pc = "list" /\ w'.todo = Listed /\ w'.seen = [e \in Listed |-> docs[e]]
        \/ w.pc = "reconcile" /\ w'.todo = w.todo /\ w'.seen = w.seen
        \/ w.pc = "confirm" /\ w'.todo = w.todo \ {w.doc} /\ w'.seen = w.seen
    BY <1>0, <1>3 DEF WorkerStep, SyncStep, HandStep, RestSteps
  <2>2. CASE w.pc = "list" /\ w'.todo = Listed /\ w'.seen = [e \in Listed |-> docs[e]]
    <3>1. w'.seen[d] = docs[d] /\ docs[d].status = "ACTIVE"
      BY <2>2 DEF Listed
    <3>2. Label(docs'[d], op) = Label(docs[d], op)
      BY <1>0, <1>3, <3>1, DocLabels
    <3> QED
      BY <3>1, <3>2
  <2>3. CASE \/ w.pc = "reconcile" /\ w'.todo = w.todo /\ w'.seen = w.seen
             \/ w.pc = "confirm" /\ w'.todo = w.todo \ {w.doc} /\ w'.seen = w.seen
    <3>1. Clean(d)
      <4>1. ~(ReconcileWrite /\ d = w.doc)
        BY <2>3, Where
      <4> QED
        BY <1>0, <1>3, <4>1, CleanMoves
    <3> QED
      BY <1>1, <2>3, <3>1
  <2> QED
    BY <2>1, <2>2, <2>3
<1> QED
    BY <1>2, <1>3

\* Where a shown state and the account differ in a label, a job will mend it.
LEMMA LabelsKept ==
    ASSUME Types, WorkerPlaced, JobInHand, JobsPlaced, Owned, NotLocal, RemoteFollows,
           Labels, Next
    PROVE  Labels'
<1>0. w \in Memory /\ WorkerStep /\ Types' /\ docs' \in [Docs -> Document]
    BY StepsOfWorker, TypesKept DEF Types, CloudTypeOK
<1>1. ASSUME NEW d \in Docs, Clean(d)', NEW i \in InUse(d)', NEW op \in Relabels,
             Label(items'[i], op) # Label(docs'[d], op)
      PROVE  Awaited(d, op)'
    BY <1>1, ItemsFollow
<1>2. ASSUME w'.pc \in {"check", "transfer", "upload", "relabel", "record"},
             Clean(w.doc)', Row'.remote # NoItem \/ Op' = "UPLOAD",
             NEW op \in Relabels, Label(Row, op)' # Label(docs[w.doc], op)'
      PROVE  Others(w.doc, op)'
    BY <1>2, RowFollows
<1>3. ASSUME w'.pc \in {"reconcile", "confirm"}, NEW d \in w'.todo, Clean(d)',
             NEW op \in Relabels, Label(w'.seen[d], op) # Label(docs'[d], op)
      PROVE  OpenJobs(jobs', d, op) # {}
    BY <1>3, SeenFollows
<1>4. ASSUME w'.pc = "confirm", w'.found = TRUE, NEW op \in Relabels
      PROVE  Label(items'[w'.seen[w'.doc].remote], op) = Label(w'.seen[w'.doc], op)
  <2>1. CASE w' = w
    <3>1. /\ w.doc \in w.todo /\ w.doc \in DOMAIN w.seen /\ w.seen[w.doc].remote # NoItem
      BY <1>4, <2>1 DEF WorkerPlaced
    <3>2. w.seen[w.doc].remote \in Items
      BY <1>0, <3>1 DEF Memory, Document
    <3>3. PICK i \in Items : i = w.seen[w.doc].remote /\ items[i].state # "none"
      BY <3>1, <3>2 DEF Owned, ItemOf
    <3>4. Label(items'[i], op) = Label(items[i], op)
      <4>1. \A e \in Docs : ~ReconcileItem(e)
        BY <1>4, <2>1, Where
      <4>2. w.todo \subseteq Docs /\ ~UploadExisting /\ ~Relabel
        BY <1>0, <1>4, <2>1, Where DEF Memory
      <4> QED
        BY <3>3, <4>1, <4>2, ItemLabels
    <3>5. Label(items[i], op) = Label(w.seen[w.doc], op)
      BY <1>4, <2>1, <3>3 DEF Labels
    <3> QED
      BY <2>1, <3>3, <3>4, <3>5
  <2>2. CASE w' # w
    <3>1. PICK d \in w.todo : ReconcileItem(d) /\ w'.doc = d /\ w'.seen = w.seen
      BY <1>0, <1>4, <2>2 DEF WorkerStep, SyncStep, HandStep, RestSteps
    <3>2. d \in Docs
      BY <1>0, <3>1 DEF Memory
    <3> QED
      BY <1>4, <3>1, <3>2, Labelled
  <2> QED
    BY <2>1, <2>2
<1> QED
    BY <1>1, <1>2, <1>3, <1>4 DEF Labels

\* How the marks of a clean document change while the worker stands still.
LEMMA MarkMoves ==
    ASSUME Types, WorkerPlaced, JobInHand, JobsPlaced, NotLocal, Next, w' = w,
           NEW d \in Docs, docs[d].status = "ACTIVE", Clean(d)'
    PROVE  \/ docs'[d].cloud = docs[d].cloud
           \/ /\ docs[d].cloud = "LOCAL_ONLY"
              /\ docs'[d].cloud = "PENDING_UPLOAD" => importer'[d].pc = "enqueue"
              /\ docs'[d].cloud \in {"LOCAL_ONLY", "PENDING_UPLOAD"}
           \/ /\ docs'[d].cloud = "PENDING_UPLOAD"
              /\ OpenJobs(jobs', d, "UPLOAD") # {}
              /\ ~(w.pc \in AfterRead /\ w.doc = d /\ Op = "UPLOAD")
<1>0. /\ docs[d] \in Document /\ docs \in [Docs -> Document] /\ Fresh(d)' /\ d \notin missed'
      /\ importer[d] \in [pc : {"idle", "saved", "mark", "enqueue"},
                          provider : Providers \cup {NoProvider}]
      /\ importer \in [Docs -> [pc : {"idle", "saved", "mark", "enqueue"},
                                provider : Providers \cup {NoProvider}]]
    BY DEF Types, CloudTypeOK, Clean, Fresh
<1>1. Undisturbed(d)
    BY <1>0, Undisturbing
<1>2. ASSUME ImportMark(d), docs[d].cloud = "LOCAL_ONLY", NEW state,
             docs'[d] = [docs[d] EXCEPT !.cloud = state],
             state \in {"LOCAL_ONLY", "PENDING_UPLOAD"}
      PROVE  /\ docs'[d].cloud = "PENDING_UPLOAD" => importer'[d].pc = "enqueue"
             /\ docs'[d].cloud \in {"LOCAL_ONLY", "PENDING_UPLOAD"}
  <2>1. docs'[d].cloud = state
    BY <1>0, <1>2 DEF Document
  <2>2. CASE importer[d].provider = NoProvider
    <3>1. docs' = [docs EXCEPT ![d].cloud = "LOCAL_ONLY", ![d].remote = NoItem]
      BY <1>2, <2>2 DEF ImportMark, CloudState
    <3>2. docs'[d].cloud = "LOCAL_ONLY"
      BY <1>0, <3>1 DEF Document
    <3> QED
      BY <3>2
  <2>3. CASE importer[d].provider # NoProvider
    <3>1. importer' = [importer EXCEPT ![d] = [importer[d] EXCEPT !.pc = "enqueue"]]
      BY <1>2, <2>3 DEF ImportMark
    <3>2. importer'[d].pc = "enqueue"
      BY <1>0, <3>1
    <3> QED
      BY <1>2, <2>1, <3>2
  <2> QED
    BY <2>2, <2>3
<1>3. ASSUME NEW n \in Names, RenameDocument(d, n) PROVE Told(d, "RENAME")
  <2>1. EnqueueEdit(d, "RENAME", [docs EXCEPT ![d].name = n])
    BY <1>3 DEF RenameDocument
  <2>2. [docs EXCEPT ![d].name = n][d].remote = docs[d].remote
    BY <1>0
  <2> QED
    BY <1>0, <2>1, <2>2, EditTold
<1>4. ASSUME NEW p \in Places, MoveDocument(d, p) PROVE Told(d, "MOVE")
  <2>1. EnqueueEdit(d, "MOVE", [docs EXCEPT ![d].place = p])
    BY <1>4 DEF MoveDocument
  <2>2. [docs EXCEPT ![d].place = p][d].remote = docs[d].remote
    BY <1>0
  <2> QED
    BY <1>0, <2>1, <2>2, EditTold
<1>5. ASSUME NEW row \in Document, Edited(d, row), row.cloud = docs[d].cloud,
             NEW op, Told(d, op)
      PROVE  \/ docs'[d].cloud = docs[d].cloud
             \/ /\ docs'[d].cloud = "PENDING_UPLOAD"
                /\ OpenJobs(jobs', d, "UPLOAD") # {}
                /\ ~(w.pc \in AfterRead /\ w.doc = d /\ Op = "UPLOAD")
  <2>1. CASE docs'[d] = row
    BY <1>5, <2>1
  <2>2. CASE docs[d].remote = NoItem /\ docs'[d] = [row EXCEPT !.cloud = "PENDING_UPLOAD", !.remote = NoItem]
    <3>1. docs'[d].cloud = "PENDING_UPLOAD"
      BY <1>5, <2>2 DEF Document
    <3> QED
      BY <1>5, <2>2, <3>1 DEF Told
  <2> QED
    BY <1>5, <2>1, <2>2 DEF Edited
<1>6. /\ \A n \in Names : /\ [docs[d] EXCEPT !.name = n] \in Document
                         /\ [docs[d] EXCEPT !.name = n].cloud = docs[d].cloud
      /\ \A p \in Places : /\ [docs[d] EXCEPT !.place = p] \in Document
                          /\ [docs[d] EXCEPT !.place = p].cloud = docs[d].cloud
    BY <1>0 DEF Document
<1>7. CASE \E n \in Names : RenameDocument(d, n) /\ Edited(d, [docs[d] EXCEPT !.name = n])
    BY <1>3, <1>5, <1>6, <1>7
<1>8. CASE \E p \in Places : MoveDocument(d, p) /\ Edited(d, [docs[d] EXCEPT !.place = p])
    BY <1>4, <1>5, <1>6, <1>8
<1> QED
    BY <1>1, <1>2, <1>7, <1>8 DEF Undisturbed

\* An importing thread on its way to the queue gets there, or dies.
LEMMA EnqueueComes ==
    ASSUME Types, Next, NEW d \in Docs, docs[d].status = "ACTIVE", importer[d].pc = "enqueue"
    PROVE  \/ importer'[d].pc = "enqueue"
           \/ OpenJobs(jobs', d, "UPLOAD") # {}
           \/ d \in overtaken'
<1>0. /\ importer \in [Docs -> [pc : {"idle", "saved", "mark", "enqueue"},
                               provider : Providers \cup {NoProvider}]]
      /\ jobs \in [JobIds -> SyncJob]
    BY DEF Types, CloudTypeOK
<1>1. ASSUME NEW e \in Docs,
             ImportDocument(e) \/ ImportReadSettings(e) \/ ImportMark(e)
      PROVE  importer'[d].pc = "enqueue"
  <2>1. e # d
    BY <1>1 DEF ImportDocument, ImportReadSettings, ImportMark
  <2> QED
    BY <1>0, <1>1, <2>1 DEF ImportDocument, ImportReadSettings, ImportMark
<1>2. ASSUME NEW e \in Docs, ImportEnqueue(e), e # d PROVE importer'[d].pc = "enqueue"
    BY <1>0, <1>2 DEF ImportEnqueue
<1>3. ASSUME ImportEnqueue(d) PROVE OpenJobs(jobs', d, "UPLOAD") # {}
  <2>1. jobs' \in Enqueue(jobs, d, "UPLOAD", importer[d].provider)
    BY <1>3 DEF ImportEnqueue
  <2>2. CASE OpenJobs(jobs, d, "UPLOAD") # {} /\ jobs' = jobs
    BY <2>2
  <2>3. ASSUME NEW j \in JobIds,
               jobs' = [jobs EXCEPT ![j] = [doc |-> d, op |-> "UPLOAD",
                                            provider |-> importer[d].provider,
                                            status |-> "PENDING", attempts |-> 0]]
        PROVE  OpenJobs(jobs', d, "UPLOAD") # {}
    <3>1. jobs'[j] = [doc |-> d, op |-> "UPLOAD", provider |-> importer[d].provider,
                      status |-> "PENDING", attempts |-> 0]
      BY <1>0, <2>3
    <3>2. j \in OpenJobs(jobs', d, "UPLOAD")
      BY <3>1 DEF OpenJobs, OpenStatuses
    <3> QED
      BY <3>2
  <2> QED
    BY <2>1, <2>2, <2>3, EnqueueLeaves
<1>4. /\ \A e \in Docs : OpenRead(e) \/ PermanentlyDelete(e) => importer' = importer
      /\ \A e \in Docs, n \in Names : RenameDocument(e, n) => importer' = importer
      /\ \A e \in Docs, p \in Places : MoveDocument(e, p) => importer' = importer
      /\ OpenWrite \/ Remote => importer' = importer
      /\ \A a \in Accounts \cup {NoAccount} : Configure(a) => importer' = importer
      /\ \A b \in BOOLEAN : SetPaused(b) => importer' = importer
    BY DEF RenameDocument, MoveDocument, Edit, OpenRead, PermanentlyDelete, OpenWrite,
           Configure, SetPaused, Remote, RemoteRemove, threadVars
<1>5. ASSUME Worker PROVE importer' = importer
    BY <1>5
    DEF Worker, StartSync, SyncFails, OpenProvider, ListDocuments, ReconcileItem,
        ReconcileWrite, ListChanges, ApplyChange, SaveCursor, LoopEnds, ClaimJob, ReadDocument,
        CheckAccount, JobFails, BeginTransfer, UploadNew, UploadExisting, Relabel, Record,
        CompleteJob, AuditFails, RecordError, RetryJob, FailDocuments, FailJobs, WorkerOnly
<1>6. ASSUME CrashAndRestart PROVE d \in overtaken'
    BY <1>6 DEF CrashAndRestart
<1>7. CASE Interface
  <2> DEFINE Comes == \/ importer'[d].pc = "enqueue"
                      \/ OpenJobs(jobs', d, "UPLOAD") # {}
                      \/ d \in overtaken'
  <2>1. \A e \in Docs : ImportDocument(e) \/ ImportReadSettings(e) \/ ImportMark(e) => Comes
    BY <1>1
  <2>2. \A e \in Docs : ImportEnqueue(e) => Comes
    BY <1>2, <1>3
  <2>3. importer' = importer => Comes
    OBVIOUS
  <2> HIDE DEF Comes
  <2>5. Comes
    BY <1>4, <1>7, <2>1, <2>2, <2>3 DEF Interface
  <2> QED
    BY <2>5 DEF Comes
<1> QED
    BY <1>4, <1>5, <1>6, <1>7 DEF Next

\* What is shown as waiting for its upload has somebody who will do it.
LEMMA MarksKept ==
    ASSUME Types, WorkerPlaced, JobInHand, JobsPlaced, NotLocal, Marks, Next
    PROVE  Marks'
<1> USE DEF AfterRead, JobSteps
<1>0. /\ w \in Memory /\ WorkerStep /\ WorkerPlaced' /\ docs \in [Docs -> Document]
    BY StepsOfWorker, WorkerKept DEF Types, CloudTypeOK
<1>1. w.pc \in JobSteps =>
          w.doc \in Docs /\ docs[w.doc].status # "NONE" /\ jobs[w.job].status # "NONE"
    BY <1>0 DEF WorkerPlaced, JobInHand, JobsPlaced
<1>2. ASSUME NEW d \in Docs, docs'[d].status = "ACTIVE", d \notin overtaken' \cup missed',
             docs'[d].cloud \in {"PENDING_UPLOAD", "UPLOADING"}
      PROVE  OpenJobs(jobs', d, "UPLOAD") # {} \/ importer'[d].pc = "enqueue"
  <2>0. Clean(d)' /\ docs[d] \in Document /\ DocMove(d)
    BY <1>0, <1>2, DocMoves DEF Clean, Fresh
  <2>1. docs[d].status # "NONE"
    <3> SUFFICES ASSUME docs[d].status = "NONE" PROVE FALSE
      OBVIOUS
    <3>1. docs[d].cloud = "LOCAL_ONLY" /\ w' = w
      BY <2>0, CleanMoves DEF NotLocal, Clean, Fresh
    <3>2. docs'[d].cloud \in {"LOCAL_ONLY", "REMOTE_DELETED"}
      BY <2>0, <3>1, Where DEF DocMove, Edited, Columns, Document
    <3> QED
      BY <1>2, <3>2
  <2>2. CASE ReconcileWrite /\ d = w.doc
    <3>1. docs[d].status = "ACTIVE"
      BY <1>2, <2>1, StatusMoves
    <3>2. docs'[d].cloud = IF w.found THEN "SYNCED" ELSE "REMOTE_DELETED"
      BY <2>0, <2>2, <3>1, Writes DEF Columns, Document
    <3> QED
      BY <1>2, <3>2
  <2>3. CASE ~(ReconcileWrite /\ d = w.doc)
    <3>1. Clean(d) /\ docs[d].status = "ACTIVE"
      BY <2>0, <2>1, <2>3, CleanMoves DEF Clean, Fresh
    <3>2. CASE docs[d].cloud \in {"PENDING_UPLOAD", "UPLOADING"}
      <4>1. OpenJobs(jobs, d, "UPLOAD") # {} \/ importer[d].pc = "enqueue"
        BY <3>1, <3>2 DEF Marks, WaitingIsQueued, Clean, Fresh
      <4>2. ASSUME NEW j \in OpenJobs(jobs, d, "UPLOAD")
            PROVE  OpenJobs(jobs', d, "UPLOAD") # {}
        <5>1. ASSUME j = w.job, w.pc \in {"complete", "retry"} PROVE FALSE
          <6>1. w.doc = d /\ Op = "UPLOAD"
            BY <4>2, <5>1 DEF OpenJobs, JobInHand, Op
          <6> QED
            BY <3>1, <3>2, <5>1, <6>1 DEF Marks
        <5>2. ~(j = w.job /\ CompleteJob) /\ ~(j = w.job /\ RetryJob)
          BY <5>1 DEF CompleteJob, RetryJob
        <5>3. j \in OpenJobs(jobs', d, "UPLOAD")
          BY <1>2, <5>2, OpenStays
        <5> QED
          BY <5>3
      <4>3. CASE importer[d].pc = "enqueue"
        BY <1>2, <3>1, <4>3, EnqueueComes
      <4> QED
        BY <4>1, <4>2, <4>3
    <3>3. CASE docs[d].cloud \notin {"PENDING_UPLOAD", "UPLOADING"} /\ w' = w
      BY <1>2, <2>0, <3>1, <3>3, MarkMoves
    <3>4. CASE docs[d].cloud \notin {"PENDING_UPLOAD", "UPLOADING"} /\ w' # w
      <4>1. BeginTransfer /\ d = w.doc /\ Op = "UPLOAD"
        <5>1. /\ ~ImportDocument(d) /\ ~ImportMark(d) /\ ~OpenWrite /\ ~PermanentlyDelete(d)
              /\ \A n \in Names : ~RenameDocument(d, n)
              /\ \A p \in Places : ~MoveDocument(d, p)
          BY <3>4, Where
        <5> QED
          BY <1>2, <2>0, <2>3, <3>4, <5>1 DEF DocMove, Columns, Document
      <4>2. /\ w.job \in JobIds /\ jobs[w.job].doc = d /\ jobs[w.job].op = "UPLOAD"
            /\ jobs[w.job].status \in {"RUNNING", "GONE"} /\ jobs' = jobs
        BY <4>1 DEF BeginTransfer, WorkerPlaced, JobInHand, Op
      <4>3. jobs[w.job].status = "RUNNING"
        BY <3>1, <4>2 DEF JobsPlaced
      <4> QED
        BY <4>2, <4>3 DEF OpenJobs, OpenStatuses
    <3> QED
      BY <3>2, <3>3, <3>4
  <2> QED
    BY <2>2, <2>3
<1>3. ASSUME w'.pc \in {"complete", "retry"}, Clean(w.doc)'
      PROVE  /\ docs'[w'.doc].cloud # "LOCAL_ONLY"
             /\ docs'[w'.doc].cloud \in {"PENDING_UPLOAD", "UPLOADING"} => Op' # "UPLOAD"
  <2>1. /\ w'.doc = w.doc /\ w'.job = w.job /\ w.pc \in AfterRead
        /\ w' = w \/ HandStep
    BY <1>0, <1>3 DEF WorkerStep, SyncStep, HandStep, RestSteps
  <2>2. PICK d \in Docs : d = w.doc /\ docs[d].status # "NONE"
    BY <1>1, <2>1
  <2>3. Clean(d)' /\ docs'[d].status = "ACTIVE"
    BY <1>3, <2>1, <2>2 DEF Clean, Fresh
  <2>4. Clean(d) /\ docs[d].status = "ACTIVE" /\ docs[d] \in Document
    BY <1>0, <1>3, <2>2, <2>3, CleanMoves, Where DEF Clean, Fresh
  <2>5. Op' = Op
    BY <1>1, <2>1, <1>0, JobsKept DEF Op, SameJob, WorkerPlaced
  <2>6. CASE w' = w
    <3>1. /\ docs[d].cloud # "LOCAL_ONLY"
          /\ docs[d].cloud \in {"PENDING_UPLOAD", "UPLOADING"} => Op # "UPLOAD"
      BY <1>3, <2>2, <2>4, <2>6 DEF Marks
    <3>2. \/ docs'[d].cloud = docs[d].cloud
          \/ docs'[d].cloud = "PENDING_UPLOAD" /\ Op # "UPLOAD"
      BY <2>1, <2>2, <2>3, <2>4, <2>6, <3>1, MarkMoves
    <3> QED
      BY <2>1, <2>2, <2>5, <3>1, <3>2
  <2>7. CASE HandStep /\ w' # w
    <3>1. Record \/ RecordError
      BY <1>3, <2>7 DEF HandStep
    <3>2. docs'[d].cloud \in {"SYNCED", "SYNC_ERROR"}
      BY <2>2, <2>4, <3>1, Writes DEF Columns, Document
    <3> QED
      BY <2>1, <2>2, <3>2
  <2> QED
    BY <2>1, <2>6, <2>7
<1> QED
  <2>1. WaitingIsQueued'
    BY <1>2 DEF WaitingIsQueued
  <2> QED
    BY <1>3, <2>1 DEF Marks

\* A synchronization shows nothing as there that was gone when it began.
LEMMA RemovedKept ==
    ASSUME Types, WorkerPlaced, JobInHand, NotLocal, Removed, Next
    PROVE  Removed'
<1> USE DEF SyncSteps
<1>0. /\ w \in Memory /\ w' \in Memory /\ WorkerStep /\ docs \in [Docs -> Document]
      /\ items \in [Items -> Item] /\ NoItem \notin Items
    BY StepsOfWorker, TypesKept, NoneAssumption DEF Types, CloudTypeOK
<1>1. ASSUME w'.pc \in SyncSteps, w' # w
      PROVE  SyncStep
    BY <1>0, <1>1 DEF WorkerStep, HandStep, RestSteps
<1>2. ASSUME w'.pc \in SyncSteps, NEW i \in w'.gone PROVE items'[i].state = "gone"
  <2>1. i \in Items
    BY <1>0 DEF Memory
  <2>2. CASE w.pc \in SyncSteps /\ w'.gone = w.gone
    BY <1>2, <2>1, <2>2, ItemsStay DEF Removed
  <2>3. CASE OpenProvider /\ w'.gone = {k \in Items : items[k].state = "gone"}
    BY <2>1, <2>3, ItemsStay
  <2>4. CASE w'.gone = {}
    BY <2>4
  <2> QED
    BY <1>1, <1>2, <2>2, <2>3, <2>4 DEF SyncStep
<1>3. ASSUME w'.pc \in {"reconcile", "confirm", "apply"}, NEW d \in Docs, Fresh(d)',
             docs'[d].remote \in w'.gone
      PROVE  d \in w'.todo \/ docs'[d].cloud # "SYNCED"
  <2>0. /\ docs'[d].status = "ACTIVE" /\ d \notin overtaken' /\ docs'[d].remote # NoItem
        /\ docs[d] \in Document /\ DocMove(d)
    BY <1>0, <1>3, DocMoves DEF Fresh, Memory
  <2>1. CASE w' = w
    <3>1. docs[d].status # "NONE"
      <4> SUFFICES ASSUME docs[d].status = "NONE" PROVE FALSE
        OBVIOUS
      <4>1. docs[d].remote = NoItem
        BY DEF NotLocal
      <4> QED
        BY <1>0, <2>0, <2>1, <4>1, Where DEF DocMove, Edited, Columns, Document
    <3>2. Fresh(d) /\ docs[d].status = "ACTIVE"
      BY <1>3, <3>1, FreshMoves DEF Fresh
    <3>3. Undisturbed(d) /\ docs'[d].remote = docs[d].remote
      BY <1>3, <2>1, <3>2, Undisturbing
    <3>4. d \in w.todo \/ docs[d].cloud # "SYNCED"
      BY <1>3, <2>1, <3>2, <3>3 DEF Removed
    <3> QED
      BY <2>0, <2>1, <3>3, <3>4 DEF Undisturbed, Edited, Document
  <2>2. CASE w' # w
    <3>0. docs[d].status = "ACTIVE" /\ Fresh(d) /\ SyncStep
      BY <1>1, <1>3, <2>0, <2>2, StatusMoves, FreshMoves DEF Fresh
    <3>1. CASE ListDocuments /\ w'.todo = Listed
      <4>1. docs' = docs
        BY <3>1 DEF ListDocuments
      <4> QED
        BY <2>0, <3>1, <4>1 DEF Listed
    <3>2. CASE (\E e \in w.todo : ReconcileItem(e)) \/ ListChanges
      <4>1. docs' = docs /\ w.pc = "reconcile"
        BY <3>2 DEF ReconcileItem, ListChanges
      <4>2. w'.gone = w.gone /\ (w'.todo = w.todo \/ w.todo = {})
        BY <1>3, <3>0, <4>1, Where DEF SyncStep
      <4> QED
        BY <1>3, <3>0, <4>1, <4>2 DEF Removed
    <3>3. CASE /\ ReconcileWrite /\ w.pc = "confirm" /\ w'.pc = "reconcile"
               /\ w'.todo = w.todo \ {w.doc} /\ w'.gone = w.gone
      <4>1. CASE d = w.doc
        <5>1. Columns(d, IF w.found THEN "SYNCED" ELSE "REMOTE_DELETED", w.seen[d].remote)
          BY <3>0, <3>3, <4>1, Writes
        <5>2. w.found = TRUE => w.seen[d].remote \notin w.gone
          BY <3>3, <4>1 DEF Removed
        <5> QED
          BY <1>0, <1>3, <2>0, <3>3, <5>1, <5>2 DEF Columns, Document, Memory
      <4>2. CASE d # w.doc
        <5>1. docs'[d] = docs[d]
          BY <2>0, <3>3, <4>2, <2>2, Where DEF DocMove, Columns, Document
        <5> QED
          BY <1>3, <3>0, <3>3, <4>2, <5>1 DEF Removed
      <4> QED
        BY <4>1, <4>2
    <3>4. CASE ApplyChange /\ w.pc = "apply" /\ w'.todo = w.todo /\ w'.gone = w.gone
      <4>1. \/ docs'[d] = docs[d]
            \/ docs'[d] = [docs[d] EXCEPT !.cloud = "REMOTE_DELETED"]
        BY <1>0, <3>4 DEF ApplyChange
      <4>2. CASE docs'[d] = docs[d]
        BY <1>3, <3>0, <3>4, <4>2 DEF Removed
      <4>3. CASE docs'[d] = [docs[d] EXCEPT !.cloud = "REMOTE_DELETED"]
        BY <2>0, <4>3 DEF Document
      <4> QED
        BY <4>1, <4>2, <4>3
    <3> QED
      BY <1>3, <3>0, <3>1, <3>2, <3>3, <3>4 DEF SyncStep
  <2> QED
    BY <2>1, <2>2
<1>4. ASSUME w'.pc = "confirm", w'.found = TRUE
      PROVE  w'.seen[w'.doc].remote \notin w'.gone
  <2>1. CASE w' = w
    BY <1>4, <2>1 DEF Removed
  <2>2. CASE w' # w
    <3>1. PICK d \in w.todo :
              /\ ReconcileItem(d) /\ w.pc = "reconcile"
              /\ w'.doc = d /\ w'.seen = w.seen /\ w'.gone = w.gone
              /\ w'.found = Found(w.account, w.seen[d].remote)
      BY <1>1, <1>4, <2>2 DEF SyncStep
    <3>2. items[w.seen[d].remote].state # "gone"
      BY <1>4, <3>1 DEF Found
    <3> QED
      BY <3>1, <3>2 DEF Removed
  <2> QED
    BY <2>1, <2>2
<1> QED
    BY <1>2, <1>3, <1>4 DEF Removed

-----------------------------------------------------------------------------
(* The invariant and what follows from it.                                 *)

\* The invariant holds at the start.
LEMMA InitInv ==
    ASSUME Init
    PROVE  IInv
<1> DEFINE name == CHOOSE n \in Names : TRUE
           place == CHOOSE p \in Places : TRUE
           account == CHOOSE a \in Accounts : TRUE
<1>0. name \in Names /\ place \in Places /\ account \in Accounts
    BY NonemptyAssumption
<1> HIDE DEF name, place, account
<1>1. /\ docs = [d \in Docs |-> [status |-> "NONE", name |-> name, place |-> place,
                                 cloud |-> "LOCAL_ONLY", remote |-> NoItem]]
      /\ items = [i \in Items |-> [state |-> "none", account |-> NoAccount,
                                   doc |-> NoDoc, name |-> name, place |-> place]]
      /\ jobs = [j \in JobIds |-> FreeRow]
      /\ setting = [account |-> account, paused |-> FALSE, cursor |-> NoCursor]
      /\ feed = [a \in Accounts |-> <<>>]
      /\ w = IdleWorker
      /\ importer = [d \in Docs |-> NotImporting]
      /\ opened = [doc |-> NoDoc]
      /\ count = [edits |-> 0, switches |-> 0, removals |-> 0, crashes |-> 0]
      /\ orphans = {} /\ strays = {} /\ missed = {} /\ overtaken = {}
    BY DEF Init, name, place, account
<1>2. Types
  <2>1. docs \in [Docs -> Document] /\ items \in [Items -> Item]
    BY <1>0, <1>1 DEF Document, Item, CloudStates
  <2>2. /\ jobs \in [JobIds -> SyncJob]
        /\ \A j \in JobIds : jobs[j].status = "NONE" /\ jobs[j].doc = NoDoc
    BY <1>1 DEF FreeRow, SyncJob, Operations, OpenStatuses
  <2>3. /\ setting \in [account : Accounts \cup {NoAccount}, paused : BOOLEAN, cursor : Cursor]
        /\ feed \in [Accounts -> Seq(Items)]
    BY <1>0, <1>1 DEF Cursor
  <2>4. w \in Memory
    <3>1. [d \in {} |-> 0] \in [{} -> Document]
      OBVIOUS
    <3>2. [d \in {} |-> 0] \in UNION {[ds -> Document] : ds \in SUBSET Docs}
      BY <3>1
    <3> DEFINE Rows == UNION {[ds -> Document] : ds \in SUBSET Docs}
               none == [d \in {} |-> 0]
    <3>3. none \in Rows
      BY <3>2
    <3> HIDE DEF Rows, none
    <3>4. w = [pc |-> "idle", phase |-> "sync", account |-> NoAccount, todo |-> {},
               seen |-> none, doc |-> NoDoc, found |-> FALSE, changes |-> <<>>, to |-> 0,
               job |-> NoJob, item |-> NoItem, gone |-> {}]
      BY <1>1 DEF IdleWorker, none
    <3>5. w \in [pc : WorkerSteps, phase : {"sync", "job"},
                 account : Accounts \cup {NoAccount}, todo : SUBSET Docs, seen : Rows,
                 doc : Docs \cup {NoDoc}, found : BOOLEAN, changes : Seq(Items), to : Nat,
                 job : JobIds \cup {NoJob}, item : Items \cup {NoItem}, gone : SUBSET Items]
      BY <3>3, <3>4 DEF WorkerSteps
    <3> QED
      BY <3>5 DEF Memory, Rows
  <2>5. /\ importer \in [Docs -> [pc : {"idle", "saved", "mark", "enqueue"},
                                  provider : Providers \cup {NoProvider}]]
        /\ \A d \in Docs : importer[d].pc = "idle"
    BY <1>1 DEF NotImporting
  <2>6. /\ opened \in [doc : {NoDoc}] \cup [doc : Docs, row : Document]
        /\ opened.doc = NoDoc
        /\ count \in [edits : Nat, switches : Nat, removals : Nat, crashes : Nat]
    BY <1>1
  <2> QED
    BY <1>1, <2>1, <2>2, <2>3, <2>4, <2>5, <2>6 DEF Types, CloudTypeOK, Memory
<1>3. w.pc = "idle" /\ w.job = NoJob /\ w.doc = NoDoc /\ w.item = NoItem /\ w.todo = {}
      /\ DOMAIN w.seen = {} /\ w = [IdleWorker EXCEPT !.pc = w.pc]
    BY <1>1 DEF IdleWorker
<1>4. WorkerPlaced /\ JobInHand
    BY <1>3 DEF WorkerPlaced, JobInHand, RestSteps, SyncSteps, JobSteps, AfterRead
<1>5. JobsPlaced /\ AttemptsBounded /\ RunningIsWorked
    BY <1>1, MaxAttemptsAssumption DEF FreeRow, JobsPlaced, AttemptsBounded, RunningIsWorked
<1>6. Owned /\ Known
    BY <1>1, <1>3, NoneAssumption
    DEF Owned, ItemOf, Known, Within, Live, Held, AfterRead
<1>7. NotLocal /\ RemoteFollows /\ Marks /\ Removed
    BY <1>1, <1>3, NoneAssumption
    DEF NotLocal, RemoteFollows, Marks, WaitingIsQueued, Removed, AfterRead, SyncSteps
<1>8. Labels
    BY <1>1, <1>3 DEF Labels, InUse, Clean, Fresh, AfterRead
<1> QED
    BY <1>2, <1>4, <1>5, <1>6, <1>7, <1>8 DEF IInv

\* Every step keeps the invariant.
LEMMA Inductive ==
    ASSUME IInv, [Next]_vars
    PROVE  IInv'
<1>1. CASE Next
    BY <1>1, TypesKept, WorkerKept, HandKept, QueueKept, OwnedKept, KnownKept, NotLocalKept,
       RemoteFollowsKept, LabelsKept, MarksKept, RemovedKept
    DEF IInv
<1>2. CASE UNCHANGED vars
  <2> USE DEF vars
  <2>1. Types' /\ WorkerPlaced'
    BY <1>2 DEF IInv, Types, CloudTypeOK, WorkerPlaced
  <2>2. JobInHand' /\ JobsPlaced' /\ AttemptsBounded' /\ RunningIsWorked'
    BY <1>2
    DEF IInv, JobInHand, Op, Row, JobsPlaced, AttemptsBounded, RunningIsWorked
  <2>3. Owned' /\ Known'
    BY <1>2 DEF IInv, Owned, ItemOf, Known, Within, Live, Held, Row
  <2>4. NotLocal' /\ RemoteFollows'
    BY <1>2 DEF IInv, NotLocal, RemoteFollows, Fresh, Op, Row
  <2>5. Labels'
    BY <1>2 DEF IInv, Labels, Clean, Fresh, InUse, Awaited, Others, Op, Row, OpenJobs
  <2>6. Marks' /\ Removed'
    BY <1>2
    DEF IInv, Marks, WaitingIsQueued, Removed, Clean, Fresh, Op, OpenJobs
  <2> QED
    BY <2>1, <2>2, <2>3, <2>4, <2>5, <2>6 DEF IInv
<1> QED
    BY <1>1, <1>2

\* What the runs check follows from the invariant.
LEMMA Implied ==
    ASSUME IInv
    PROVE  /\ NothingUnknown
           /\ ShownStateIsTrue
           /\ [Next]_vars =>
                  [w.pc = "apply" /\ w'.pc = "loop" =>
                       \A d \in Docs \ overtaken :
                           docs[d].status = "ACTIVE" /\ docs[d].remote \in w.gone
                           => docs[d].cloud # "SYNCED"]_vars
<1> USE DEF IInv
<1>1. ASSUME NEW i \in Items, items[i].state = "live", docs[items[i].doc].status = "ACTIVE"
      PROVE  docs[items[i].doc].remote = i \/ i \in strays \cup InHand
  <2>1. PICK d \in Docs : d = items[i].doc
    BY <1>1 DEF Owned
  <2>2. i \in {docs[d].remote} \cup Held \cup strays
    BY <1>1, <2>1 DEF Known, Within, Live
  <2>3. ASSUME i \in Held, docs[d].remote # i PROVE i \in InHand
    <3>1. /\ w.pc \in {"upload", "relabel", "record", "complete", "error", "retry"}
          /\ i \in {w.item, Row.remote} /\ w.phase = "job" /\ i # NoItem
      BY <2>3, NoneAssumption DEF Held, WorkerPlaced, JobSteps, AfterRead
    <3>2. i \notin {docs[e].remote : e \in Docs}
      BY <1>1, <2>1, <2>3, <3>1 DEF Owned, ItemOf
    <3> QED
      BY <3>1, <3>2 DEF InHand
  <2> QED
    BY <2>1, <2>2, <2>3
<1>2. NothingUnknown
    BY <1>1 DEF NothingUnknown, QueueSound, NoUnknownItem, Types
<1>3. ASSUME NEW d \in Docs, docs[d].status = "ACTIVE", docs[d].remote # NoItem,
             OpenJobsOf(jobs, d) = {}, d \notin missed \cup overtaken, NEW op \in Relabels
      PROVE  Label(items[docs[d].remote], op) = Label(docs[d], op)
  <2>1. Clean(d) /\ docs[d].remote \in InUse(d)
    BY <1>3 DEF Clean, Fresh, InUse
  <2>2. ~Awaited(d, op)
    BY <1>3 DEF Awaited, OpenJobsOf, Operations, Relabels
  <2> QED
    BY <2>1, <2>2 DEF Labels
<1>4. ShownStateIsTrue
  <2>1. ASSUME NEW d \in Docs, docs[d].status = "ACTIVE", docs[d].remote # NoItem,
               OpenJobsOf(jobs, d) = {}, d \notin missed \cup overtaken
        PROVE  /\ items[docs[d].remote].name = docs[d].name
               /\ items[docs[d].remote].place = docs[d].place
    BY <1>3, <2>1 DEF Relabels, Label
  <2> QED
    BY <2>1 DEF ShownStateIsTrue, LabelsFollow, Marks
<1>5. ASSUME w.pc = "apply", NEW d \in Docs \ overtaken, docs[d].status = "ACTIVE",
             docs[d].remote \in w.gone
      PROVE  docs[d].cloud # "SYNCED"
    BY <1>5 DEF Removed, WorkerPlaced, Fresh
<1> QED
    BY <1>2, <1>4, <1>5

\* The invariant holds in every state the program reaches.
THEOREM Invariance == Spec => []IInv
<1>1. Init => IInv
    BY InitInv
<1>2. IInv /\ [Next]_vars => IInv'
    BY Inductive
<1> QED
    BY <1>1, <1>2, PTL DEF Spec

\* The rows of sync_jobs and of documents account for every job that runs and every
\* file in an account (CloudJobQueue.process_next, CloudSyncService._upload,
\* update_cloud_state): no attempt beyond the limit, nothing left RUNNING, no file
\* whose id only a known gap or the worker knows.
THEOREM AllKnown == Spec => []NothingUnknown
<1>1. IInv => NothingUnknown
    BY Implied
<1> QED
    BY <1>1, Invariance, PTL

\* The cloud state the documents screen shows is true, whatever is renamed, moved,
\* opened, switched or interrupted while the worker works with a row it read before.
THEOREM ShownIsTrue == Spec => []ShownStateIsTrue
<1>1. IInv => ShownStateIsTrue
    BY Implied
<1> QED
    BY <1>1, Invariance, PTL

\* A synchronization that gets as far as its cursor has told the user of every item
\* removed before it began (_reconcile_documents, list_changes).
THEOREM RemovalsSeen == Spec => SyncSeesRemovals
<1>1. IInv /\ [Next]_vars =>
          [w.pc = "apply" /\ w'.pc = "loop" =>
               \A d \in Docs \ overtaken :
                   docs[d].status = "ACTIVE" /\ docs[d].remote \in w.gone
                   => docs[d].cloud # "SYNCED"]_vars
    BY Implied
<1> QED
    BY <1>1, Invariance, PTL DEF Spec, SyncSeesRemovals
=============================================================================
