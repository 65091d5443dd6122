------------------------------- MODULE CloudSync -------------------------------
(***************************************************************************)
(* Synchronization of one organization's documents with its cloud account. *)
(*                                                                         *)
(* Threads: the interface (renaming, moving, opening and deleting          *)
(* documents, connecting and disconnecting), one importing thread per      *)
(* document, and the one CloudSyncWorker a process runs per organization.  *)
(* A step is one statement or transaction on the database, or one call to  *)
(* the provider.  The worker keeps what it has read in `w` and writes it   *)
(* back later; the account it works for may have been disconnected since.  *)
(* Folders are seen here as the remote parents a document may be under:    *)
(* how a folder gets its remote parent is CloudFolders.                    *)
(***************************************************************************)
EXTENDS CloudQueue, Sequences

CONSTANTS
    Names, Places,  \* a document's name; the remote parent its folder stands for
    Accounts,       \* cloud accounts of the organization
    ProviderOf,     \* [Accounts -> Providers]
    Items,          \* remote ids providers give, a bound on the number of uploads
    MaxEdits,       \* bound: renames, moves and openings of a document
    MaxSwitches,    \* bound: connections, disconnections and pauses
    MaxRemovals,    \* bound: items removed in an account
    MaxCrashes,     \* bound: deaths of the process
    NoAccount, NoItem, NoCursor, NoJob

ASSUME ProviderAssumption == ProviderOf \in [Accounts -> Providers]
ASSUME NonemptyAssumption == Names # {} /\ Places # {} /\ Accounts # {}
ASSUME ItemsAssumption == Items \subseteq Nat
ASSUME BoundsAssumption == {MaxEdits, MaxSwitches, MaxRemovals, MaxCrashes} \subseteq Nat
ASSUME NoneAssumption ==
    /\ NoAccount \notin Accounts
    /\ NoItem \notin Items
    /\ NoJob \notin JobIds

VARIABLES
    docs,      \* documents: status, name, place, cloud_status, remote_id
    jobs,      \* sync_jobs
    setting,   \* cloud_settings: account, paused, cursor
    items,     \* what is in the accounts: by remote id
    feed,      \* per account, the deletions its change feed tells, in order
    w,         \* the worker's thread
    importer,  \* where the thread importing each document stands
    opened,    \* the row open_document has read and will write
    count,     \* edits, switches and crashes so far
    orphans,   \* history: jobs a crash left RUNNING
    strays,    \* history: items whose id was never recorded or lost again
    missed,    \* history: documents with an edit no job stands for any more
    overtaken  \* history: documents whose cloud columns an old read has replaced

threadVars == <<w, importer, opened>>
historyVars == <<orphans, strays, missed, overtaken>>
vars == <<docs, jobs, setting, items, feed, w, importer, opened, count,
          orphans, strays, missed, overtaken>>

\* SYNC_ERROR is also CONFLICT, the name for one kind of exception.
CloudStates == {"LOCAL_ONLY", "PENDING_UPLOAD", "UPLOADING", "SYNCED",
                "SYNC_ERROR", "REMOTE_DELETED"}

Document == [status : {"NONE", "ACTIVE", "DELETED"}, name : Names, place : Places,
             cloud : CloudStates, remote : Items \cup {NoItem}]

Item == [state : {"none", "live", "trashed", "gone"}, account : Accounts \cup {NoAccount},
         doc : Docs \cup {NoDoc}, name : Names, place : Places]

Cursor == [of : Accounts, at : Nat] \cup {NoCursor}

WorkerSteps == {"idle", "open", "list", "reconcile", "confirm", "apply", "loop", "read", "check",
                "transfer", "upload", "relabel", "record", "complete",
                "error", "retry", "fail", "failjobs"}

IdleWorker == [pc |-> "idle", phase |-> "sync", account |-> NoAccount,
               todo |-> {}, seen |-> [d \in {} |-> 0], doc |-> NoDoc,
               found |-> FALSE, changes |-> <<>>, to |-> 0,
               job |-> NoJob, item |-> NoItem, gone |-> {}]

Failing == [IdleWorker EXCEPT !.pc = "fail"]

NotImporting == [pc |-> "idle", provider |-> NoProvider]

\* CloudSettings.sync_mode.
SyncMode == IF setting.account = NoAccount THEN NoProvider
                                           ELSE ProviderOf[setting.account]

\* _provider_for: nothing while local or paused.
Available == setting.account # NoAccount /\ ~setting.paused

\* The organization has connected an account and has no documents yet.
Init ==
    LET name == CHOOSE n \in Names : TRUE
        place == CHOOSE p \in Places : TRUE
    IN /\ docs = [d \in Docs |-> [status |-> "NONE", name |-> name, place |-> place,
                                  cloud |-> "LOCAL_ONLY", remote |-> NoItem]]
       /\ items = [i \in Items |-> [state |-> "none", account |-> NoAccount,
                                    doc |-> NoDoc, name |-> name, place |-> place]]
    /\ jobs = [j \in JobIds |-> FreeRow]
    /\ setting = [account |-> CHOOSE a \in Accounts : TRUE, paused |-> FALSE,
                  cursor |-> NoCursor]
    /\ feed = [a \in Accounts |-> <<>>]
    /\ w = IdleWorker
    /\ importer = [d \in Docs |-> NotImporting]
    /\ opened = [doc |-> NoDoc]
    /\ count = [edits |-> 0, switches |-> 0, removals |-> 0, crashes |-> 0]
    /\ orphans = {}
    /\ strays = {}
    /\ missed = {}
    /\ overtaken = {}

-----------------------------------------------------------------------------
(* Documents at the installation.                                          *)

\* update_cloud_state writes every cloud column: a remote id that is not passed
\* becomes NULL.
CloudState(ds, d, state, item) ==
    IF ds[d].status = "ACTIVE"
    THEN [ds EXCEPT ![d].cloud = state, ![d].remote = item]
    ELSE ds

\* The row of an import is committed before the upload is enqueued.
ImportDocument(d) ==
    /\ docs[d].status = "NONE"
    /\ docs' = [docs EXCEPT ![d].status = "ACTIVE"]
    /\ importer' = [importer EXCEPT ![d].pc = "saved"]
    /\ UNCHANGED <<jobs, setting, items, feed, w, opened, count, historyVars>>

\* enqueue_upload, the statements of an importing thread.
ImportReadSettings(d) ==
    /\ importer[d].pc = "saved"
    /\ importer' = [importer EXCEPT ![d] =
           IF docs[d].status # "ACTIVE" THEN NotImporting
           ELSE [pc |-> "mark", provider |-> IF Available THEN SyncMode ELSE NoProvider]]
    /\ UNCHANGED <<docs, jobs, setting, items, feed, w, opened, count, historyVars>>

\* The remote id a write of the cloud columns that does not pass it forgets.
Forgotten(d) == IF docs[d].remote # NoItem THEN {docs[d].remote} ELSE {}

ImportMark(d) ==
    /\ importer[d].pc = "mark"
    /\ LET local == importer[d].provider = NoProvider
       IN /\ docs' = CloudState(docs, d, IF local THEN "LOCAL_ONLY"
                                                 ELSE "PENDING_UPLOAD", NoItem)
          /\ importer' = [importer EXCEPT ![d] = IF local THEN NotImporting
                                                 ELSE [@ EXCEPT !.pc = "enqueue"]]
    /\ strays' = strays \cup Forgotten(d)
    /\ overtaken' = IF docs[d].cloud = "LOCAL_ONLY" THEN overtaken
                                                    ELSE overtaken \cup {d}
    /\ UNCHANGED <<jobs, setting, items, feed, w, opened, count, orphans, missed>>

\* The foreign key refuses the job of a document deleted since.
ImportEnqueue(d) ==
    /\ importer[d].pc = "enqueue"
    /\ importer' = [importer EXCEPT ![d] = NotImporting]
    /\ IF docs[d].status = "ACTIVE"
       THEN jobs' \in Enqueue(jobs, d, "UPLOAD", importer[d].provider)
       ELSE jobs' = jobs
    /\ UNCHANGED <<docs, setting, items, feed, w, opened, count, historyVars>>

\* enqueue_rename and enqueue_move, inside the transaction of the edit: an open
\* job stands for the edit even if it has read the row already.
EnqueueEdit(d, op, edited) ==
    LET kind == IF edited[d].remote = NoItem THEN "UPLOAD" ELSE op
        begun == w.job \in OpenJobs(jobs, d, kind) /\ w.pc # "read"
    IN IF ~Available
       THEN /\ docs' = edited
            /\ jobs' = jobs
            /\ missed' = missed \cup {d}
       ELSE /\ docs' = IF kind = "UPLOAD"
                       THEN CloudState(edited, d, "PENDING_UPLOAD", NoItem)
                       ELSE edited
            /\ jobs' \in Enqueue(jobs, d, kind, SyncMode)
            /\ missed' = IF begun THEN missed \cup {d} ELSE missed

Edit == /\ count.edits < MaxEdits
        /\ opened.doc = NoDoc   \* one interface thread
        /\ count' = [count EXCEPT !.edits = @ + 1]
        /\ UNCHANGED <<setting, items, feed, w, importer, opened, orphans, strays,
                       overtaken>>

RenameDocument(d, n) ==
    /\ docs[d].status = "ACTIVE"
    /\ docs[d].name # n
    /\ EnqueueEdit(d, "RENAME", [docs EXCEPT ![d].name = n])
    /\ Edit

\* Also what delete_folder does to the documents of a removed folder.
MoveDocument(d, p) ==
    /\ docs[d].status = "ACTIVE"
    /\ docs[d].place # p
    /\ EnqueueEdit(d, "MOVE", [docs EXCEPT ![d].place = p])
    /\ Edit

\* open_document reads the whole row and writes the whole row, in two steps.
OpenRead(d) ==
    /\ docs[d].status = "ACTIVE"
    /\ opened.doc = NoDoc
    /\ opened' = [doc |-> d, row |-> docs[d]]
    /\ count.edits < MaxEdits
    /\ count' = [count EXCEPT !.edits = @ + 1]
    /\ UNCHANGED <<docs, jobs, setting, items, feed, w, importer, historyVars>>

OpenWrite ==
    /\ opened.doc # NoDoc
    /\ LET d == opened.doc
           changed == docs[d].status = "ACTIVE" /\ docs[d] # opened.row
       IN /\ docs' = IF docs[d].status = "ACTIVE" THEN [docs EXCEPT ![d] = opened.row]
                                                  ELSE docs
          /\ overtaken' = IF changed THEN overtaken \cup {d} ELSE overtaken
          /\ strays' = IF changed THEN strays \cup (Forgotten(d) \ {opened.row.remote})
                                  ELSE strays
    /\ opened' = [doc |-> NoDoc]
    /\ UNCHANGED <<jobs, setting, items, feed, w, importer, count, orphans, missed>>

\* Nothing is deleted at the provider.
PermanentlyDelete(d) ==
    /\ docs[d].status = "ACTIVE"
    /\ opened.doc = NoDoc
    /\ docs' = [docs EXCEPT ![d].status = "DELETED", ![d].remote = NoItem,
                            ![d].cloud = "LOCAL_ONLY"]
    /\ jobs' = CascadeDelete(jobs, d)
    /\ UNCHANGED <<setting, items, feed, w, importer, opened, count, historyVars>>

\* CloudManager.configure and remove_account, whatever the worker is doing.  The
\* same account again changes nothing.
Configure(a) ==
    /\ count.switches < MaxSwitches
    /\ a # setting.account \/ setting.paused
    /\ setting' = [account |-> a, paused |-> FALSE,
                   cursor |-> IF a = setting.account THEN setting.cursor ELSE NoCursor]
    /\ count' = [count EXCEPT !.switches = @ + 1]
    /\ UNCHANGED <<docs, jobs, items, feed, threadVars, historyVars>>

SetPaused(b) ==
    /\ setting.paused # b
    /\ setting.account # NoAccount
    /\ count.switches < MaxSwitches
    /\ count' = [count EXCEPT !.switches = @ + 1]
    /\ setting' = [setting EXCEPT !.paused = b]
    /\ UNCHANGED <<docs, jobs, items, feed, threadVars, historyVars>>

-----------------------------------------------------------------------------
(* The account.                                                            *)

Ids(a) == {i \in Items : items[i].account = a}

\* A user of the account puts an item into its bin, or removes it for good.
RemoteRemove(i, state) ==
    /\ count.removals < MaxRemovals
    /\ count' = [count EXCEPT !.removals = @ + 1]
    /\ items[i].state = "live"
    /\ items' = [items EXCEPT ![i].state = state]
    /\ feed' = [feed EXCEPT ![items[i].account] = Append(@, i)]
    /\ UNCHANGED <<docs, jobs, setting, threadVars, historyVars>>

\* Mutant: every id of the account is taken for a file that is there.
FoundAlways(a, i) == i \in Ids(a)

\* What get_metadata finds: an item in the bin is found.
Found(a, i) == i \in Ids(a) /\ items[i].state \in {"live", "trashed"}

-----------------------------------------------------------------------------
(* CloudSyncWorker: sync_changes.                                          *)

WorkerOnly == UNCHANGED <<importer, opened, count>>

\* on_sync_now, and _auto_sync when something is pending.
StartSync ==
    /\ w.pc = "idle"
    /\ setting.account # NoAccount
    /\ w' = [IdleWorker EXCEPT !.pc = "open"]
    /\ UNCHANGED <<docs, jobs, setting, items, feed, historyVars>>
    /\ WorkerOnly

\* A call to the provider fails, or the token has expired.
SyncFails ==
    /\ w.pc \in {"open", "list", "reconcile"}
    /\ w.phase = "sync"
    /\ w' = Failing
    /\ UNCHANGED <<docs, jobs, setting, items, feed, historyVars>>
    /\ WorkerOnly

OpenProvider ==
    /\ w.pc = "open"
    /\ w' = IF Available
            THEN [w EXCEPT !.pc = "list", !.account = setting.account,
                           !.gone = {i \in Items : items[i].state = "gone"}]
            ELSE Failing
    /\ UNCHANGED <<docs, jobs, setting, items, feed, historyVars>>
    /\ WorkerOnly

\* synchronize_structure: once the folders are there _reconcile_documents reads
\* the rows, to take them one by one.
ListDocuments ==
    /\ w.pc = "list"
    /\ LET ds == {d \in Docs : docs[d].status = "ACTIVE" /\ docs[d].remote # NoItem}
       IN w' = [w EXCEPT !.pc = "reconcile", !.todo = ds,
                         !.seen = [d \in ds |-> docs[d]]]
    /\ UNCHANGED <<docs, jobs, setting, items, feed, historyVars>>
    /\ WorkerOnly

Relabelled(i, row) == [items EXCEPT ![i].name = row.name, ![i].place = row.place]

\* Mutant: only items in their folder's place are renamed.
ReconcileItemInPlace(d) ==
    /\ w.pc = "reconcile"
    /\ d \in w.todo
    /\ LET i == w.seen[d].remote
           found == Found(w.account, i)
       IN /\ items' = IF found /\ items[i].place = w.seen[d].place
                      THEN Relabelled(i, w.seen[d]) ELSE items
          /\ w' = [w EXCEPT !.pc = "confirm", !.doc = d, !.found = found]
    /\ UNCHANGED <<docs, jobs, setting, feed, historyVars>>
    /\ WorkerOnly

ReconcileItem(d) ==
    /\ w.pc = "reconcile"
    /\ d \in w.todo
    /\ LET i == w.seen[d].remote
           found == Found(w.account, i)
       IN /\ items' = IF found THEN Relabelled(i, w.seen[d]) ELSE items
          /\ w' = [w EXCEPT !.pc = "confirm", !.doc = d, !.found = found]
    /\ UNCHANGED <<docs, jobs, setting, feed, historyVars>>
    /\ WorkerOnly

\* A found item has just been given the name and place the row had.
ReconcileWrite ==
    /\ w.pc = "confirm"
    /\ LET row == w.seen[w.doc]
       IN /\ docs' = CloudState(docs, w.doc, IF w.found THEN "SYNCED" ELSE "REMOTE_DELETED",
                                row.remote)
          /\ missed' = IF /\ w.found
                          /\ docs[w.doc].name = row.name
                          /\ docs[w.doc].place = row.place
                       THEN missed \ {w.doc} ELSE missed
    /\ w' = [w EXCEPT !.pc = "reconcile", !.doc = NoDoc, !.found = FALSE,
                      !.todo = @ \ {w.doc}]
    /\ UNCHANGED <<jobs, setting, items, feed, orphans, strays, overtaken>>
    /\ WorkerOnly

\* list_changes from the cursor in the settings, whoever they belong to by now.
\* Without a cursor a provider starts at the present.
ListChanges ==
    /\ w.pc = "reconcile"
    /\ w.todo = {}
    /\ LET news == feed[w.account]
       IN w' = [w EXCEPT !.pc = "apply", !.seen = IdleWorker.seen, !.to = Len(news),
                  !.changes = IF setting.cursor = NoCursor THEN <<>>
                              ELSE SubSeq(news, setting.cursor.at + 1, Len(news))]
    /\ UNCHANGED <<docs, jobs, setting, items, feed, historyVars>>
    /\ WorkerOnly

ApplyChange ==
    /\ w.pc = "apply"
    /\ w.changes # <<>>
    /\ docs' = [d \in Docs |-> IF docs[d].remote = Head(w.changes)
                               THEN [docs[d] EXCEPT !.cloud = "REMOTE_DELETED"]
                               ELSE docs[d]]
    /\ w' = [w EXCEPT !.changes = Tail(@)]
    /\ UNCHANGED <<jobs, setting, items, feed, historyVars>>
    /\ WorkerOnly

\* The cursor is written after the changes it covers, for the organization and
\* not for the account it came from.
SaveCursor ==
    /\ w.pc = "apply"
    /\ w.changes = <<>>
    /\ setting' = [setting EXCEPT !.cursor = [of |-> w.account, at |-> w.to]]
    /\ w' = [IdleWorker EXCEPT !.pc = "loop"]
    /\ UNCHANGED <<docs, jobs, items, feed, historyVars>>
    /\ WorkerOnly

-----------------------------------------------------------------------------
(* CloudSyncWorker: process_next.                                          *)

LoopEnds ==
    /\ w.pc = "loop"
    /\ Waiting(jobs) = {}
    /\ w' = IdleWorker
    /\ UNCHANGED <<docs, jobs, setting, items, feed, historyVars>>
    /\ WorkerOnly

\* next_pending and mark_running: no other thread takes jobs.
ClaimJob ==
    /\ w.pc = "loop"
    /\ \E j \in NextPending(jobs) :
           /\ jobs' = MarkRunning(jobs, j)
           /\ w' = [w EXCEPT !.pc = "read", !.phase = "job", !.job = j,
                             !.doc = jobs[j].doc]
    /\ UNCHANGED <<docs, setting, items, feed, historyVars>>
    /\ WorkerOnly

ReadDocument ==
    /\ w.pc = "read"
    /\ w' = IF docs[w.doc].status = "ACTIVE"
            THEN [w EXCEPT !.pc = "check", !.seen = [d \in {w.doc} |-> docs[d]]]
            ELSE Failing
    /\ jobs' = IF docs[w.doc].status = "ACTIVE" THEN jobs ELSE Retry(jobs, w.job)
    /\ UNCHANGED <<docs, setting, items, feed, historyVars>>
    /\ WorkerOnly

\* A job of another provider than the one in use, or no provider at hand, is an
\* error; with the provider synchronize_structure is run again.
CheckAccount ==
    /\ w.pc = "check"
    /\ w' = IF Available /\ SyncMode = jobs[w.job].provider
            THEN [w EXCEPT !.pc = "transfer", !.account = setting.account]
            ELSE [w EXCEPT !.pc = "error"]
    /\ UNCHANGED <<docs, jobs, setting, items, feed, historyVars>>
    /\ WorkerOnly

JobFails ==
    /\ w.pc \in {"check", "transfer", "upload", "relabel"}
    /\ w.phase = "job"
    /\ w' = [w EXCEPT !.pc = "error"]
    /\ UNCHANGED <<docs, jobs, setting, items, feed, historyVars>>
    /\ WorkerOnly

Row == w.seen[w.doc]
Op == jobs[w.job].op

BeginTransfer ==
    /\ w.pc = "transfer"
    /\ \/ /\ Op = "UPLOAD"
          /\ docs' = CloudState(docs, w.doc, "UPLOADING", NoItem)
          /\ w' = [w EXCEPT !.pc = "upload"]
       \/ /\ Op # "UPLOAD"
          /\ docs' = docs
          /\ w' = [w EXCEPT !.pc = IF Row.remote = NoItem THEN "error" ELSE "relabel"]
    /\ UNCHANGED <<jobs, setting, items, feed, historyVars>>
    /\ WorkerOnly

NewItem == {i \in Items : /\ items[i].state = "none"
                          /\ \A k \in Items : k < i => items[k].state # "none"}

\* The file becomes an item; the answer may be lost.
UploadNew ==
    /\ w.pc = "upload"
    /\ Row.remote = NoItem
    /\ \E i \in NewItem, answered \in BOOLEAN :
           /\ items' = [items EXCEPT ![i] = [state |-> "live", account |-> w.account,
                            doc |-> w.doc, name |-> Row.name, place |-> Row.place]]
           /\ IF answered
              THEN /\ w' = [w EXCEPT !.pc = "record", !.item = i]
                   /\ UNCHANGED strays
              ELSE /\ w' = [w EXCEPT !.pc = "error"]
                   /\ strays' = strays \cup {i}
    /\ UNCHANGED <<docs, jobs, setting, feed, orphans, missed, overtaken>>
    /\ WorkerOnly

\* The content of an item is replaced; only one of the providers takes the
\* name with it, and none the place.
UploadExisting ==
    /\ w.pc = "upload"
    /\ Row.remote # NoItem
    /\ IF Found(w.account, Row.remote)
       THEN /\ \/ items' = items
               \/ items' = [items EXCEPT ![Row.remote].name = Row.name]
            /\ w' = [w EXCEPT !.pc = "record", !.item = Row.remote]
       ELSE /\ items' = items
            /\ w' = [w EXCEPT !.pc = "error"]
    /\ UNCHANGED <<docs, jobs, setting, feed, historyVars>>
    /\ WorkerOnly

Relabel ==
    /\ w.pc = "relabel"
    /\ IF Found(w.account, Row.remote)
       THEN /\ items' = IF Op = "RENAME"
                        THEN [items EXCEPT ![Row.remote].name = Row.name]
                        ELSE [items EXCEPT ![Row.remote].place = Row.place]
            /\ w' = [w EXCEPT !.pc = "record", !.item = Row.remote]
       ELSE /\ items' = items
            /\ w' = [w EXCEPT !.pc = "error"]
    /\ UNCHANGED <<docs, jobs, setting, feed, historyVars>>
    /\ WorkerOnly

\* Mutant: the remote id is passed for uploads only.
RecordUploadOnly ==
    /\ w.pc = "record"
    /\ docs' = CloudState(docs, w.doc, "SYNCED", IF Op = "UPLOAD" THEN w.item ELSE NoItem)
    /\ w' = [w EXCEPT !.pc = "complete"]
    /\ UNCHANGED <<jobs, setting, items, feed, historyVars>>
    /\ WorkerOnly

Record ==
    /\ w.pc = "record"
    /\ docs' = CloudState(docs, w.doc, "SYNCED", w.item)
    /\ w' = [w EXCEPT !.pc = "complete"]
    /\ UNCHANGED <<jobs, setting, items, feed, historyVars>>
    /\ WorkerOnly

CompleteJob ==
    /\ w.pc = "complete"
    /\ jobs' = Complete(jobs, w.job)
    /\ w' = [IdleWorker EXCEPT !.pc = "loop"]
    /\ UNCHANGED <<docs, setting, items, feed, historyVars>>
    /\ WorkerOnly

\* The audit record is refused: the handler writes the row it read at first.
AuditFails ==
    /\ w.pc = "complete"
    /\ w' = [w EXCEPT !.pc = "error", !.item = NoItem]
    /\ strays' = strays \cup ({w.item} \ {Row.remote})
    /\ UNCHANGED <<docs, jobs, setting, items, feed, orphans, missed, overtaken>>
    /\ WorkerOnly

RecordError ==
    /\ w.pc = "error"
    /\ docs' = CloudState(docs, w.doc, "SYNC_ERROR", Row.remote)
    /\ w' = [w EXCEPT !.pc = "retry"]
    /\ UNCHANGED <<jobs, setting, items, feed, historyVars>>
    /\ WorkerOnly

RetryJob ==
    /\ w.pc = "retry"
    /\ jobs' = Retry(jobs, w.job)
    /\ w' = Failing
    /\ missed' = IF Op # "UPLOAD" /\ jobs'[w.job].status = "ERROR"
                 THEN missed \cup {w.doc} ELSE missed
    /\ UNCHANGED <<docs, setting, items, feed, orphans, strays, overtaken>>
    /\ WorkerOnly

\* mark_pending_documents_failed: one failure ends the run of the worker.
FailDocuments ==
    /\ w.pc = "fail"
    /\ docs' = [d \in Docs |-> IF docs[d].status = "ACTIVE" /\ OpenJobsOf(jobs, d) # {}
                               THEN [docs[d] EXCEPT !.cloud = "SYNC_ERROR"]
                               ELSE docs[d]]
    /\ w' = [w EXCEPT !.pc = "failjobs"]
    /\ UNCHANGED <<jobs, setting, items, feed, historyVars>>
    /\ WorkerOnly

FailJobs ==
    /\ w.pc = "failjobs"
    /\ jobs' = FailPending(jobs)
    /\ w' = IdleWorker
    /\ orphans' = {}
    /\ UNCHANGED <<docs, setting, items, feed, strays, missed, overtaken>>
    /\ WorkerOnly

-----------------------------------------------------------------------------
\* The items whose ids only the worker knows.
InHand == IF w.phase = "job" /\ w.pc \in {"upload", "relabel", "record", "complete",
                                         "error", "retry"}
          THEN ({w.item, Row.remote} \ {NoItem}) \ {docs[d].remote : d \in Docs}
          ELSE {}

\* No job is recovered at the next start.
CrashAndRestart ==
    /\ count.crashes < MaxCrashes
    /\ count' = [count EXCEPT !.crashes = @ + 1]
    /\ w' = IdleWorker
    /\ importer' = [d \in Docs |-> NotImporting]
    /\ opened' = [doc |-> NoDoc]
    /\ orphans' = {j \in JobIds : jobs[j].status = "RUNNING"}
    /\ strays' = strays \cup InHand
    /\ overtaken' = overtaken \cup {d \in Docs : importer[d].pc = "enqueue"}
    /\ UNCHANGED <<docs, jobs, setting, items, feed, missed>>

Interface ==
    \/ \E d \in Docs : \/ ImportDocument(d)
                       \/ ImportReadSettings(d)
                       \/ ImportMark(d)
                       \/ ImportEnqueue(d)
                       \/ \E n \in Names : RenameDocument(d, n)
                       \/ \E p \in Places : MoveDocument(d, p)
                       \/ OpenRead(d)
                       \/ PermanentlyDelete(d)
    \/ OpenWrite
    \/ \E a \in Accounts \cup {NoAccount} : Configure(a)
    \/ \E b \in BOOLEAN : SetPaused(b)

Remote == \E i \in Items, state \in {"trashed", "gone"} : RemoteRemove(i, state)

Worker ==
    \/ StartSync \/ SyncFails \/ OpenProvider \/ ListDocuments
    \/ \E d \in Docs : ReconcileItem(d)
    \/ ReconcileWrite \/ ListChanges \/ ApplyChange \/ SaveCursor
    \/ LoopEnds \/ ClaimJob \/ ReadDocument \/ CheckAccount \/ JobFails
    \/ BeginTransfer \/ UploadNew \/ UploadExisting \/ Relabel \/ Record
    \/ CompleteJob \/ AuditFails \/ RecordError \/ RetryJob \/ FailDocuments
    \/ FailJobs

Next == Interface \/ Remote \/ Worker \/ CrashAndRestart

Spec == Init /\ [][Next]_vars

\* The worker's thread runs; the provider may refuse every call.
FairSpec == Spec /\ WF_vars(Worker)

-----------------------------------------------------------------------------
(* Properties.                                                             *)

\* Types of the tables and of the worker's memory (cloud_models.py).
CloudTypeOK ==
    /\ docs \in [Docs -> Document]
    /\ jobs \in [JobIds -> SyncJob]
    /\ \A j \in JobIds : jobs[j].status # "NONE" =>
           jobs[j].doc # NoDoc /\ jobs[j].provider # NoProvider
    /\ setting \in [account : Accounts \cup {NoAccount}, paused : BOOLEAN,
                    cursor : Cursor]
    /\ items \in [Items -> Item]
    /\ feed \in [Accounts -> Seq(Items)]
    /\ w.pc \in WorkerSteps
    /\ w.job \in JobIds \cup {NoJob}
    /\ w.item \in Items \cup {NoItem}
    /\ importer \in [Docs -> [pc : {"idle", "saved", "mark", "enqueue"},
                              provider : Providers \cup {NoProvider}]]
    /\ orphans \subseteq JobIds
    /\ strays \subseteq Items
    /\ missed \cup overtaken \subseteq Docs

\* No job is tried more than MaxAttempts times, once more for a crash: a job
\* left RUNNING is put back without a look at its attempts.
AttemptsBounded ==
    \A j \in JobIds : jobs[j].attempts <= MaxAttempts + count.crashes

\* A job is RUNNING only in the hands of the worker, or since a crash that no
\* failing synchronization has followed (process_next writes an outcome on
\* every exit).
RunningIsWorked ==
    \A j \in JobIds : jobs[j].status = "RUNNING" => j = w.job \/ j \in orphans

\* The queue is sound: types, attempts within their limit, nothing left RUNNING.
QueueSound == CloudTypeOK /\ AttemptsBounded /\ RunningIsWorked

\* Every file of a document in an account is the one the document points to,
\* unless the worker still holds its id or a known gap has lost it: a lost
\* answer, a crash, a refused audit record, or an old row written over the new
\* one.  (Deleting a document leaves its file in the account.)
NoUnknownItem ==
    \A i \in Items :
        items[i].state = "live" /\ docs[items[i].doc].status = "ACTIVE" =>
        docs[items[i].doc].remote = i \/ i \in strays \cup InHand

\* The rows of sync_jobs and of documents account for what is going on in the
\* accounts: no job and no file there that nobody knows of.
NothingUnknown == QueueSound /\ NoUnknownItem

\* A document shown as waiting for its upload has a job that will do it
\* (cloud_status against sync_jobs), unless an old row was written over its
\* state or the job had begun when it was marked.
WaitingIsQueued ==
    \A d \in Docs :
        /\ docs[d].status = "ACTIVE"
        /\ docs[d].cloud \in {"PENDING_UPLOAD", "UPLOADING"}
        /\ d \notin overtaken \cup missed
        => \/ OpenJobs(jobs, d, "UPLOAD") # {}
           \/ importer[d].pc = "enqueue"

\* A document shown as synchronized with nothing left to do for it has its name
\* and place in the account, unless an edit found nothing enqueued for it or its
\* job was given up; the reconciliation of the next synchronization mends that.
LabelsFollow ==
    \A d \in Docs :
        LET i == docs[d].remote
        IN /\ docs[d].status = "ACTIVE"
           /\ docs[d].cloud = "SYNCED"
           /\ i # NoItem
           /\ OpenJobsOf(jobs, d) = {}
           /\ d \notin missed \cup overtaken
           => /\ items[i].name = docs[d].name
              /\ items[i].place = docs[d].place

\* The cloud state the user is shown is true: what waits will be sent, what is
\* synchronized is in the account as it is here.
ShownStateIsTrue == WaitingIsQueued /\ LabelsFollow

\* When a synchronization writes its cursor, no document whose item was removed
\* for good before it began is still shown as synchronized.
SyncSeesRemovals ==
    [][w.pc = "apply" /\ w'.pc = "loop" =>
           \A d \in Docs \ overtaken :
               docs[d].status = "ACTIVE" /\ docs[d].remote \in w.gone
               => docs[d].cloud # "SYNCED"]_vars

\* If synchronizations keep getting as far as the queue, every job has had its
\* last attempt some day (CloudJobQueue.retry counts them, and the least tried
\* job comes first).
JobsEnd ==
    []<>(w.pc = "loop") =>
        \A j \in JobIds : <>[](jobs[j].status \notin {"PENDING", "RETRY"})
=============================================================================
