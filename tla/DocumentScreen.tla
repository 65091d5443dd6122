---------------------------- MODULE DocumentScreen ----------------------------
(***************************************************************************)
(* DocumentController: the threads behind the documents screen and what it *)
(* shows of their results.                                                 *)
(*                                                                         *)
(* The lists of the screen are read by the thread of the interface and are *)
(* right when drawn; the physical usage and the cloud's capacity come from *)
(* threads, late.  Synchronizations and authorizations are not waited for  *)
(* at the end of a session: those of every login are kept, by its number.  *)
(* What a thread of the store or of the cloud does is in DocumentStore and *)
(* CloudSync; here it changes the files of its organization or not.  A     *)
(* thread queues its result and its end together: they are delivered in    *)
(* one step.                                                               *)
(***************************************************************************)
EXTENDS DesktopSession

VARIABLES
  files,     \* what an organization keeps on disk: a version, counted up
  usage,     \* the physical usage shown: of which organization, and version
  meter,     \* _physical_worker
  again,     \* _physical_refresh_pending
  drawn,     \* the version of the files at the last redrawing, for a property
  quota,     \* the capacity shown: "none", "loading" or an organization's
  quotas,    \* _cloud_quota_workers
  opening,   \* _open_workers of on_open_document
  imports,   \* _import_worker, by login
  syncs,     \* _cloud_worker, by login
  syncRegistry, \* _active_cloud_workers, of the class: organization -> login
  waiting,   \* organizations with pending rows in the cloud queue
  linked,    \* the account of an organization's cloud settings
  asks,      \* the question whether to sign in again, by login
  auths,     \* _cloud_auth_worker, by login
  retries,   \* _retry_sync_after_reauthentication, by login
  soon       \* logins whose on_sync_now is queued with singleShot(250, ...)

screen == <<usage, meter, again, drawn, quota, quotas, opening>>
physical == <<usage, meter, again, drawn>>
cloud == <<syncs, syncRegistry, asks, auths, retries, soon>>
stored == <<files, waiting, linked>>
documentVars == <<screen, cloud, stored, imports>>

Unknown == [of |-> NoOrg, files |-> 0]
Failed(o) == [of |-> o, files |-> 0]
NoneOf == [l \in Logins |-> NoWorker]

\* The screen of the first login, at rest; rows may have been left in the
\* cloud queue before.
DocumentInit ==
  /\ files = [o \in Orgs |-> 1]
  /\ usage = [of |-> org, files |-> 1] /\ again = FALSE /\ drawn = 1
  /\ meter = NoWorker
  /\ linked \in [Orgs -> {"CONNECTED", "LOCAL"}]
  /\ waiting \in SUBSET {o \in Orgs : linked[o] # "LOCAL"}
  /\ quota = IF linked[org] # "LOCAL" THEN org ELSE "none"
  /\ quotas = {}
  /\ opening = {}
  /\ imports = NoneOf /\ syncs = NoneOf /\ auths = NoneOf
  /\ syncRegistry = [o \in Orgs |-> 0]
  /\ asks = [l \in Logins |-> NoOrg] /\ retries = [l \in Logins |-> NoOrg]
  /\ soon = {}

----------------------------------------------------------------------------
(* What the controller redraws.  These read the session, the account and   *)
(* the files as the action leaves them.                                    *)

\* _refresh_storage: the logical usage is drawn at once and takes the
\* physical one off; the thread that counts it is started, or started again
\* at its end.
RefreshStorage ==
  /\ usage' = Unknown
  /\ drawn' = files'[org']
  /\ IF meter = NoWorker
     THEN /\ meter' = [at |-> "runs", org |-> org', seen |-> 0]
          /\ again' = FALSE
     ELSE again' = TRUE /\ UNCHANGED meter

\* Results asked for before are not wanted any more, whatever follows.
Unasked == {[q EXCEPT !.asked = FALSE] : q \in quotas}

\* _refresh_cloud, as far as the capacity goes.
RefreshCloud ==
  CASE linked'[org'] # "CONNECTED" ->
         quota' = "none" /\ quotas' = Unasked
    [] linked'[org'] = "CONNECTED"
         /\ (\E q \in quotas : q.own /\ Runs(q) /\ q.org = org') ->
         quotas' = Unasked /\ UNCHANGED quota
    [] OTHER ->
         /\ quota' = "loading"
         /\ quotas' = {[q EXCEPT !.own = FALSE] : q \in Unasked}
              \cup {[at |-> "runs", org |-> org', asked |-> TRUE,
                     own |-> TRUE]}

\* refresh_organization_state.
RefreshOrganization == RefreshCloud /\ RefreshStorage

RefreshNothing == UNCHANGED <<physical, quota, quotas>>

----------------------------------------------------------------------------
(* Physical usage *)

MeterEnds ==
  /\ Runs(meter)
  /\ \E seen \in {0, files[meter.org]} :
       meter' = [meter EXCEPT !.at = "ended", !.seen = seen]
  /\ UNCHANGED <<session, left, usage, again, drawn, quota, quotas, opening,
                 cloud, stored, imports>>

\* Mutant: what was asked meanwhile is forgotten.
MeterDeliveredOnce ==
  /\ meter.at = "ended"
  /\ UNCHANGED <<session, left, drawn, quota, quotas, opening, cloud, stored,
                 imports>>
  /\ meter' = NoWorker /\ again' = FALSE
  /\ usage' = IF meter.org = org
              THEN [of |-> org, files |-> meter.seen] ELSE usage

\* _DocumentFileCallbacks: a result for another organization is dropped.
\* The usage is counted once more when that was asked for meanwhile, or when
\* the organization is another by now.
MeterDelivered ==
  /\ meter.at = "ended"
  /\ UNCHANGED <<session, left, quota, quotas, opening, cloud, stored,
                 imports>>
  /\ again' = FALSE
  /\ IF again \/ meter.org # org
     THEN /\ usage' = Unknown /\ drawn' = files[org]
          /\ meter' = [at |-> "runs", org |-> org, seen |-> 0]
     ELSE /\ usage' = [of |-> org, files |-> meter.seen]
          /\ meter' = NoWorker /\ UNCHANGED drawn

----------------------------------------------------------------------------
(* Capacity of the cloud *)

QuotaEnds ==
  \E q \in quotas :
    /\ Runs(q)
    /\ quotas' = (quotas \ {q}) \cup {Done(q, "ended")}
    /\ UNCHANGED <<session, left, physical, quota, opening, cloud, stored,
                   imports>>

\* The last request only, and of the active organization.
QuotaWanted(q) == q.asked /\ q.org = org /\ linked[org] # "LOCAL"

\* The result, if there is one, and the end of the thread.
QuotaResult ==
  \E q \in quotas :
    /\ q.at = "ended"
    /\ quota' \in {quota} \cup (IF QuotaWanted(q) THEN {q.org} ELSE {})
    /\ quotas' = quotas \ {q}
    /\ UNCHANGED <<session, left, physical, opening, cloud, stored, imports>>

----------------------------------------------------------------------------
(* Synchronization *)

SyncHolds(o) == syncRegistry[o] # 0 /\ Runs(syncs[syncRegistry[o]])

\* on_sync_now: one thread for a controller, and one for an organization
\* over all controllers.
OnSyncNow(l) ==
  IF inside /\ syncs[l] = NoWorker /\ ~SyncHolds(org')
  THEN IF linked[org'] = "LOCAL"
       THEN /\ syncRegistry' = [syncRegistry EXCEPT ![org'] = 0]
            /\ UNCHANGED syncs
       ELSE /\ syncs' = [syncs EXCEPT ![l] =
                           [at |-> "runs", org |-> org', how |-> "none"]]
            /\ syncRegistry' = [syncRegistry EXCEPT ![org'] = l]
  ELSE UNCHANGED <<syncs, syncRegistry>>

\* _auto_sync.
AutoSync(l) ==
  IF linked[org'] # "LOCAL" /\ org' \in waiting' /\ syncs[l] = NoWorker
  THEN OnSyncNow(l) ELSE UNCHANGED <<syncs, syncRegistry>>

\* The timer of the controller in use, every minute.
AutoSyncTimer ==
  /\ inside
  /\ UNCHANGED <<session, left, screen, stored, imports, asks, auths,
                 retries, soon>>
  /\ AutoSync(login)

\* The button.
SyncNow ==
  /\ Gesture("documents")
  /\ UNCHANGED <<session, screen, stored, imports, asks, auths, retries,
                 soon>>
  /\ OnSyncNow(login)

\* singleShot(250, on_sync_now), which nothing stops.
SyncSoon ==
  \E l \in soon :
    /\ soon' = soon \ {l}
    /\ UNCHANGED <<session, left, screen, stored, imports, asks, auths,
                   retries>>
    /\ OnSyncNow(l)

\* CloudSyncWorker.run: rows are done or marked failed; files may have come.
SyncEnds(l) ==
  LET o == syncs[l].org
  IN  /\ Runs(syncs[l])
      /\ waiting' = waiting \ {o}
      /\ \/ /\ linked[o] = "CONNECTED"
            /\ files' \in {files, [files EXCEPT ![o] = @ + 1]}
            /\ syncs' = [syncs EXCEPT ![l] = Done([@ EXCEPT !.how = "ok"],
                                                  "ended")]
            /\ UNCHANGED <<linked, left>>
         \/ /\ linked[o] # "EXPIRED"
            /\ syncs' = [syncs EXCEPT ![l] = Done([@ EXCEPT !.how = "failed"],
                                                  "ended")]
            /\ UNCHANGED <<files, linked, left>>
         \/ /\ linked[o] = "EXPIRED" \/ (linked[o] = "CONNECTED" /\ left > 0)
            /\ left' = IF linked[o] = "EXPIRED" THEN left ELSE left - 1
            /\ linked' = [linked EXCEPT ![o] = "EXPIRED"]
            /\ syncs' = [syncs EXCEPT ![l] = Done([@ EXCEPT !.how = "reauth"],
                                                  "ended")]
            /\ UNCHANGED files
  /\ UNCHANGED <<session, screen, imports, syncRegistry, asks, auths, retries,
                 soon>>

\* succeeded, failed or reauthentication_required is delivered: dropped when
\* another organization is active.  A closed window asks, too.
SyncResult(l) ==
  /\ asks' = IF syncs[l].how = "reauth" /\ syncs[l].org = org
             THEN [asks EXCEPT ![l] = org] ELSE asks
  /\ IF syncs[l].org = org /\ ~Closing(l)
     THEN RefreshOrganization ELSE RefreshNothing

\* _cleanup_cloud_worker: out of the registry where it still stands.
CleanupCloudWorker(l) ==
  LET o == syncs[l].org
  IN  /\ syncs' = [syncs EXCEPT ![l] = NoWorker]
      /\ syncRegistry' = IF syncRegistry[o] = l
                         THEN [syncRegistry EXCEPT ![o] = 0] ELSE syncRegistry

SyncDelivered(l) ==
  /\ syncs[l].at = "ended"
  /\ UNCHANGED <<session, left, opening, stored, imports, auths, retries,
                 soon>>
  /\ SyncResult(l) /\ CleanupCloudWorker(l)

----------------------------------------------------------------------------
(* Signing in to the cloud *)

\* on_add_cloud_account: one at a time for a controller.
OnAddCloudAccount(l) ==
  auths' = IF inside /\ auths[l] = NoWorker
           THEN [auths EXCEPT ![l] = [at |-> "runs", org |-> org]]
           ELSE auths

AddCloudAccount ==
  /\ Gesture("documents")
  /\ UNCHANGED <<session, screen, stored, imports, syncs, syncRegistry, asks,
                 retries, soon>>
  /\ OnAddCloudAccount(login)

\* The question is answered; yes signs in for the organization now active.
AnswerQuestion(l) ==
  /\ asks[l] # NoOrg
  /\ asks' = [asks EXCEPT ![l] = NoOrg]
  /\ UNCHANGED <<session, left, screen, stored, imports, syncs, syncRegistry,
                 soon>>
  /\ \/ UNCHANGED <<auths, retries>>
     \/ /\ retries' = [retries EXCEPT ![l] = org]
        /\ OnAddCloudAccount(l)

AuthEnds(l) ==
  /\ Runs(auths[l])
  /\ \E how \in {"granted", "refused"} :
       auths' = [auths EXCEPT ![l] = Done(@, how)]
  /\ UNCHANGED <<session, left, screen, stored, imports, syncs, syncRegistry,
                 asks, retries, soon>>

Redraws(l, o) ==
  IF o = org /\ ~Closing(l)
  THEN RefreshCloud /\ UNCHANGED physical
  ELSE RefreshNothing

\* _on_cloud_auth_succeeded: kept for the organization it was asked for, if
\* the session still allows it; a synchronization that was put off follows.
AuthGranted(l) ==
  LET o == auths[l].org
      retried == inside /\ retries[l] = o
  IN  /\ auths[l].at = "granted"
      /\ auths' = [auths EXCEPT ![l] = NoWorker]
      /\ linked' = IF inside THEN [linked EXCEPT ![o] = "CONNECTED"]
                   ELSE linked
      /\ retries' = IF retried THEN [retries EXCEPT ![l] = NoOrg] ELSE retries
      /\ soon' = IF retried /\ o = org THEN soon \cup {l} ELSE soon
      /\ UNCHANGED <<session, left, opening, files, waiting, imports, syncs,
                     syncRegistry, asks>>
      /\ Redraws(l, o)

\* _on_cloud_auth_failed.
AuthRefused(l) ==
  LET o == auths[l].org
  IN  /\ auths[l].at = "refused"
      /\ auths' = [auths EXCEPT ![l] = NoWorker]
      /\ retries' = IF retries[l] = o THEN [retries EXCEPT ![l] = NoOrg]
                    ELSE retries
      /\ UNCHANGED <<session, left, opening, stored, imports, syncs,
                     syncRegistry, asks, soon>>
      /\ Redraws(l, o)

\* on_disconnect_cloud, or "Local" chosen as provider.
DisconnectCloud ==
  /\ Gesture("documents") /\ linked[org] # "LOCAL"
  /\ linked' = [linked EXCEPT ![org] = "LOCAL"]
  /\ waiting' = waiting \ {org}
  /\ UNCHANGED <<session, opening, files, imports, cloud, physical>>
  /\ RefreshCloud

----------------------------------------------------------------------------
(* Files *)

\* The files of an organization change and its cloud queue gets rows.
FilesChange(o) ==
  /\ files' = [files EXCEPT ![o] = @ + 1]
  /\ waiting' = IF linked[o] = "LOCAL" THEN waiting ELSE waiting \cup {o}

\* on_paste_document, on_permanent_delete_document, on_empty_trash.
DocumentsChange ==
  /\ FilesChange(org)
  /\ UNCHANGED <<linked, opening, cloud, imports, quota, quotas>>
  /\ RefreshStorage

\* on_import_document: one import at a time for a controller.
OnImportDocument ==
  /\ Gesture("documents") /\ imports[login] = NoWorker
  /\ imports' = [imports EXCEPT ![login] =
                   [at |-> "runs", org |-> org, stop |-> FALSE]]
  /\ UNCHANGED <<session, screen, cloud, stored>>

\* Interrupted, it has imported some or none and tells nothing.
ImportEnds(l) ==
  LET w == imports[l]
  IN  /\ Runs(w)
      /\ imports' = [imports EXCEPT ![l] =
                       IF w.stop THEN NoWorker ELSE Done(@, "ended")]
      /\ \/ FilesChange(w.org)
         \/ w.stop /\ UNCHANGED <<files, waiting>>
      /\ UNCHANGED <<session, left, screen, cloud, linked>>

\* completed, without the notice to the transport.
ImportResult(l) ==
  LET w == imports[l]
  IN  /\ w.at = "ended"
      /\ imports' = [imports EXCEPT ![l] = NoWorker]
      /\ UNCHANGED <<session, left, opening, stored, quota, quotas, asks,
                     auths, retries, soon>>
      /\ IF w.org # org
         THEN UNCHANGED <<physical, syncs, syncRegistry>>
         ELSE /\ AutoSync(l)
              /\ IF Closing(l) THEN UNCHANGED physical
                 ELSE RefreshStorage

\* on_open_document: any number at once, told apart by the gesture.
OnOpenDocument(doc) ==
  /\ Gesture("documents")
  /\ opening' = opening \cup
       {[at |-> "runs", org |-> org, doc |-> doc, nth |-> left]}
  /\ UNCHANGED <<session, physical, quota, quotas, cloud, stored, imports>>

OpenEnds ==
  \E w \in opening :
    /\ Runs(w)
    /\ \E how \in {"ended", "failed"} :
         opening' = (opening \ {w}) \cup {Done(w, how)}
    /\ UNCHANGED <<session, left, physical, quota, quotas, cloud, stored,
                   imports>>

\* The worker's signals are delivered; what is opened is the viewer's.
OpenDelivered(w) ==
  /\ w \in opening /\ ~Runs(w)
  /\ opening' = opening \ {w}
  /\ UNCHANGED <<session, left, physical, quota, quotas, cloud, stored,
                 imports>>

Opens(w) == w.at = "ended" /\ w.org = org

----------------------------------------------------------------------------
(* Organizations and sessions *)

\* refresh_organization_state, after the active organization has changed.
DocumentOrganizationChanged ==
  /\ UNCHANGED <<opening, cloud, stored, imports>>
  /\ RefreshOrganization

\* shutdown: the threads of files are interrupted and waited for; what the
\* others have to say is only seen by a closed window.
DocumentShutdown ==
  /\ meter' = NoWorker /\ again' = FALSE /\ opening' = {} /\ quotas' = {}
  /\ usage' = Unknown /\ drawn' = 0 /\ quota' = "none"
  /\ imports' = IF Runs(imports[login])
                THEN [imports EXCEPT ![login].stop = TRUE] ELSE imports
  /\ UNCHANGED <<cloud, stored>>

DocumentStart ==
  /\ UNCHANGED <<opening, cloud, stored, imports>>
  /\ RefreshOrganization

DocumentMachine ==
  \/ MeterEnds \/ MeterDelivered
  \/ QuotaEnds \/ QuotaResult \/ OpenEnds
  \/ AutoSyncTimer \/ SyncSoon
  \/ \E l \in Logins :
       \/ SyncEnds(l) \/ SyncDelivered(l) \/ AnswerQuestion(l)
       \/ AuthEnds(l) \/ AuthGranted(l) \/ AuthRefused(l) \/ ImportEnds(l)

----------------------------------------------------------------------------

NoQuestion == \A l \in Logins : asks[l] = NoOrg

\* An organization never has two synchronizations at its queue, whichever
\* login started them: CloudSync counts on it.
OneSyncWorker ==
  \A k, l \in Logins :
    Runs(syncs[k]) /\ Runs(syncs[l]) /\ syncs[k].org = syncs[l].org => k = l

\* What the screen shows of a thread's result is of the active organization.
FiguresAreOwn ==
  /\ usage.of \in {NoOrg, org}
  /\ quota \in {"none", "loading", org}

\* The physical usage shown is the active organization's, counted not before
\* the screen was last redrawn, or counting failed.
UsageIsCurrent ==
  usage.of = org /\ (usage = Failed(org) \/ usage.files >= drawn)
=============================================================================
