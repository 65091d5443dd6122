---------------------------- MODULE TransportTargets ----------------------------
(***************************************************************************)
(* OrganizationTransportService.configure and the credential vault: where  *)
(* an organization's transport copies go, and the secrets it goes there    *)
(* with.                                                                   *)
(*                                                                         *)
(* A destination is never changed: another one takes its place and the old *)
(* one is retired, but its jobs and the copies it holds may still need its *)
(* secret.  The secrets are in the vault of the operating system, outside  *)
(* every transaction, and jobs come and end on other threads while the     *)
(* settings are saved.  What jobs do is in CorporateTransport.             *)
(***************************************************************************)
EXTENDS Naturals, Sequences, FiniteSets

CONSTANTS
  Files,      \* documents that may be sent
  Endpoints,  \* addresses the user may give
  MaxSaves    \* times the settings are saved, a bound

ASSUME TargetsAssumption == MaxSaves \in Nat \ {0} /\ Endpoints # {}

VARIABLES
  settings,  \* the organization's row of organization_transport_settings
  targets,   \* organization_transport_targets, by id
  vault,     \* the secrets in the vault of the operating system
  issued,    \* saves begun so far: a new secret is named by its number
  jobs,      \* file -> its jobs
  reads,     \* file -> the current target an import has read for it, or none
  saving,    \* the save in progress, or none
  spilled    \* secrets a crash or an unavailable vault has left behind

targetVars ==
  <<settings, targets, vault, issued, jobs, reads, saving, spilled>>

None == 0
Modes == {"LOCAL", "NAS", "HTTPS"}
Idle == [at |-> "idle"]
NoJob == [status |-> "none", target |-> None, late |-> FALSE]

TargetsInit ==
  /\ settings = [mode |-> "LOCAL", endpoint |-> "none", ref |-> None,
                 target |-> None, enabled |-> FALSE]
  /\ targets = <<>> /\ vault = {} /\ issued = 0 /\ spilled = {}
  /\ jobs = [f \in Files |-> [upload |-> NoJob, delete |-> NoJob]]
  /\ reads = [f \in Files |-> None]
  /\ saving = Idle

----------------------------------------------------------------------------
(* configure, on the interface's thread *)

\* _validate_endpoint: no address at all for LOCAL.
Choices ==
  {[mode |-> m, endpoint |-> e, enabled |-> on] :
     m \in Modes \ {"LOCAL"}, e \in Endpoints, on \in BOOLEAN}
    \cup {[mode |-> "LOCAL", endpoint |-> "none", enabled |-> FALSE]}

\* The checks, and a new secret stored before anything else: a vault that
\* refuses it ends the save here.
StartSave ==
  /\ saving = Idle /\ issued < MaxSaves
  /\ \E want \in Choices, secret \in {"keep", "replace", "remove"} :
       /\ want.mode = "LOCAL" => secret # "replace"
       /\ issued' = issued + 1
       /\ vault' = IF secret = "replace" THEN vault \cup {issued'} ELSE vault
       /\ saving' =
            [at |-> "writes", want |-> want, old |-> settings.ref,
             new |-> IF secret = "replace" THEN issued' ELSE None,
             ref |-> CASE secret = "replace" -> issued'
                       [] secret = "keep" /\ want.mode # "LOCAL" -> settings.ref
                       [] OTHER -> None]
  /\ UNCHANGED <<settings, targets, jobs, reads, spilled>>

\* _same_physical_target.
SameTarget(i, want, ref) ==
  /\ i # None /\ targets[i].status = "ACTIVE"
  /\ targets[i].mode = want.mode /\ targets[i].endpoint = want.endpoint
  /\ targets[i].ref = ref

\* _retire_target.
Retired(i) ==
  IF i = None THEN targets ELSE [targets EXCEPT ![i].status = "RETIRED"]

\* The transaction; an old secret that is no longer wanted is looked at next.
WriteSettings ==
  LET want == saving.want
      kept == SameTarget(settings.target, want, saving.ref)
      row == [mode |-> want.mode, endpoint |-> want.endpoint,
              ref |-> saving.ref, status |-> "ACTIVE"]
  IN  /\ saving.at = "writes"
      /\ targets' = CASE want.mode = "LOCAL" -> Retired(settings.target)
                      [] want.mode # "LOCAL" /\ kept -> targets
                      [] OTHER -> Append(Retired(settings.target), row)
      /\ settings' =
           [mode |-> want.mode, endpoint |-> want.endpoint, ref |-> saving.ref,
            enabled |-> want.enabled,
            target |-> CASE want.mode = "LOCAL" -> None
                         [] want.mode # "LOCAL" /\ kept -> settings.target
                         [] OTHER -> Len(targets')]
      /\ saving' = IF saving.old \in {None, saving.ref} THEN Idle
                   ELSE [saving EXCEPT !.at = "actives"]
      /\ UNCHANGED <<vault, issued, jobs, reads, spilled>>

\* The transaction fails: discard_compensation, which the vault may refuse.
FailSave ==
  /\ saving.at = "writes" /\ saving' = Idle
  /\ \/ /\ vault' = vault \ {saving.new} /\ UNCHANGED spilled
     \/ /\ spilled' = spilled \cup ({saving.new} \ {None})
        /\ UNCHANGED vault
  /\ UNCHANGED <<settings, targets, issued, jobs, reads>>

\* is_credential_in_use, its first query.
ActiveTargetUses(ref) ==
  \E i \in DOMAIN targets : targets[i].ref = ref /\ targets[i].status = "ACTIVE"

\* A job that is not over, or an upload whose copy was not deleted.
JobNeeds(f, job) ==
  \/ jobs[f][job].status \in {"queued", "FAILED"}
  \/ /\ job = "upload" /\ jobs[f].upload.status = "COMPLETED"
     /\ ~(/\ jobs[f].delete.status = "COMPLETED"
          /\ jobs[f].delete.target = jobs[f].upload.target)

\* Mutant: a copy that is stored needs its secret no more.
JobUsesUnfinished(ref) ==
  \E f \in Files, job \in {"upload", "delete"} :
    /\ jobs[f][job].target # None /\ targets[jobs[f][job].target].ref = ref
    /\ jobs[f][job].status \in {"queued", "FAILED"}

\* is_credential_in_use, its second query.
JobUses(ref) ==
  \E f \in Files, job \in {"upload", "delete"} :
    /\ jobs[f][job].target # None /\ targets[jobs[f][job].target].ref = ref
    /\ JobNeeds(f, job)

\* delete_if_unused.
LookAtTargets ==
  /\ saving.at = "actives"
  /\ saving' = IF ActiveTargetUses(saving.old) THEN Idle
               ELSE [saving EXCEPT !.at = "jobs"]
  /\ UNCHANGED <<settings, targets, vault, issued, jobs, reads, spilled>>

LookAtJobs ==
  /\ saving.at = "jobs"
  /\ saving' = IF JobUses(saving.old) THEN Idle
               ELSE [saving EXCEPT !.at = "drops"]
  /\ UNCHANGED <<settings, targets, vault, issued, jobs, reads, spilled>>

\* A vault that refuses leaves the secret to its retired target.
DropSecret ==
  /\ saving.at = "drops" /\ saving' = Idle
  /\ vault' \in {vault, vault \ {saving.old}}
  /\ UNCHANGED <<settings, targets, issued, jobs, reads, spilled>>

----------------------------------------------------------------------------
(* The jobs, on other threads *)

\* is_nas_enabled.
NasEnabled ==
  /\ settings.enabled /\ settings.mode = "NAS" /\ settings.target # None
  /\ targets[settings.target].status = "ACTIVE"

\* enqueue_upload: the current target is read, and the job stored later.
ReadTarget(f) ==
  /\ NasEnabled /\ jobs[f].upload = NoJob /\ reads[f] = None
  /\ reads' = [reads EXCEPT ![f] = settings.target]
  /\ UNCHANGED <<settings, targets, vault, issued, jobs, saving, spilled>>

StoreUpload(f) ==
  /\ reads[f] # None
  /\ jobs' = [jobs EXCEPT ![f].upload =
       [status |-> "queued", target |-> reads[f],
        late |-> targets[reads[f]].status = "RETIRED"]]
  /\ reads' = [reads EXCEPT ![f] = None]
  /\ UNCHANGED <<settings, targets, vault, issued, saving, spilled>>

\* A job runs, fails for good, or is tried again by the user.
RunJob(f, job) ==
  /\ \/ /\ jobs[f][job].status = "queued"
        /\ \E end \in {"COMPLETED", "FAILED"} :
             jobs' = [jobs EXCEPT ![f][job].status = end]
     \/ /\ jobs[f][job].status = "FAILED"
        /\ jobs' = [jobs EXCEPT ![f][job].status = "queued"]
  /\ UNCHANGED <<settings, targets, vault, issued, reads, saving, spilled>>

\* prepare_document_delete: uploads are cancelled, a stored copy is deleted
\* where it was stored.
DeleteFile(f) ==
  LET up == jobs[f].upload
  IN  /\ up.status \in {"queued", "COMPLETED"} /\ jobs[f].delete = NoJob
      /\ jobs' = IF up.status = "COMPLETED"
                 THEN [jobs EXCEPT ![f].delete = [up EXCEPT !.status = "queued"]]
                 ELSE [jobs EXCEPT ![f].upload.status = "CANCELLED"]
      /\ UNCHANGED <<settings, targets, vault, issued, reads, saving, spilled>>

\* The program dies; a secret that was stored for a save is left behind.
Die ==
  /\ saving # Idle \/ \E f \in Files : reads[f] # None
  /\ spilled' = IF saving.at = "writes"
                THEN spilled \cup ({saving.new} \ {None}) ELSE spilled
  /\ saving' = Idle /\ reads' = [f \in Files |-> None]
  /\ UNCHANGED <<settings, targets, vault, issued, jobs>>

TargetsNext ==
  \/ StartSave \/ WriteSettings \/ FailSave
  \/ LookAtTargets \/ LookAtJobs \/ DropSecret \/ Die
  \/ \E f \in Files :
       \/ ReadTarget(f) \/ StoreUpload(f) \/ DeleteFile(f)
       \/ \E job \in {"upload", "delete"} : RunJob(f, job)

----------------------------------------------------------------------------

\* The settings and the one active target are the same destination.
OneDestination ==
  /\ {i \in DOMAIN targets : targets[i].status = "ACTIVE"}
       = {settings.target} \ {None}
  /\ (settings.target = None) <=> (settings.mode = "LOCAL")
  /\ settings.target # None =>
       SameTarget(settings.target, settings, settings.ref)

\* The secret of the destination in use is in the vault, and so are those
\* that the copies and the jobs of earlier destinations need, but for jobs
\* that were stored only after their destination had been retired.
SecretsKept ==
  /\ settings.ref # None => settings.ref \in vault
  /\ \A f \in Files, job \in {"upload", "delete"} :
       JobNeeds(f, job) /\ ~jobs[f][job].late =>
         targets[jobs[f][job].target].ref \in vault \cup {None}

\* A secret of the vault is some destination's, but for those of a save in
\* progress and those left behind.
SecretsAccounted ==
  \A ref \in vault \ spilled :
    \/ saving # Idle /\ saving.new = ref
    \/ \E i \in DOMAIN targets : targets[i].ref = ref

SecretsSound == OneDestination /\ SecretsKept /\ SecretsAccounted
=============================================================================
