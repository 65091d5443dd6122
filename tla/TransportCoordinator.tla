------------------------- MODULE TransportCoordinator -------------------------
(***************************************************************************)
(* CorporateTransportCoordinator: who starts a TransportWorker, for which  *)
(* organization, and when.                                                 *)
(*                                                                         *)
(* CorporateTransport models what one worker does to the jobs of its       *)
(* organization and takes for granted that there is one.  That is decided  *)
(* here: by the coordinator's own worker, by _active_workers, which        *)
(* belongs to the class and outlives every login, and by a pending         *)
(* organization for what could not be started at once.                     *)
(***************************************************************************)
EXTENDS DesktopSession

CONSTANT Threads  \* TransportWorkers alive at once, a bound

ASSUME TransportThreadsAssumption == Threads \in Nat \ {0}

VARIABLES
  threads,    \* the workers not yet cleaned up, by identity
  registry,   \* _active_workers: the worker of each organization, or 0
  worker,     \* _worker of the coordinator in use, or 0
  pending,    \* its _pending_organization_id
  kicks,      \* calls of trigger queued with singleShot(0, ...)
  due,        \* jobs of each organization a worker would take now
  automatic   \* organizations with automatic_processing_enabled

coordinator == <<threads, registry, worker, pending>>
transportVars == <<threads, registry, worker, pending, kicks, due, automatic>>

Ids == 1 .. Threads

\* After start; jobs may have been left in the queue before.
TransportInit ==
  /\ threads = [i \in Ids |-> NoWorker]
  /\ registry = [o \in Orgs |-> 0]
  /\ worker = 0 /\ pending = NoOrg
  /\ kicks = {org}
  /\ due \in [Orgs -> 0 .. 1]
  /\ automatic \in SUBSET Orgs

IsRunning(i) == i # 0 /\ Runs(threads[i])

FreeId == CHOOSE i \in Ids : threads[i] = NoWorker

StartWorker(o) ==
  /\ threads' = [threads EXCEPT ![FreeId] =
                   [at |-> "runs", login |-> login, org |-> o,
                    listed |-> FALSE, jobs |-> 0, stop |-> FALSE]]
  /\ registry' = [registry EXCEPT ![o] = FreeId]
  /\ worker' = FreeId
  /\ UNCHANGED pending

\* Mutant: only the coordinator's own worker counts.
TriggerOwnOnly(o) ==
  CASE o # org' -> UNCHANGED coordinator
    [] o = org' /\ IsRunning(worker) ->
         pending' = o /\ UNCHANGED <<threads, registry, worker>>
    [] OTHER ->
         IF o \in automatic' /\ due'[o] > 0
         THEN StartWorker(o)
         ELSE UNCHANGED coordinator

\* trigger(o): the worker of another login holds the organization, too.  An
\* entry of the registry whose thread has ended is dropped.
Trigger(o) ==
  CASE o # org' -> UNCHANGED coordinator
    [] o = org' /\ IsRunning(worker) ->
         pending' = o /\ UNCHANGED <<threads, registry, worker>>
    [] o = org' /\ ~IsRunning(worker) /\ IsRunning(registry[o]) ->
         UNCHANGED coordinator
    [] OTHER ->
         IF o \in automatic' /\ due'[o] > 0
         THEN StartWorker(o)
         ELSE /\ registry' = [registry EXCEPT ![o] = 0]
              /\ UNCHANGED <<threads, worker, pending>>

\* organization_changed: the worker of the organization left is interrupted
\* and the new one waits for its end.
TransportOrganizationChanged(o) ==
  IF IsRunning(worker) /\ threads[worker].org # o
  THEN /\ threads' = [threads EXCEPT ![worker].stop = TRUE]
       /\ pending' = o
       /\ UNCHANGED <<registry, worker>>
  ELSE Trigger(o)

\* shutdown: the worker is interrupted and waited for, but not for long.
TransportShutdown ==
  /\ threads' = IF IsRunning(worker)
                THEN [threads EXCEPT ![worker].stop = TRUE] ELSE threads
  /\ worker' = 0 /\ pending' = NoOrg /\ kicks' = {}
  /\ UNCHANGED <<registry, due, automatic>>

\* start, of the coordinator of a new login.
TransportStart ==
  /\ kicks' = {org'}
  /\ UNCHANGED <<coordinator, due, automatic>>

\* The interval timer: every minute, for the active organization.
TransportTimer ==
  /\ inside
  /\ UNCHANGED <<session, left, kicks, due, automatic>>
  /\ Trigger(org)

\* A queued trigger is delivered.
Kick ==
  /\ inside
  /\ \E o \in kicks :
       /\ kicks' = kicks \ {o}
       /\ UNCHANGED <<session, left, due, automatic>>
       /\ Trigger(o)

\* The worker reads the queue once ...
ListJobs(i) ==
  /\ IsRunning(i) /\ ~threads[i].listed
  /\ threads' = [threads EXCEPT ![i].listed = TRUE,
                                ![i].jobs = due[threads[i].org]]
  /\ UNCHANGED <<session, left, registry, worker, pending, kicks, due,
                 automatic>>

\* ... and tries each job it has read, done or put off when it is through;
\* interrupted, it may leave some of them.
WorkerEnds(i) ==
  LET t == threads[i]
  IN  /\ IsRunning(i) /\ t.listed
      /\ \E tried \in IF t.stop THEN 0 .. t.jobs ELSE {t.jobs} :
           due' = [due EXCEPT ![t.org] = @ - tried]
      /\ threads' = [threads EXCEPT ![i] = Done(t, "ended")]
      /\ UNCHANGED <<session, left, registry, worker, pending, kicks,
                     automatic>>

\* finished is delivered: a worker is taken out where it still stands, and
\* the organization that waited for its end gets its turn.
CleanupWorker(i) ==
  LET t == threads[i]
  IN  /\ t.at = "ended"
      /\ threads' = [threads EXCEPT ![i] = NoWorker]
      /\ registry' = IF registry[t.org] = i
                     THEN [registry EXCEPT ![t.org] = 0] ELSE registry
      /\ worker' = IF worker = i THEN 0 ELSE worker
      /\ IF Closing(t.login)
         THEN UNCHANGED <<pending, kicks>>
         ELSE /\ pending' = NoOrg
              /\ kicks' = kicks \cup ({pending} \ {NoOrg})
      /\ UNCHANGED <<session, left, due, automatic>>

\* A job of the active organization comes up: stored by a gesture of the
\* documents screen, which notifies the coordinator, or made due again by
\* retry_failed of the settings dialog, which does so as well.
JobQueued ==
  /\ due' = [due EXCEPT ![org] = @ + 1]
  /\ UNCHANGED <<kicks, automatic>>
  /\ Trigger(org)

\* The settings dialog of the active organization is accepted.
SaveConfiguration ==
  /\ Gesture("transport")
  /\ automatic' \in {automatic \cup {org}, automatic \ {org}}
  /\ UNCHANGED <<session, kicks, due>>
  /\ Trigger(org)

TransportThread(i) == ListJobs(i) \/ WorkerEnds(i) \/ CleanupWorker(i)

\* An organization never has two workers at its queue, whichever login
\* started them: CorporateTransport counts on it.
OneTransportWorker ==
  \A i, j \in Ids :
    IsRunning(i) /\ IsRunning(j) /\ threads[i].org = threads[j].org => i = j

\* The active organization has no job left that a worker would take.
JobsAreTried == org \in automatic => due[org] = 0
=============================================================================
