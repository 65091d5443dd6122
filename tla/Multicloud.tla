------------------------------ MODULE Multicloud ------------------------------
(***************************************************************************)
(* The remote collections of an organization: RemoteInventoryService, the  *)
(* mirror of folders mounted from cloud accounts, and                      *)
(* MulticloudReconciliationService, the plans that copy the files a mount  *)
(* lacks, with their tables and workers.                                   *)
(*                                                                         *)
(* One collection is modelled and every mount is one folder of files.      *)
(* Three kinds of thread meet in the tables: the interface (mounts,        *)
(* unmounts, builds and authorizes plans), any number of scans, and one    *)
(* plan worker; the user changes the clouds from elsewhere meanwhile.      *)
(***************************************************************************)
EXTENDS Naturals, FiniteSets

CONSTANTS
  Roots,        \* remote folders, each of an account of its own
  FileNames,        \* names of files
  ItemCount,    \* remote items that ever exist, a bound
  InitialItems, \* root and name of the items there are at the start
  Scanners,     \* scan workers at one time, a bound
  PlanCount,    \* plans ever built, a bound
  MountCount,   \* mounts ever made, a bound
  CloudEdits,     \* changes the user makes in the clouds, a bound
  NoRoot

ASSUME MulticloudAssumption ==
  /\ ItemCount \in Nat /\ PlanCount \in Nat /\ MountCount \in Nat
  /\ CloudEdits \in Nat
  /\ InitialItems \subseteq Roots \X FileNames
  /\ Cardinality(InitialItems) <= ItemCount
  /\ NoRoot \notin Roots

Items == 1 .. ItemCount
Keys == Items \X Roots
Plans == 1 .. PlanCount
Bodies == {1, 2}

VARIABLES
  held,     \* item -> folder, name and content in the cloud
  mount,    \* folder -> row of remote_mounts
  mounts,   \* mounts made so far
  catalog,  \* item -> its row of remote_catalog_nodes, in the mount it has
  logical,  \* rows of cloud_replicas with the path of their logical object
  actions,  \* source and target -> row of multicloud_plan_actions
  plans,    \* plan -> status of its row of multicloud_plans
  screen,   \* the interface: idle, or building and asking about a plan
  scan,     \* the scan workers
  runner,   \* the plan worker
  made,     \* source and target -> copies the program has uploaded
  alone,    \* folders whose last scan met no other and a cloud that stood still
  edits

multicloudVars == <<held, mount, mounts, catalog, logical, actions, plans, screen,
                    scan, runner, made, alone, edits>>
tables == <<mount, mounts, catalog, logical, actions, plans>>
clouds == <<held, made, edits>>

NoItem == [root |-> NoRoot, name |-> NoRoot, body |-> 0]
NoNode == [mid |-> 0, name |-> NoRoot, body |-> 0, status |-> "none"]
NoAction == [status |-> "none", plan |-> 0, path |-> NoRoot]
NotMounted == [id |-> 0, status |-> "none"]
Idle == [pc |-> "idle"]
NoKey == <<0, NoRoot>>

In(r) == {i \in Items : held[i].root = r}
IsMounted(mid) == \E r \in Roots : mount[r].id = mid
RootOf(mid) == CHOOSE r \in Roots : mount[r].id = mid
Mounted == {r \in Roots : mount[r].id # 0}
ScanningIn(v) == scan[v].pc \notin {"idle", "start"}
ScanningNow == {v \in Scanners : ScanningIn(v)}
Nodes(mid) == {i \in Items : catalog[i].mid = mid}
Unused ==
  {i \in Items : held[i] = NoItem /\ catalog[i] = NoNode /\ \A r \in Roots : made[<<i, r>>] = 0}
SmallestOf(S) == CHOOSE x \in S : \A y \in S : x <= y
Quiet == UNCHANGED alone

\* UPDATE remote_mounts SET status ... WHERE id: nothing when it is gone.
SetStatus(mid, status) ==
  mount' = [r \in Roots |-> IF mount[r].id = mid THEN [mount[r] EXCEPT !.status = status]
                                                ELSE mount[r]]
-----------------------------------------------------------------------------
MulticloudInit ==
  /\ \E f \in [1 .. Cardinality(InitialItems) -> InitialItems] :
       /\ \A i, j \in DOMAIN f : i # j => f[i] # f[j]
       /\ held = [i \in Items |->
            IF i \in DOMAIN f THEN [root |-> f[i][1], name |-> f[i][2], body |-> 1] ELSE NoItem]
  /\ mount = [r \in Roots |-> NotMounted] /\ mounts = 0
  /\ catalog = [i \in Items |-> NoNode]
  /\ logical = {}
  /\ actions = [k \in Keys |-> NoAction]
  /\ plans = [p \in Plans |-> "none"]
  /\ screen = Idle
  /\ scan = [v \in Scanners |-> Idle]
  /\ runner = Idle
  /\ made = [k \in Keys |-> 0]
  /\ alone = {}
  /\ edits = 0
-----------------------------------------------------------------------------
(***************************************************************************)
(* The user, in the clouds, from somewhere else.                           *)
(***************************************************************************)
Put(i, r, n, b) == held' = [held EXCEPT ![i] = [root |-> r, name |-> n, body |-> b]]

UserChanges(r) ==
  /\ edits < CloudEdits
  /\ edits' = edits + 1
  /\ \/ \E n \in FileNames :
          /\ Unused # {}
          /\ \A i \in In(r) : held[i].name # n
          /\ Put(SmallestOf(Unused), r, n, 1)
     \/ \E i \in In(r) : held' = [held EXCEPT ![i] = NoItem]
     \/ \E i \in In(r) : Put(i, r, held[i].name, 3 - held[i].body)
     \/ \E i \in In(r), n \in FileNames :
          /\ \A j \in In(r) : held[j].name # n
          /\ Put(i, r, n, held[i].body)
  /\ alone' = alone \ {r}
  /\ UNCHANGED <<tables, screen, scan, runner, made>>
-----------------------------------------------------------------------------
(***************************************************************************)
(* RemoteMountController and RemoteInventoryService: mount, which starts a *)
(* scan, and unmount, one DELETE with its cascades.  The rows of           *)
(* multicloud_plan_actions refer to replicas and to their target without a *)
(* cascade: the DELETE is refused while there is one.                      *)
(***************************************************************************)
StartScan(v, mid) ==
  /\ scan[v] = Idle
  /\ scan' = [scan EXCEPT ![v] = [pc |-> "start", mid |-> mid]]

Mount(v, r) ==
  /\ screen = Idle
  /\ mount[r] = NotMounted
  /\ mounts < MountCount
  /\ mounts' = mounts + 1
  /\ mount' = [mount EXCEPT ![r] = [id |-> mounts', status |-> "ACTIVE"]]
  /\ StartScan(v, mounts')
  /\ UNCHANGED <<clouds, catalog, logical, actions, plans, screen, runner>> /\ Quiet

PressScan(v, r) ==
  /\ screen = Idle
  /\ r \in Mounted
  /\ StartScan(v, mount[r].id)
  /\ UNCHANGED <<clouds, tables, screen, runner>> /\ Quiet

Referred(r) ==
  \E k \in Keys :
    actions[k] # NoAction /\ (k[2] = r \/ catalog[k[1]].mid = mount[r].id)

Unmount(r) ==
  /\ screen = Idle
  /\ r \in Mounted
  /\ ~Referred(r)
  /\ mount' = [mount EXCEPT ![r] = NotMounted]
  /\ catalog' = [i \in Items |-> IF catalog[i].mid = mount[r].id THEN NoNode ELSE catalog[i]]
  /\ logical' = {l \in logical : catalog[l.item].mid # mount[r].id}
  /\ alone' = alone \ {r}
  /\ UNCHANGED <<clouds, mounts, actions, plans, screen, scan, runner>>
-----------------------------------------------------------------------------
(***************************************************************************)
(* scan, by a RemoteInventoryWorker: the status, the children of the       *)
(* folder, a row for each, the rows not seen since the start, the nodes of *)
(* the whole collection, the logical objects built from them, the status.  *)
(***************************************************************************)
Ends(v) == scan' = [scan EXCEPT ![v] = Idle]
Goes(v, next) == scan' = [scan EXCEPT ![v] = next]

Fails(v) ==
  /\ SetStatus(scan[v].mid, "ERROR")
  /\ Ends(v)
  /\ UNCHANGED <<clouds, mounts, catalog, logical, actions, plans, screen, runner>> /\ Quiet

\* The mount has gone, or another organization is the open one.
RefuseScan(v) ==
  /\ scan[v].pc = "start"
  /\ Ends(v)
  /\ UNCHANGED <<clouds, tables, screen, runner>> /\ Quiet

BeginScan(v) ==
  /\ scan[v].pc = "start"
  /\ IsMounted(scan[v].mid)
  /\ SetStatus(scan[v].mid, "SCANNING")
  /\ Goes(v, [pc |-> "list", mid |-> scan[v].mid,
              root |-> RootOf(scan[v].mid), unseen |-> Nodes(scan[v].mid), found |-> {}])
  /\ alone' = IF ScanningNow = {} THEN alone \cup {RootOf(scan[v].mid)}
              ELSE alone \ ({RootOf(scan[v].mid)} \cup {scan[u].root : u \in ScanningNow})
  /\ UNCHANGED <<clouds, mounts, catalog, logical, actions, plans, screen, runner>>

ListChildren(v) ==
  /\ scan[v].pc = "list"
  /\ Goes(v, [scan[v] EXCEPT !.pc = "save",
                !.found = {[item |-> i, name |-> held[i].name, body |-> held[i].body] :
                            i \in In(scan[v].root)}])
  /\ UNCHANGED <<clouds, tables, screen, runner>> /\ Quiet

\* The provider fails, or the worker has been interrupted: refresh interrupts
\* every worker when another organization is opened, at any time.
ListFails(v) == scan[v].pc = "list" /\ Fails(v)

SaveNode(v, f) ==
  /\ catalog' = [catalog EXCEPT ![f.item] =
       [mid |-> scan[v].mid, name |-> f.name, body |-> f.body, status |-> "ACTIVE"]]
  /\ scan' = [u \in Scanners |->
       IF u = v THEN [scan[v] EXCEPT !.found = @ \ {f}, !.unseen = @ \ {f.item}]
       ELSE IF ScanningIn(u) /\ scan[u].mid = scan[v].mid
              THEN [scan[u] EXCEPT !.unseen = @ \ {f.item}] ELSE scan[u]]
  /\ UNCHANGED <<clouds, mount, mounts, logical, actions, plans, screen, runner>> /\ Quiet

SaveOne(v) ==
  /\ scan[v].pc = "save"
  /\ \E f \in scan[v].found : IF IsMounted(scan[v].mid) THEN SaveNode(v, f) ELSE Fails(v)

\* mark_missing_before
\* Mutant: the rows of an earlier scan stay as they are.
MissingNone(v) == catalog

Missing(v) ==
  [i \in Items |-> IF i \in scan[v].unseen /\ catalog[i].mid = scan[v].mid
                     THEN [catalog[i] EXCEPT !.status = "MISSING"] ELSE catalog[i]]


MarkMissing(v) ==
  /\ scan[v].pc = "save"
  /\ scan[v].found = {}
  /\ catalog' = Missing(v)
  /\ Goes(v, [scan[v] EXCEPT !.pc = "read"])
  /\ UNCHANGED <<clouds, mount, mounts, logical, actions, plans, screen, runner>> /\ Quiet

\* list_for_collection
ReadNodes(v) ==
  /\ scan[v].pc = "read"
  /\ Goes(v, [scan[v] EXCEPT !.pc = "rebuild",
                !.found = {[item |-> i, node |-> catalog[i]] :
                            i \in {j \in Items : catalog[j].status = "ACTIVE"}}])
  /\ UNCHANGED <<clouds, tables, screen, runner>> /\ Quiet

(***************************************************************************)
(* rebuild_collection, one transaction.  It fails when an action refers to *)
(* a replica it deletes, or a node it was given has gone with its mount.   *)
(* The objects a plan is being built from are gone when it succeeds.       *)
(***************************************************************************)
MayRebuild(v) ==
  /\ \A k \in Keys : actions[k] = NoAction
  /\ \A f \in scan[v].found : catalog[f.item].mid = f.node.mid

Rebuild(v) ==
  /\ scan[v].pc = "rebuild"
  /\ IF MayRebuild(v)
       THEN /\ logical' = {[item |-> f.item, path |-> f.node.name, body |-> f.node.body] :
                            f \in scan[v].found}
            /\ screen' = IF screen.pc = "building" THEN [screen EXCEPT !.objects = {}] ELSE screen
            /\ Goes(v, [scan[v] EXCEPT !.pc = "end", !.found = {}])
            /\ UNCHANGED <<clouds, mount, mounts, catalog, actions, plans, runner>> /\ Quiet
       ELSE Fails(v)

EndScan(v) ==
  /\ scan[v].pc = "end"
  /\ SetStatus(scan[v].mid, "ACTIVE")
  /\ Ends(v)
  /\ UNCHANGED <<clouds, mounts, catalog, logical, actions, plans, screen, runner>> /\ Quiet

Scan(v) ==
  \/ BeginScan(v) \/ RefuseScan(v) \/ ListChildren(v) \/ ListFails(v) \/ SaveOne(v)
  \/ MarkMissing(v) \/ ReadNodes(v) \/ Rebuild(v) \/ EndScan(v)
-----------------------------------------------------------------------------
(***************************************************************************)
(* build_plan and authorize, on the interface thread.  A plan names, for   *)
(* each logical file, the mounts without it; the key of an action is       *)
(* unique over all plans, and one that exists is not added again.          *)
(***************************************************************************)
BuildPlan ==
  /\ screen = Idle
  /\ runner = Idle
  /\ \E p \in Plans :
       /\ plans[p] = "none"
       /\ \A q \in Plans : q < p => plans[q] # "none"
       /\ plans' = [plans EXCEPT ![p] = "DRAFT"]
       /\ screen' = [pc |-> "building", plan |-> p, objects |-> {l.path : l \in logical}]
  /\ UNCHANGED <<clouds, mount, mounts, catalog, logical, actions, scan, runner>> /\ Quiet

Replicas(path) == {l \in logical : l.path = path}
Diverged(path) == Cardinality({l.body : l \in Replicas(path)}) > 1
SourceOf(path) ==
  CHOOSE l \in Replicas(path) :
    \A k \in Replicas(path) :
      catalog[l.item].mid < catalog[k.item].mid \/ (catalog[l.item].mid = catalog[k.item].mid /\ l.item <= k.item)
Lacking(path) == {r \in Mounted : \A l \in Replicas(path) : catalog[l.item].mid # mount[r].id}

AddActions(path) ==
  IF Replicas(path) = {} \/ Diverged(path) THEN actions
  ELSE [k \in Keys |->
          IF k[1] = SourceOf(path).item /\ k[2] \in Lacking(path) /\ actions[k] = NoAction
            THEN [status |-> "PROPOSED", plan |-> screen.plan, path |-> path]
            ELSE actions[k]]

\* The statements about one object are one step.
PlanObject ==
  /\ screen.pc = "building"
  /\ \E path \in screen.objects :
       /\ actions' = AddActions(path)
       /\ screen' = [screen EXCEPT !.objects = @ \ {path}]
  /\ UNCHANGED <<clouds, mount, mounts, catalog, logical, plans, scan, runner>> /\ Quiet

ActionsOf(p) == {k \in Keys : actions[k].plan = p}

ShowPlan ==
  /\ screen.pc = "building"
  /\ screen.objects = {}
  /\ screen' = IF ActionsOf(screen.plan) = {} THEN Idle
               ELSE [pc |-> "asking", plan |-> screen.plan]
  /\ UNCHANGED <<clouds, tables, scan, runner>> /\ Quiet

Refuse ==
  /\ screen.pc = "asking"
  /\ screen' = Idle
  /\ UNCHANGED <<clouds, tables, scan, runner>> /\ Quiet

SetActions(S, status) ==
  actions' = [k \in Keys |-> IF k \in S THEN [actions[k] EXCEPT !.status = status]
                                                  ELSE actions[k]]

Authorize ==
  /\ screen.pc = "asking"
  /\ plans' = [plans EXCEPT ![screen.plan] = "AUTHORIZED"]
  /\ SetActions(ActionsOf(screen.plan), "AUTHORIZED")
  /\ runner' = [pc |-> "start", plan |-> screen.plan]
  /\ screen' = Idle
  /\ UNCHANGED <<clouds, mount, mounts, catalog, logical, scan>> /\ Quiet
-----------------------------------------------------------------------------
(***************************************************************************)
(* execute, by the MulticloudReconciliationWorker.                         *)
(***************************************************************************)
OnlyPlans == UNCHANGED <<mount, mounts, catalog, logical, screen, scan>>

\* Another organization is the open one when the worker begins.
RefuseRun ==
  /\ runner.pc = "start"
  /\ runner' = Idle
  /\ UNCHANGED <<clouds, actions, plans>> /\ OnlyPlans /\ Quiet

BeginRun ==
  /\ runner.pc = "start"
  /\ plans[runner.plan] = "AUTHORIZED"
  /\ plans' = [plans EXCEPT ![runner.plan] = "RUNNING"]
  /\ runner' = [pc |-> "next", plan |-> runner.plan, failed |-> FALSE,
                key |-> NoKey, size |-> 0,
                todo |-> {k \in ActionsOf(runner.plan) : actions[k].status = "AUTHORIZED"}]
  /\ UNCHANGED <<clouds, actions>> /\ OnlyPlans /\ Quiet

EndRun(status) ==
  /\ plans' = [plans EXCEPT ![runner.plan] = status]
  /\ runner' = Idle
  /\ UNCHANGED <<clouds, actions>> /\ OnlyPlans /\ Quiet

Interrupted == runner.pc = "next" /\ runner.todo # {} /\ EndRun("PARTIAL")

Finished ==
  /\ runner.pc = "next"
  /\ runner.todo = {}
  /\ EndRun(IF runner.failed THEN "PARTIAL" ELSE "COMPLETED")


TakeAction ==
  /\ runner.pc = "next"
  /\ \E k \in runner.todo :
       /\ SetActions({k}, "RUNNING")
       /\ runner' = [runner EXCEPT !.pc = "check", !.todo = @ \ {k}, !.key = k]
  /\ UNCHANGED <<clouds, plans>> /\ OnlyPlans /\ Quiet

Source == runner.key[1]
Target == runner.key[2]

\* The next action of the plan, whatever became of the last one.
Resume(failed) == [pc |-> "next", plan |-> runner.plan, failed |-> failed,
                   key |-> NoKey, size |-> 0, todo |-> runner.todo]

ActionFails ==
  /\ SetActions({runner.key}, "ERROR")
  /\ runner' = Resume(TRUE)
  /\ UNCHANGED plans /\ OnlyPlans /\ Quiet

(***************************************************************************)
(* _replicate: the inventory's row and the children of the target are read *)
(* first; a file of that name is a conflict.                               *)
(***************************************************************************)
NameTaken == \E i \in In(Target) : held[i].name = actions[runner.key].path

CheckTarget ==
  /\ runner.pc = "check"
  /\ IF NameTaken
       THEN ActionFails
       ELSE /\ runner' = [runner EXCEPT !.pc = "copy", !.size = catalog[Source].body]
            /\ UNCHANGED <<actions, plans>> /\ OnlyPlans /\ Quiet
  /\ UNCHANGED clouds

\* Mutant: the failure of a provider is swallowed by _replicate.
ProviderSwallowed ==
  /\ runner.pc \in {"check", "copy"}
  /\ SetActions({runner.key}, "COMPLETED")
  /\ runner' = Resume(runner.failed)
  /\ UNCHANGED <<clouds, plans>> /\ OnlyPlans /\ Quiet

\* A call to a provider fails before the upload.
ProviderFails ==
  /\ runner.pc \in {"check", "copy"}
  /\ ActionFails
  /\ UNCHANGED clouds

(***************************************************************************)
(* The download, whose size must be the one of the inventory, and the      *)
(* upload, whose answer may be lost.  A file of the name that has appeared *)
(* since is overwritten by one provider and doubled by the other.          *)
(***************************************************************************)
Upload ==
  /\ \/ \E i \in In(Target) :
          /\ held[i].name = actions[runner.key].path
          /\ Put(i, Target, held[i].name, held[Source].body)
     \/ Unused # {} /\ Put(SmallestOf(Unused), Target, actions[runner.key].path, held[Source].body)
  /\ made' = [made EXCEPT ![runner.key] = @ + 1]
  /\ alone' = alone \ {Target}

Copy ==
  /\ runner.pc = "copy"
  /\ IF held[Source].body # runner.size
       THEN ActionFails /\ UNCHANGED clouds
       ELSE /\ Upload
            /\ \/ runner' = [runner EXCEPT !.pc = "record"] /\ UNCHANGED actions
               \/ /\ SetActions({runner.key}, "ERROR")
                  /\ runner' = Resume(TRUE)
            /\ UNCHANGED <<edits, plans>> /\ OnlyPlans

Record ==
  /\ runner.pc = "record"
  /\ SetActions({runner.key}, "COMPLETED")
  /\ runner' = Resume(runner.failed)
  /\ UNCHANGED <<clouds, plans>> /\ OnlyPlans /\ Quiet

Run ==
  \/ BeginRun \/ RefuseRun \/ TakeAction \/ CheckTarget \/ ProviderFails \/ Copy \/ Record
  \/ Interrupted \/ Finished
-----------------------------------------------------------------------------
\* The process dies; nothing looks for what it had begun when it starts again.
ProcessDies ==
  /\ scan' = [v \in Scanners |-> Idle]
  /\ runner' = Idle
  /\ screen' = Idle
  /\ UNCHANGED <<clouds, tables, alone>>
-----------------------------------------------------------------------------
MulticloudNext ==
  \/ \E r \in Roots : UserChanges(r) \/ Unmount(r)
  \/ \E v \in Scanners : Scan(v) \/ \E r \in Roots : Mount(v, r) \/ PressScan(v, r)
  \/ BuildPlan \/ PlanObject \/ ShowPlan \/ Refuse \/ Authorize
  \/ Run
  \/ ProcessDies

MulticloudSpec == MulticloudInit /\ [][MulticloudNext]_multicloudVars
-----------------------------------------------------------------------------
(***************************************************************************)
(* Type correctness; an action belongs to a plan that exists, and a row of *)
(* the mirror to a mount that exists, of the folder of the item.           *)
(***************************************************************************)
MulticloudTypeOK ==
  /\ \A r \in Roots :
       mount[r] = NotMounted \/ (mount[r].id \in 1 .. mounts /\ mount[r].status \in {"ACTIVE", "SCANNING", "ERROR"})
  /\ \A i \in Items : catalog[i] # NoNode =>
       IsMounted(catalog[i].mid) /\ catalog[i].status \in {"ACTIVE", "MISSING"}
  /\ \A l \in logical : catalog[l.item] # NoNode
  /\ \A k \in Keys : actions[k] # NoAction =>
       /\ actions[k].plan \in Plans /\ plans[actions[k].plan] # "none"
       /\ actions[k].status \in {"PROPOSED", "AUTHORIZED", "RUNNING", "COMPLETED", "ERROR"}
       /\ \E l \in logical : l.item = k[1]
       /\ k[2] \in Mounted
  /\ \A p \in Plans : plans[p] \in {"none", "DRAFT", "AUTHORIZED", "RUNNING", "PARTIAL", "COMPLETED"}

(***************************************************************************)
(* A scan that met no other scan, over a folder nobody changed, and that   *)
(* reports success leaves the mirror equal to the folder, in the catalogue *)
(* and in the logical objects, whatever earlier scans, interrupted,        *)
(* failed, overlapped or killed half way, have left behind.                *)
(***************************************************************************)
InventoryFaithful ==
  \A r \in Mounted \cap alone : mount[r].status = "ACTIVE" =>
    LET here == {[item |-> i, path |-> held[i].name, body |-> held[i].body] : i \in In(r)}
        rows == {i \in Nodes(mount[r].id) : catalog[i].status = "ACTIVE"}
    IN /\ {[item |-> i, path |-> catalog[i].name, body |-> catalog[i].body] : i \in rows} = here
       /\ {l \in logical : catalog[l.item].mid = mount[r].id} = here

(***************************************************************************)
(* The program copies a file to a mount once at most, whatever becomes of  *)
(* the answer, of the process and of the plans built later.                *)
(***************************************************************************)
OneCopyEach == \A k \in Keys : made[k] <= 1

(***************************************************************************)
(* Every copy is made once and accounted for.                              *)
(* What has been copied was authorized, by an action that has begun, of a  *)
(* plan that has begun; an action COMPLETED has made its copy, and a plan  *)
(* COMPLETED has done all the user authorized in it.                       *)
(***************************************************************************)
CopiesAccounted ==
  /\ MulticloudTypeOK
  /\ OneCopyEach
  /\ \A k \in Keys :
       /\ made[k] > 0 =>
            /\ actions[k].status \in {"RUNNING", "COMPLETED", "ERROR"}
            /\ plans[actions[k].plan] \in {"RUNNING", "PARTIAL", "COMPLETED"}
       /\ actions[k].status = "COMPLETED" => made[k] > 0
       /\ actions[k] # NoAction /\ plans[actions[k].plan] = "COMPLETED"
          => actions[k].status = "COMPLETED"
=============================================================================
