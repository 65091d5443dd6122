------------------------------ MODULE CloudFolders ------------------------------
(***************************************************************************)
(* The mirror of an organization's folders in its cloud account.           *)
(*                                                                         *)
(* A logical folder is mapped to a remote one, MANAGED (made or found by   *)
(* name, then renamed, moved and deleted after the logical folder) or      *)
(* ADOPTED (picked by the user, never to be touched).  Threads: the        *)
(* interface, the synchronization worker in synchronize_structure, and     *)
(* the thread that maps an existing folder.  Both threads hold a provider  *)
(* made for one account and settings read later, and write mappings from   *)
(* both.  One provider, OneDrive, with several accounts; documents are in  *)
(* CloudSync.                                                              *)
(***************************************************************************)
EXTENDS Naturals, FiniteSets

CONSTANTS
    Folders,      \* rows of folders, used or not
    Names,
    Remotes,      \* folders in the accounts, a bound on their number
    Accounts,     \* rows of cloud_accounts; each also stands for its root folder
    OwnerOf,      \* [some Remotes -> Accounts]: folders owners of accounts keep
    MaxEdits,     \* bound: folders created, renamed or deleted, here or there
    MaxSwitches,  \* bound: accounts connected or removed
    MaxMaps,      \* bound: mappings made or removed by hand
    Top, Elsewhere, NoFolder, NoRemote, NoAccount

ASSUME RemotesAssumption == Remotes \subseteq Nat
ASSUME OwnerAssumption ==
    /\ DOMAIN OwnerOf \subseteq Remotes
    /\ OwnerOf \in [DOMAIN OwnerOf -> Accounts]
ASSUME NonemptyAssumption == Names # {} /\ Accounts # {}
ASSUME BoundsAssumption == {MaxEdits, MaxSwitches, MaxMaps} \subseteq Nat
ASSUME NullAssumption ==
    /\ Top \notin Folders /\ NoFolder \notin Folders
    /\ NoRemote \notin Remotes
    /\ NoAccount \notin Accounts \cup Remotes
    /\ Elsewhere \notin Accounts \cup Remotes

VARIABLES
    folders,   \* status, name, parent
    mappings,  \* cloud_folder_mappings: remote, account, mode, name, parent
    accounts,  \* rows of cloud_accounts that are left
    setting,   \* cloud_settings: account and the account its root belongs to
    remote,    \* the folders in the accounts
    w,         \* the synchronization worker
    m,         \* the thread that maps a folder
    count,     \* edits, switches and mappings so far
    shared,    \* history: remote folders taken over because of their name, or
               \* picked while the worker was about to map another folder to them
    crossed,   \* history: logical folders mapped for an account not in use
    moved,     \* history: logical folders touched since the worker listed them
    torn       \* history: remote folders changed by a worker that did not record it

historyVars == <<shared, crossed, moved, torn>>
vars == <<folders, mappings, accounts, setting, remote, w, m, count,
          shared, crossed, moved, torn>>

Places == Folders \cup {Top}

\* "none": the row is not in cloud_folder_mappings.
Mapping == [mode    : {"none", "MANAGED", "ADOPTED"},
            remote  : Remotes \cup {NoRemote},
            account : Accounts \cup {NoAccount},
            name    : Names,
            parent  : Remotes \cup Accounts \cup {Elsewhere}]

AnyName == CHOOSE n \in Names : TRUE

NoMapping == [mode |-> "none", remote |-> NoRemote, account |-> NoAccount,
              name |-> AnyName, parent |-> Elsewhere]

RemoteFolder == [state : {"none", "live", "gone"}, account : Accounts \cup {NoAccount},
                 name : Names, parent : Remotes \cup Accounts \cup {Elsewhere}]

IdleWorker == [pc |-> "idle", account |-> NoAccount, tag |-> NoAccount, root |-> NoAccount,
               list |-> [f \in {} |-> 0], todo |-> {},
               done |-> [f \in {} |-> 0], folder |-> NoFolder, entry |-> NoMapping]

IdleMapper == [pc |-> "idle", folder |-> NoFolder, remote |-> NoRemote,
               account |-> NoAccount, tag |-> NoAccount, entry |-> NoMapping]

\* Owners of accounts keep folders of their own; nothing is mirrored yet.
Init ==
    /\ folders = [f \in Folders |-> [status |-> "NONE", name |-> AnyName, parent |-> Top]]
    /\ mappings = [f \in Folders |-> NoMapping]
    /\ accounts = Accounts
    /\ setting = [account |-> CHOOSE a \in Accounts : TRUE, root |-> NoAccount]
    /\ remote = [r \in Remotes |->
           IF r \in DOMAIN OwnerOf
           THEN [state |-> "live", account |-> OwnerOf[r], name |-> AnyName,
                 parent |-> Elsewhere]
           ELSE [state |-> "none", account |-> NoAccount, name |-> AnyName,
                 parent |-> Elsewhere]]
    /\ w = IdleWorker
    /\ m = IdleMapper
    /\ count = [edits |-> 0, switches |-> 0, maps |-> 0]
    /\ shared = {}
    /\ crossed = {}
    /\ moved = {}
    /\ torn = {}

Active(f) == f \in Folders /\ folders[f].status = "ACTIVE"

\* What the provider of account a finds.
Found(a, r) == r \in Remotes /\ remote[r].account = a /\ remote[r].state = "live"

\* Of a folder and the folders in it, to any depth: what deleting it deletes.
Inside(r) ==
    LET closed(S) == r \in S /\ \A x \in Remotes : remote[x].parent \in S => x \in S
    IN {x \in Remotes : \A S \in SUBSET Remotes : closed(S) => x \in S}

\* What is left when r is deleted.
Without(r) ==
    LET lost == Inside(r)
    IN [x \in Remotes |-> IF x \in lost /\ remote[x].state = "live"
                          THEN [remote[x] EXCEPT !.state = "gone"]
                          ELSE remote[x]]

-----------------------------------------------------------------------------
(* Folders and accounts, on the interface thread.                          *)

Touch(S) == moved' = IF w.pc \in {"mirror", "save"} THEN moved \cup S ELSE moved

Edit(f) ==
    /\ count.edits < MaxEdits
    /\ count' = [count EXCEPT !.edits = @ + 1]
    /\ Touch({f})
    /\ UNCHANGED <<mappings, accounts, setting, remote, w, m, shared, crossed, torn>>

\* Active siblings have different names; a deleted one keeps its name.
Free(n, p) == \A g \in Folders : Active(g) => ~(folders[g].name = n /\ folders[g].parent = p)

CreateFolder(f, n, p) ==
    /\ folders[f].status = "NONE"
    /\ p = Top \/ Active(p)
    /\ Free(n, p)
    /\ folders' = [folders EXCEPT ![f] = [status |-> "ACTIVE", name |-> n, parent |-> p]]
    /\ Edit(f)

RenameFolder(f, n) ==
    /\ Active(f)
    /\ Free(n, folders[f].parent)
    /\ folders' = [folders EXCEPT ![f].name = n]
    /\ Edit(f)

\* A folder is deleted with the folders in it; its mapping stays.
Beneath(f) == {g \in Folders : g = f \/ folders[g].parent = f}

DeleteFolder(f) ==
    /\ Active(f)
    /\ folders' = [g \in Folders |-> IF g \in Beneath(f) /\ folders[g].status = "ACTIVE"
                                     THEN [folders[g] EXCEPT !.status = "DELETED"]
                                     ELSE folders[g]]
    /\ Edit(f)

\* CloudManager.configure for another account.
Configure(a) ==
    /\ count.switches < MaxSwitches
    /\ a \in accounts
    /\ a # setting.account
    /\ setting' = [account |-> a, root |-> NoAccount]
    /\ mappings' = [f \in Folders |-> NoMapping]
    /\ crossed' = {}
    /\ count' = [count EXCEPT !.switches = @ + 1]
    /\ Touch(Folders)
    /\ UNCHANGED <<folders, accounts, remote, w, m, shared, torn>>

RemoveAccount ==
    /\ count.switches < MaxSwitches
    /\ setting.account # NoAccount
    /\ setting' = [account |-> NoAccount, root |-> NoAccount]
    /\ mappings' = [f \in Folders |-> NoMapping]
    /\ crossed' = {}
    /\ accounts' = accounts \ {setting.account}
    /\ count' = [count EXCEPT !.switches = @ + 1]
    /\ Touch(Folders)
    /\ UNCHANGED <<folders, remote, w, m, shared, torn>>

\* The owner of an account removes a folder that is mirrored in it.
OwnerRemoves(r) ==
    /\ count.edits < MaxEdits
    /\ remote[r].state = "live"
    /\ remote' = Without(r)
    /\ count' = [count EXCEPT !.edits = @ + 1]
    /\ UNCHANGED <<folders, mappings, accounts, setting, w, m, historyVars>>

-----------------------------------------------------------------------------
(* CloudFolderMappingService.                                              *)

\* The dialog made its provider for the account then in use.
MapBegin(f, r) ==
    /\ m.pc = "idle"
    /\ count.maps < MaxMaps
    /\ setting.account # NoAccount
    /\ Found(setting.account, r)
    /\ Active(f)
    /\ m' = [IdleMapper EXCEPT !.pc = "read", !.folder = f, !.remote = r,
                               !.account = setting.account]
    /\ count' = [count EXCEPT !.maps = @ + 1]
    /\ UNCHANGED <<folders, mappings, accounts, setting, remote, w, historyVars>>

MapperOnly == UNCHANGED <<folders, accounts, setting, remote, w, count>>

MapRead ==
    /\ m.pc = "read"
    /\ m' = IF setting.account # NoAccount /\ Active(m.folder)
            THEN [m EXCEPT !.pc = "look", !.tag = setting.account]
            ELSE IdleMapper
    /\ UNCHANGED <<mappings, historyVars>>
    /\ MapperOnly

\* Mutant: any folder of the account may be chosen, mapped or not.
MapLookAny ==
    /\ m.pc = "look"
    /\ m' = IF Found(m.account, m.remote)
            THEN [m EXCEPT !.pc = "save",
                     !.entry = [mode |-> "ADOPTED", remote |-> m.remote, account |-> m.tag,
                                name |-> remote[m.remote].name,
                                parent |-> remote[m.remote].parent]]
            ELSE IdleMapper
    /\ shared' = IF w.entry.remote = m.remote /\ w.folder # m.folder
                 THEN shared \cup {m.remote} ELSE shared
    /\ UNCHANGED <<mappings, crossed, moved, torn>>
    /\ MapperOnly

\* The remote folder must be there, and no other folder of the account mapped to it.
MapLook ==
    /\ m.pc = "look"
    /\ m' = IF /\ Found(m.account, m.remote)
               /\ ~ \E g \in Folders \ {m.folder} : /\ mappings[g].account = m.tag
                                                    /\ mappings[g].remote = m.remote
            THEN [m EXCEPT !.pc = "save",
                     !.entry = [mode |-> "ADOPTED", remote |-> m.remote, account |-> m.tag,
                                name |-> remote[m.remote].name,
                                parent |-> remote[m.remote].parent]]
            ELSE IdleMapper
    /\ shared' = IF w.entry.remote = m.remote /\ w.folder # m.folder
                 THEN shared \cup {m.remote} ELSE shared
    /\ UNCHANGED <<mappings, crossed, moved, torn>>
    /\ MapperOnly

\* The foreign key refuses an account removed since.
Upsert(f, entry) ==
    /\ mappings' = [mappings EXCEPT ![f] = entry]
    /\ crossed' = IF entry.account = setting.account /\ remote[entry.remote].account = entry.account
                  THEN crossed \ {f} ELSE crossed \cup {f}

MapSave ==
    /\ m.pc = "save"
    /\ IF m.tag \in accounts
       THEN Upsert(m.folder, m.entry) /\ Touch({m.folder})
       ELSE UNCHANGED <<mappings, crossed, moved>>
    /\ m' = IdleMapper
    /\ UNCHANGED <<shared, torn>>
    /\ MapperOnly

Clear(f) == mappings' = [mappings EXCEPT ![f] = NoMapping] /\ crossed' = crossed \ {f}

RemoveMapping(f) ==
    /\ count.maps < MaxMaps
    /\ mappings[f].mode # "none"
    /\ mappings[f].account = setting.account
    /\ Clear(f)
    /\ Touch({f})
    /\ count' = [count EXCEPT !.maps = @ + 1]
    /\ UNCHANGED <<folders, accounts, setting, remote, w, m, shared, torn>>

-----------------------------------------------------------------------------
(* CloudSyncService.synchronize_structure.                                 *)

WorkerOnly == UNCHANGED <<folders, accounts, m, count>>

\* For sync_changes.  For one job the same is done up to StructureDone, as in a
\* synchronization that fails there.
StartSync ==
    /\ w.pc = "idle"
    /\ setting.account # NoAccount
    /\ w' = [IdleWorker EXCEPT !.pc = "settings", !.account = setting.account]
    /\ UNCHANGED <<mappings, setting, remote, historyVars>>
    /\ WorkerOnly

\* The worker ends; a remote folder it has renamed or moved may not be recorded.
Stop ==
    /\ w.pc # "idle"
    /\ w' = IdleWorker
    /\ moved' = {}
    /\ torn' = IF /\ w.pc = "save"
                  /\ mappings[w.folder].remote = w.entry.remote
                  /\ mappings[w.folder] # w.entry
               THEN torn \cup {w.entry.remote} ELSE torn

\* A call or a statement fails, or the answer to a call is lost.
SyncFails ==
    /\ Stop
    /\ UNCHANGED <<mappings, setting, remote, shared, crossed>>
    /\ WorkerOnly

ReadSettings ==
    /\ w.pc = "settings"
    /\ w' = [w EXCEPT !.pc = "root", !.tag = setting.account, !.root = setting.root]
    /\ UNCHANGED <<mappings, setting, remote, historyVars>>
    /\ WorkerOnly

\* The root of another account is not found; the right one takes its place, in
\* the settings of whatever account is in use by now.  Then the folders are read.
EnsureRoot ==
    /\ w.pc = "root"
    /\ setting' = IF w.root = w.account THEN setting
                                        ELSE [setting EXCEPT !.root = w.account]
    /\ w' = [w EXCEPT !.pc = "mirror", !.root = NoAccount, !.list = folders,
                !.todo = {f \in Folders : folders[f].status = "ACTIVE"}]
    /\ moved' = {}
    /\ UNCHANGED <<mappings, remote, shared, crossed, torn>>
    /\ WorkerOnly

ParentOf(f) == IF w.list[f].parent = Top THEN w.account ELSE w.done[w.list[f].parent]

ParentFound(p) == p = w.account \/ Found(w.account, p)

\* ensure_folder: the folder of that name in that place, if there is one.
Homonyms(n, p) == {r \in Remotes : Found(w.account, r) /\ remote[r].name = n
                                                       /\ remote[r].parent = p}

NewRemote == {r \in Remotes : /\ remote[r].state = "none"
                              /\ \A k \in Remotes : k < r => remote[k].state # "none"}

GiveUp == Stop /\ UNCHANGED <<remote, shared>>

Ensure(f, p) ==
    LET n == w.list[f].name
        managed(r) == [mode |-> "MANAGED", remote |-> r, account |-> w.tag, name |-> n,
                       parent |-> p]
    IN \/ ~ParentFound(p) /\ GiveUp
       \/ /\ ParentFound(p)
          /\ \E r \in Homonyms(n, p) :
                 /\ w' = [w EXCEPT !.pc = "save", !.folder = f, !.entry = managed(r)]
                 /\ shared' = shared \cup {r}
          /\ UNCHANGED <<remote, moved, torn>>
       \/ /\ ParentFound(p)
          /\ Homonyms(n, p) = {}
          /\ \E r \in NewRemote :
                 /\ remote' = [remote EXCEPT ![r] =
                        [state |-> "live", account |-> w.account, name |-> n, parent |-> p]]
                 /\ w' = [w EXCEPT !.pc = "save", !.folder = f, !.entry = managed(r)]
          /\ UNCHANGED <<shared, moved, torn>>

\* A folder whose parent has its remote folder already.
Ready(f) == w.list[f].parent = Top \/ w.list[f].parent \in DOMAIN w.done

Keep(f, mapping, name, p) ==
    /\ w' = [w EXCEPT !.pc = "save", !.folder = f,
                      !.entry = [mapping EXCEPT !.name = name, !.parent = p]]
    /\ UNCHANGED <<shared, moved, torn>>

\* The remote folder gets the name and the place of the logical one, in two calls;
\* the second may fail.
Follow(f, mapping, p) ==
    LET n == w.list[f].name
        r == mapping.remote
    IN \/ /\ mapping.parent = p \/ ParentFound(p)
          /\ remote' = [remote EXCEPT ![r].name = IF mapping.name = n THEN @ ELSE n,
                                      ![r].parent = IF mapping.parent = p THEN @ ELSE p]
          /\ Keep(f, mapping, n, p)
       \/ /\ mapping.name # n /\ mapping.parent # p
          /\ remote' = [remote EXCEPT ![r].name = n]
          /\ torn' = torn \cup {r}
          /\ w' = IdleWorker
          /\ moved' = {}
          /\ UNCHANGED shared

\* The mapping of the provider named in the settings, none if they named no account.
MappingOf(f) == IF w.tag = NoAccount THEN NoMapping ELSE mappings[f]

\* The mapping is read, and the calls it asks for are made.
MirrorFolder(f) ==
    LET mapping == MappingOf(f)
        p == ParentOf(f)
        same == mapping.name = w.list[f].name /\ mapping.parent = p
        theirs == mapping.mode # "none" /\ mapping.account # w.tag
        adopted == mapping.mode = "ADOPTED" /\ ~theirs
        managed == mapping.mode = "MANAGED" /\ ~theirs
        found == Found(w.account, mapping.remote)
    IN /\ w.pc = "mirror"
       /\ f \in w.todo
       /\ Ready(f)
       /\ \/ (theirs \/ (adopted /\ ~found)) /\ GiveUp
          \/ /\ adopted /\ found
             /\ Keep(f, mapping, remote[mapping.remote].name, remote[mapping.remote].parent)
             /\ remote' = remote
          \/ managed /\ same /\ Keep(f, mapping, mapping.name, p) /\ remote' = remote
          \/ managed /\ ~same /\ found /\ Follow(f, mapping, p)
          \/ (mapping.mode = "none" \/ (managed /\ ~same /\ ~found)) /\ Ensure(f, p)
       /\ UNCHANGED <<mappings, setting, crossed>>
       /\ WorkerOnly

SaveMapping ==
    /\ w.pc = "save"
    /\ IF w.tag \in accounts
       THEN /\ Upsert(w.folder, w.entry)
            /\ w' = [w EXCEPT !.pc = "mirror", !.todo = @ \ {w.folder},
                       !.done = [f \in DOMAIN w.done \cup {w.folder} |->
                                    IF f = w.folder THEN w.entry.remote ELSE w.done[f]],
                       !.folder = NoFolder, !.entry = NoMapping]
            /\ UNCHANGED <<moved, torn>>
       ELSE Stop /\ UNCHANGED <<mappings, crossed>>
    /\ UNCHANGED <<setting, remote, shared>>
    /\ WorkerOnly

StructureDone ==
    /\ w.pc = "mirror"
    /\ w.todo = {}
    /\ w' = [w EXCEPT !.pc = "prune", !.done = IdleWorker.done,
                      !.todo = {f \in Folders : w.list[f].status = "DELETED"}]
    /\ moved' = {}
    /\ UNCHANGED <<mappings, setting, remote, shared, crossed, torn>>
    /\ WorkerOnly

\* Mutant: the mode of the mapping is not looked at.
PruneAny(f) ==
    /\ w.pc = "prune"
    /\ f \in w.todo
    /\ \A g \in w.todo \ {f} : w.list[g].parent # f
    /\ mappings[f].mode # "none"
    /\ remote' = IF Found(w.account, mappings[f].remote)
                 THEN Without(mappings[f].remote) ELSE remote
    /\ w' = [w EXCEPT !.pc = "unmap", !.folder = f]
    /\ UNCHANGED <<mappings, setting, historyVars>>
    /\ WorkerOnly

\* _remove_deleted_remote_folders: the deepest first.
PruneFolder(f) ==
    /\ w.pc = "prune"
    /\ f \in w.todo
    /\ \A g \in w.todo \ {f} : w.list[g].parent # f
    /\ LET mapping == MappingOf(f)
       IN \/ /\ mapping.mode = "none"
             /\ w' = [w EXCEPT !.todo = @ \ {f}]
             /\ UNCHANGED <<mappings, crossed, remote>>
          \/ /\ mapping.mode = "ADOPTED"
             /\ Clear(f)
             /\ w' = [w EXCEPT !.todo = @ \ {f}]
             /\ remote' = remote
          \/ /\ mapping.mode = "MANAGED"
             /\ remote' = IF Found(w.account, mapping.remote)
                          THEN Without(mapping.remote) ELSE remote
             /\ w' = [w EXCEPT !.pc = "unmap", !.folder = f]
             /\ UNCHANGED <<mappings, crossed>>
    /\ UNCHANGED <<setting, shared, moved, torn>>
    /\ WorkerOnly

Unmap ==
    /\ w.pc = "unmap"
    /\ Clear(w.folder)
    /\ w' = [w EXCEPT !.pc = "prune", !.todo = @ \ {w.folder}, !.folder = NoFolder]
    /\ UNCHANGED <<setting, remote, shared, moved, torn>>
    /\ WorkerOnly

SyncDone ==
    /\ w.pc = "prune"
    /\ w.todo = {}
    /\ w' = IdleWorker
    /\ UNCHANGED <<mappings, setting, remote, historyVars>>
    /\ WorkerOnly

\* The process dies.
Crash ==
    /\ Stop \/ (w.pc = "idle" /\ m.pc # "idle" /\ UNCHANGED <<w, moved, torn>>)
    /\ m' = IdleMapper
    /\ UNCHANGED <<folders, mappings, accounts, setting, remote, count, shared, crossed>>

-----------------------------------------------------------------------------
Interface ==
    \/ \E f \in Folders, n \in Names, p \in Places : CreateFolder(f, n, p)
    \/ \E f \in Folders, n \in Names : RenameFolder(f, n)
    \/ \E f \in Folders : DeleteFolder(f) \/ RemoveMapping(f)
    \/ \E a \in Accounts : Configure(a)
    \/ RemoveAccount
    \/ \E f \in Folders, r \in Remotes : MapBegin(f, r)

Mapper == MapRead \/ MapLook \/ MapSave

Worker ==
    \/ StartSync \/ SyncFails \/ ReadSettings \/ EnsureRoot
    \/ \E f \in Folders : MirrorFolder(f) \/ PruneFolder(f)
    \/ SaveMapping \/ StructureDone \/ Unmap \/ SyncDone

Next == Interface \/ (\E r \in Remotes : OwnerRemoves(r)) \/ Mapper \/ Worker \/ Crash

Spec == Init /\ [][Next]_vars

-----------------------------------------------------------------------------
(* Properties.                                                             *)

\* Types of the tables, and of what the threads are about to write.
FoldersTypeOK ==
    /\ folders \in [Folders -> [status : {"NONE", "ACTIVE", "DELETED"}, name : Names,
                                parent : Places]]
    /\ mappings \in [Folders -> Mapping]
    /\ \A f \in Folders : mappings[f].mode # "none" => mappings[f].remote # NoRemote
                                                       /\ mappings[f].account \in accounts
    /\ accounts \subseteq Accounts
    /\ setting.account \in accounts \cup {NoAccount}
    /\ remote \in [Remotes -> RemoteFolder]
    /\ {w.entry, m.entry} \subseteq Mapping

Adopted(r) == \E f \in Folders : mappings[f].mode = "ADOPTED" /\ mappings[f].remote = r

Touched(r) == \/ remote'[r].name # remote[r].name
              \/ remote'[r].parent # remote[r].parent
              \/ remote'[r].state # remote[r].state

\* No synchronization renames, moves or deletes a folder the user has adopted
\* (docs/Manual_Usuario.md:1003), unless it took that folder over by its name
\* or the folder lies in one it manages.
AdoptedIsLeftAlone ==
    [][w' # w => \A r \in Remotes :
           Adopted(r) /\ Touched(r) => r \in shared \/ remote[r].parent # Elsewhere]_vars

\* One remote folder stands for one logical folder
\* (Manual_Usuario.md:1004), unless it is shared, or mapped for an account no longer
\* in use.
OneFolderEach ==
    \A f, g \in Folders \ crossed :
        /\ f # g
        /\ mappings[f].mode # "none" /\ mappings[g].mode # "none"
        /\ mappings[f].remote = mappings[g].remote
        => mappings[f].remote \in shared

\* A mapping is of the account in use and its remote folder in that account
\* (Manual_Usuario.md:1005), unless a thread started before a switch wrote it.
MappedForAccount ==
    \A f \in Folders :
        mappings[f].mode # "none" /\ f \notin crossed =>
            /\ mappings[f].account = setting.account
            /\ remote[mappings[f].remote].account = setting.account

\* The mappings are sound: of one type, one folder and one account.
MappingsSound == FoldersTypeOK /\ OneFolderEach /\ MappedForAccount

\* When the structure is done, an active folder that nobody touched meanwhile has
\* a folder of its name in its parent's folder, unless that was removed at the
\* provider, is shared with another folder, was picked by the user or was changed by
\* an earlier synchronization that ended before it recorded the change.
MirrorFaithful ==
    [][w.pc = "mirror" /\ w'.pc = "prune" =>
           \A f \in Folders \ (moved \cup crossed) :
               LET mapping == mappings[f]
                   r == mapping.remote
                   owned == /\ mapping.mode = "MANAGED"
                            /\ remote[r].state = "live"
                            /\ r \notin shared \cup torn
               IN Active(f) => /\ mapping.mode # "none"
                               /\ owned => /\ remote[r].name = folders[f].name
                                           /\ remote[r].parent = ParentOf(f)]_vars

\* What the synchronization does to the remote folders: it leaves those alone the
\* user has adopted, and mirrors the others.
FoldersFaithful == AdoptedIsLeftAlone /\ MirrorFaithful
=============================================================================
