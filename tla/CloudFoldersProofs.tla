-------------------------- MODULE CloudFoldersProofs --------------------------
(***************************************************************************)
(* The two mirrors of folders in the clouds, for any number of folders,    *)
(* names, accounts, items, scans and plans.                                *)
(*                                                                         *)
(* CloudFolders: the mappings are sound (MappingsSound), adopted folders   *)
(* are left alone and the others follow (FoldersFaithful).  Two mappings   *)
(* of one account meet in one remote folder only if that is in shared      *)
(* (One): a thread about to write a mapping counts as if it had written    *)
(* it, so that the look of each thread at the table and at the other's     *)
(* entry is enough.  What a managed mapping says of its remote folder is   *)
(* true unless the worker is about to record what it has changed, or died  *)
(* then (Labels); for that, no managed mapping is of another account than  *)
(* the worker writes (OneTag).  So a folder done and not touched since has *)
(* its name and place (Done).                                              *)
(*                                                                         *)
(* Multicloud: copies are made once and accounted for (CopiesAccounted)    *)
(* and a mirror said to be up to date is (InventoryFaithful).  An action   *)
(* moves only with its plan (PlansOrdered), and what the worker has still  *)
(* to do has made no copy (RunOrdered).  A scan that is alone has, at each *)
(* of its stages, either the row of an item up to date or the item in hand *)
(* (ScanAlone), and a scan of any other folder has read what this one      *)
(* holds before it groups the rows of all (Snapped).                       *)
(***************************************************************************)
EXTENDS CloudFolders, Multicloud, FiniteSetTheorems, WellFoundedInduction, TLAPS

FolderRow == [status : {"NONE", "ACTIVE", "DELETED"}, name : Names, parent : Places]

\* What the worker has listed, and the remote folders it has found for it.
Lists == [Folders -> FolderRow] \cup {[f \in {} |-> 0]}
Founds == UNION {[S -> Remotes] : S \in SUBSET Folders}

WorkerSteps == {"idle", "settings", "root", "mirror", "save", "prune", "unmap"}

Memory == [pc : WorkerSteps, account : Accounts \cup {NoAccount},
           tag : Accounts \cup {NoAccount}, root : Accounts \cup {NoAccount},
           list : Lists, todo : SUBSET Folders, done : Founds,
           folder : Folders \cup {NoFolder}, entry : Mapping]

MapperMemory == [pc : {"idle", "read", "look", "save"}, folder : Folders \cup {NoFolder},
                 remote : Remotes \cup {NoRemote}, account : Accounts \cup {NoAccount},
                 tag : Accounts \cup {NoAccount}, entry : Mapping]

Setting == [account : Accounts \cup {NoAccount}, root : Accounts \cup {NoAccount}]

Mapped(f) == mappings[f].mode # "none"

Made(r) == r \in Remotes /\ remote[r].state # "none"

Types ==
    /\ FoldersTypeOK
    /\ w \in Memory /\ m \in MapperMemory
    /\ setting \in Setting
    /\ \A f \in Folders : Mapped(f) => Made(mappings[f].remote)

\* The worker has what its step needs.
WorkerPlaced ==
    /\ w.pc # "idle" => w.account \in Accounts
    /\ w.pc \in {"mirror", "save", "prune", "unmap"} => w.list \in [Folders -> FolderRow]
    /\ w.pc \in {"idle", "settings", "root"} => w.done = IdleWorker.done
    /\ w.pc = "unmap" => w.folder \in Folders
    /\ w.pc # "save" => w.entry = NoMapping
    /\ w.pc = "save" =>
           /\ w.folder \in w.todo /\ Ready(w.folder)
           /\ w.entry.mode # "none" /\ w.entry.account = w.tag /\ Made(w.entry.remote)
           /\ w.entry.mode = "MANAGED" =>
                  w.entry.name = w.list[w.folder].name /\ w.entry.parent = ParentOf(w.folder)

\* So has the thread that maps a folder.
MapperPlaced ==
    /\ m.pc # "idle" => m.folder \in Folders /\ Made(m.remote)
    /\ m.pc = "look" => m.tag \in Accounts
    /\ m.pc = "save" => /\ m.entry.mode = "ADOPTED" /\ m.entry.remote = m.remote
                        /\ m.entry.account = m.tag

\* The folders done are active ones, each after its parent.
Progress ==
    w.pc \in {"mirror", "save"} =>
        /\ \A f \in Folders : w.list[f].status = "ACTIVE" <=> f \in w.todo \cup DOMAIN w.done
        /\ w.todo \cap DOMAIN w.done = {}
        /\ \A f \in DOMAIN w.done : Ready(f)

Meets(a, b) == a.remote = b.remote /\ a.account = b.account

\* No folder but f is mapped as the entry says, unless the remote folder is shared.
Apart(f, entry) ==
    \A g \in Folders \ {f} : Mapped(g) /\ Meets(mappings[g], entry) => entry.remote \in shared

\* Mappings, written or about to be, of one account and remote folder share it.
One ==
    /\ \A f \in Folders : Mapped(f) => Apart(f, mappings[f])
    /\ w.pc = "save" => Apart(w.folder, w.entry)
    /\ m.pc = "save" => Apart(m.folder, m.entry)
    /\ w.pc = "save" /\ m.pc = "save" /\ w.folder # m.folder /\ Meets(w.entry, m.entry)
       => w.entry.remote \in shared

Managed(f) == mappings[f].mode = "MANAGED"

\* A worker that writes mappings of another account than its provider's has
\* begun before the last change of account: no other managed mapping is left.
OneTag ==
    /\ w.pc = "settings" /\ setting.account # w.account => \A f \in Folders : ~Managed(f)
    /\ w.pc \notin {"idle", "settings"} /\ w.tag # w.account =>
           \A f \in Folders : Managed(f) => mappings[f].account = w.tag

\* r has the name and the place an entry says, as far as anybody answers for it.
TrueOf(entry) ==
    LET r == entry.remote
    IN remote[r].state = "live" /\ r \notin shared \cup torn /\ remote[r].account = entry.account
       => remote[r].name = entry.name /\ remote[r].parent = entry.parent

Labels ==
    /\ \A f \in Folders :
           Managed(f) => \/ TrueOf(mappings[f])
                         \/ /\ w.pc = "save" /\ w.folder = f
                            /\ w.entry.remote = mappings[f].remote
    /\ w.pc = "save" /\ w.entry.mode = "MANAGED" => TrueOf(w.entry)

\* A managed remote folder is one the synchronization has made, or is shared.
Within(r) == r \in shared \/ remote[r].parent # Elsewhere

Inner ==
    /\ \A f \in Folders : Managed(f) => Within(mappings[f].remote)
    /\ w.pc = "save" /\ w.entry.mode = "MANAGED" => Within(w.entry.remote)

\* What was listed and done is so still, of the folders nobody has touched.
Done ==
    w.pc \in {"mirror", "save"} => \A f \in Folders \ moved :
        /\ Active(f) => folders[f] = w.list[f]
        /\ f \in DOMAIN w.done \ crossed =>
               /\ Mapped(f)
               /\ Managed(f) => /\ mappings[f].name = w.list[f].name
                                /\ mappings[f].parent = ParentOf(f)

IInv == /\ Types /\ WorkerPlaced /\ MapperPlaced /\ Progress
        /\ MappedForAccount /\ One /\ OneTag /\ Labels /\ Inner /\ Done

-----------------------------------------------------------------------------
(* Values.                                                                 *)

\* What the idle threads hold.
LEMMA Values ==
    /\ AnyName \in Names /\ NoMapping \in Mapping
    /\ NoMapping.mode = "none" /\ NoMapping.remote = NoRemote
    /\ IdleWorker \in Memory /\ IdleMapper \in MapperMemory
    /\ IdleWorker.pc = "idle" /\ IdleWorker.entry = NoMapping /\ IdleMapper.pc = "idle"
<1>1. AnyName \in Names
    BY NonemptyAssumption DEF AnyName
<1>2. NoMapping \in Mapping
    BY <1>1 DEF NoMapping, Mapping
<1>3. [f \in {} |-> 0] \in Founds
  <2>1. [f \in {} |-> 0] \in [{} -> Remotes]
    OBVIOUS
  <2> QED
    BY <2>1 DEF Founds
<1>4. IdleWorker \in Memory
    BY <1>2, <1>3 DEF IdleWorker, Memory, WorkerSteps, Lists
<1>5. IdleMapper \in MapperMemory
    BY <1>2 DEF IdleMapper, MapperMemory
<1> QED
    BY <1>1, <1>2, <1>4, <1>5 DEF NoMapping, IdleWorker, IdleMapper

\* The invariant holds at the start.
LEMMA InitInv == Init => IInv
<1> SUFFICES ASSUME Init PROVE IInv
    OBVIOUS
<1>1. setting.account \in Accounts
    BY NonemptyAssumption DEF Init
<1>2. FoldersTypeOK
    BY <1>1, Values, OwnerAssumption DEF Init, FoldersTypeOK, Places, RemoteFolder, NoMapping,
       Mapping, IdleWorker, IdleMapper
<1>3. \A f \in Folders : mappings[f] = NoMapping
    BY DEF Init
<1>4. Types
    BY <1>2, <1>3, Values DEF Types, Init, Mapped, Setting, FoldersTypeOK
<1>5. w = IdleWorker /\ m = IdleMapper
    BY DEF Init
<1> QED
    BY <1>3, <1>4, <1>5, Values
    DEF IInv, WorkerPlaced, MapperPlaced, Progress, MappedForAccount, One, OneTag, Labels,
        Inner, Done, Mapped, Managed

-----------------------------------------------------------------------------
(* Steps that leave the mappings and the worker alone.                     *)

\* A remote folder stays, or is removed.
Stays(r) == \/ remote'[r] = remote[r]
            \/ /\ remote[r].state = "live"
               /\ remote'[r] = [remote[r] EXCEPT !.state = "gone"]

\* Deleting a remote folder leaves the others as they are.
LEMMA WithoutStays ==
    ASSUME Types, NEW r, remote' = Without(r)
    PROVE  remote' \in [Remotes -> RemoteFolder] /\ \A x \in Remotes : Stays(x)
  BY DEF Types, FoldersTypeOK, Without, Stays, RemoteFolder

\* What is made stays made, in its account, and what was not live does not become so.
LEMMA StaysMade ==
    ASSUME remote \in [Remotes -> RemoteFolder], \A x \in Remotes : Stays(x), NEW r \in Remotes
    PROVE  /\ Made(r) => Made(r)'
           /\ remote'[r].account = remote[r].account
           /\ remote'[r].name = remote[r].name /\ remote'[r].parent = remote[r].parent
           /\ remote'[r].state = "live" => remote[r].state = "live"
  BY DEF Stays, Made, RemoteFolder

\* A step that leaves mappings and worker alone keeps all that is said of them.
LEMMA TablesKept ==
    ASSUME IInv, mappings' = mappings, crossed' = crossed, w' = w,
           setting'.account = setting.account, shared \subseteq shared', torn \subseteq torn',
           \A x \in Remotes : Stays(x)
    PROVE  /\ WorkerPlaced' /\ Progress' /\ MappedForAccount' /\ OneTag' /\ Labels' /\ Inner'
           /\ \A f \in Folders : Mapped(f)' => Made(mappings[f].remote)'
           /\ \A f \in Folders : Mapped(f)' => Apart(f, mappings[f])'
           /\ w.pc = "save" => Apart(w.folder, w.entry)'
<1>1. /\ remote \in [Remotes -> RemoteFolder] /\ mappings \in [Folders -> Mapping]
      /\ \A f \in Folders : Mapped(f) => mappings[f].remote \in Remotes
    BY DEF IInv, Types, FoldersTypeOK, Made
<1>2. \A f \in Folders : Mapped(f)' = Mapped(f) /\ Managed(f)' = Managed(f)
                          /\ (Managed(f) => Mapped(f))
    BY DEF Mapped, Managed
<1>3. WorkerPlaced'
    BY <1>1, StaysMade DEF IInv, WorkerPlaced, Ready, ParentOf, Made
<1>4. Progress'
    BY DEF IInv, Progress, Ready
<1>5. MappedForAccount'
    BY <1>1, StaysMade DEF IInv, MappedForAccount, Mapped
<1>6. OneTag'
    BY <1>2 DEF IInv, OneTag
<1>7. ASSUME NEW e, e.remote \in Remotes, TrueOf(e) PROVE TrueOf(e)'
    BY <1>1, <1>7, StaysMade DEF TrueOf
<1>8. w.pc = "save" => w.entry.remote \in Remotes
    BY DEF IInv, WorkerPlaced, Made
<1>9. Labels'
    BY <1>1, <1>2, <1>7, <1>8 DEF IInv, Labels
<1>10. Inner'
    BY <1>1, <1>2, <1>8, StaysMade DEF IInv, Inner, Within
<1>11. ASSUME NEW f \in Folders, Mapped(f)' PROVE Made(mappings[f].remote)'
  <2>1. Made(mappings[f].remote)
    BY <1>2, <1>11 DEF IInv, Types
  <2> QED
    BY <1>1, <2>1, StaysMade DEF Made
<1>12. ASSUME NEW f, NEW e, Apart(f, e) PROVE Apart(f, e)'
    BY <1>2, <1>12 DEF Apart
<1>13. \A f \in Folders : Mapped(f)' => Apart(f, mappings[f])'
    BY <1>2, <1>12 DEF IInv, One
<1> QED
    BY <1>3, <1>4, <1>5, <1>6, <1>9, <1>10, <1>11, <1>12, <1>13 DEF IInv, One

-----------------------------------------------------------------------------
(* The interface.                                                          *)

\* One folder is made, renamed or deleted, and others are deleted with it.
LEMMA EditsMove ==
    ASSUME Types, NEW f \in Folders,
           \/ \E n \in Names, p \in Places : CreateFolder(f, n, p)
           \/ \E n \in Names : RenameFolder(f, n)
           \/ DeleteFolder(f)
    PROVE  /\ folders' \in [Folders -> FolderRow]
           /\ \A g \in Folders \ {f} : folders'[g] = folders[g] \/ ~Active(g)'
           /\ Touch({f})
           /\ UNCHANGED <<mappings, accounts, setting, remote, w, m, shared, crossed, torn>>
<1>1. folders \in [Folders -> FolderRow]
    BY DEF Types, FoldersTypeOK, FolderRow
<1>2. ASSUME NEW n \in Names, NEW p \in Places, CreateFolder(f, n, p)
      PROVE  /\ folders' \in [Folders -> FolderRow]
             /\ \A g \in Folders \ {f} : folders'[g] = folders[g]
             /\ Edit(f)
    BY <1>1, <1>2 DEF CreateFolder, FolderRow
<1>3. ASSUME NEW n \in Names, RenameFolder(f, n)
      PROVE  /\ folders' \in [Folders -> FolderRow]
             /\ \A g \in Folders \ {f} : folders'[g] = folders[g]
             /\ Edit(f)
    BY <1>1, <1>3 DEF RenameFolder, FolderRow
<1>4. ASSUME DeleteFolder(f)
      PROVE  /\ folders' \in [Folders -> FolderRow]
             /\ \A g \in Folders \ {f} : folders'[g] = folders[g] \/ ~Active(g)'
             /\ Edit(f)
    BY <1>1, <1>4 DEF DeleteFolder, FolderRow, Active
<1> QED
    BY <1>2, <1>3, <1>4 DEF Edit

\* A folder is made, renamed or deleted.
LEMMA EditsKeep ==
    ASSUME IInv, NEW f \in Folders,
           \/ \E n \in Names, p \in Places : CreateFolder(f, n, p)
           \/ \E n \in Names : RenameFolder(f, n)
           \/ DeleteFolder(f)
    PROVE  IInv'
<1>1. /\ folders' \in [Folders -> FolderRow]
      /\ \A g \in Folders \ {f} : folders'[g] = folders[g] \/ ~Active(g)'
      /\ Touch({f})
      /\ UNCHANGED <<mappings, accounts, setting, remote, w, m, shared, crossed, torn>>
    BY EditsMove DEF IInv
<1>2. Types'
    BY <1>1 DEF IInv, Types, FoldersTypeOK, Mapped, Made, FolderRow
<1>3. /\ WorkerPlaced' /\ Progress' /\ MappedForAccount' /\ OneTag' /\ Labels' /\ Inner'
      /\ \A g \in Folders : Mapped(g)' => Apart(g, mappings[g])'
      /\ w.pc = "save" => Apart(w.folder, w.entry)'
    BY <1>1, TablesKept DEF Stays
<1>4. MapperPlaced' /\ One'
    BY <1>1, <1>3 DEF IInv, MapperPlaced, One, Apart, Made, Mapped
<1>5. Done'
  <2> SUFFICES ASSUME w.pc \in {"mirror", "save"}, NEW g \in Folders \ moved'
               PROVE  /\ Active(g)' => folders'[g] = w.list[g]
                      /\ g \in DOMAIN w.done \ crossed =>
                             /\ Mapped(g)
                             /\ Managed(g) => /\ mappings[g].name = w.list[g].name
                                              /\ mappings[g].parent = ParentOf(g)
    BY <1>1 DEF Done, Mapped, Managed, ParentOf
  <2>1. g \notin moved /\ g # f
    BY <1>1 DEF Touch
  <2> QED
    BY <1>1, <2>1 DEF IInv, Done, Active
<1> QED
    BY <1>2, <1>3, <1>4, <1>5 DEF IInv

\* The account changes, and with it all mappings go.
LEMMA SwitchKeeps ==
    ASSUME IInv, (\E a \in Accounts : Configure(a)) \/ RemoveAccount
    PROVE  IInv'
<1>1. /\ mappings' = [f \in Folders |-> NoMapping] /\ crossed' = {} /\ Touch(Folders)
      /\ accounts' \subseteq accounts /\ setting'.account \in accounts' \cup {NoAccount}
      /\ setting' \in Setting
      /\ UNCHANGED <<folders, remote, w, m, shared, torn>>
    BY NullAssumption DEF Configure, RemoveAccount, IInv, Types, FoldersTypeOK, Setting
<1>2. \A f \in Folders : mappings'[f] = NoMapping /\ ~Mapped(f)' /\ ~Managed(f)'
    BY <1>1, Values DEF Mapped, Managed
<1>3. Types'
    BY <1>1, <1>2, Values DEF IInv, Types, FoldersTypeOK, Mapped, Made, FolderRow
<1>4. WorkerPlaced' /\ MapperPlaced' /\ Progress'
    BY <1>1 DEF IInv, WorkerPlaced, MapperPlaced, Progress, Ready, ParentOf, Made
<1>5. MappedForAccount' /\ OneTag'
    BY <1>2 DEF MappedForAccount, OneTag, Mapped
<1>6. One'
    BY <1>1, <1>2 DEF IInv, One, Apart
<1>7. Labels' /\ Inner'
    BY <1>1, <1>2 DEF IInv, Labels, Inner, TrueOf, Within
<1>8. Done'
    BY <1>1 DEF Done, Touch
<1> QED
    BY <1>3, <1>4, <1>5, <1>6, <1>7, <1>8 DEF IInv

\* A folder loses its mapping, and others keep theirs.
LEMMA ClearKeeps ==
    ASSUME IInv, NEW f \in Folders, Clear(f),
           UNCHANGED <<folders, accounts, setting, remote, m, shared, torn>>,
           \/ UNCHANGED w /\ Touch({f})
           \/ /\ UNCHANGED moved /\ w' \in Memory /\ w.pc \in {"prune", "unmap"}
              /\ w'.pc = "prune" /\ w'.entry = NoMapping
              /\ w'.account = w.account /\ w'.tag = w.tag /\ w'.list = w.list
    PROVE  IInv'
<1>1. mappings \in [Folders -> Mapping] /\ w \in Memory
    BY DEF IInv, Types, FoldersTypeOK
<1>2. /\ mappings' = [mappings EXCEPT ![f] = NoMapping] /\ crossed' = crossed \ {f}
      /\ mappings'[f] = NoMapping /\ ~Mapped(f)' /\ ~Managed(f)'
      /\ \A g \in Folders \ {f} : /\ mappings'[g] = mappings[g] /\ Mapped(g)' = Mapped(g)
                                  /\ Managed(g)' = Managed(g)
    BY <1>1, Values DEF Clear, Mapped, Managed
<1>3. Types'
    BY <1>1, <1>2, Values DEF IInv, Types, FoldersTypeOK, Made, Mapped
<1>4. WorkerPlaced' /\ Progress'
    BY <1>1 DEF IInv, WorkerPlaced, Progress, Ready, ParentOf, Made
<1>5. MapperPlaced'
    BY DEF IInv, MapperPlaced, Made
<1>6. MappedForAccount'
    BY <1>2 DEF IInv, MappedForAccount, Mapped
<1>7. OneTag'
    BY <1>2 DEF IInv, OneTag
<1>8. One'
  <2>1. ASSUME NEW g, NEW e, Apart(g, e) PROVE Apart(g, e)'
    BY <1>2, <2>1 DEF Apart
  <2>2. \A g \in Folders : Mapped(g)' => Apart(g, mappings[g])'
    BY <1>2, <2>1 DEF IInv, One
  <2> QED
    BY <2>1, <2>2 DEF IInv, One
<1>9. Labels' /\ Inner'
    BY <1>2 DEF IInv, Labels, Inner, TrueOf, Within
<1>10. Done'
    BY <1>2 DEF IInv, Done, Touch, Mapped, Managed, Active, ParentOf
<1> QED
    BY <1>3, <1>4, <1>5, <1>6, <1>7, <1>8, <1>9, <1>10 DEF IInv

\* The owner of an account removes a folder.
LEMMA RemovalKeeps ==
    ASSUME IInv, NEW r \in Remotes, OwnerRemoves(r)
    PROVE  IInv'
<1>1. /\ remote' \in [Remotes -> RemoteFolder] /\ \A x \in Remotes : Stays(x)
      /\ UNCHANGED <<folders, mappings, accounts, setting, w, m, historyVars>>
    BY WithoutStays DEF OwnerRemoves, IInv
<1>2. /\ WorkerPlaced' /\ Progress' /\ MappedForAccount' /\ OneTag' /\ Labels' /\ Inner'
      /\ \A f \in Folders : Mapped(f)' => Made(mappings[f].remote)'
      /\ \A g \in Folders : Mapped(g)' => Apart(g, mappings[g])'
      /\ w.pc = "save" => Apart(w.folder, w.entry)'
    BY <1>1, TablesKept DEF historyVars
<1>3. Types'
    BY <1>1, <1>2 DEF IInv, Types, FoldersTypeOK, Mapped
<1>4. MapperPlaced'
    BY <1>1, StaysMade DEF IInv, MapperPlaced, Made, Types, FoldersTypeOK
<1>5. One'
    BY <1>1, <1>2 DEF IInv, One, Apart, historyVars, Mapped
<1>6. Done'
    BY <1>1 DEF IInv, Done, historyVars, Mapped, Managed, Active, ParentOf
<1> QED
    BY <1>2, <1>3, <1>4, <1>5, <1>6 DEF IInv

-----------------------------------------------------------------------------
(* The thread that maps a folder.                                          *)

\* Nothing but the thread's memory changes, and it is not about to write.
LEMMA MapperKeeps ==
    ASSUME IInv, m' \in MapperMemory, m'.pc # "save",
           m'.pc # "idle" => m'.folder \in Folders /\ Made(m'.remote),
           m'.pc = "look" => m'.tag \in Accounts,
           UNCHANGED <<folders, mappings, accounts, setting, remote, w, crossed, moved, torn>>,
           shared \subseteq shared'
    PROVE  IInv'
<1>1. /\ WorkerPlaced' /\ Progress' /\ MappedForAccount' /\ OneTag' /\ Labels' /\ Inner'
      /\ \A g \in Folders : Mapped(g)' => Apart(g, mappings[g])'
      /\ w.pc = "save" => Apart(w.folder, w.entry)'
    BY TablesKept DEF Stays
<1>2. Types'
    BY DEF IInv, Types, FoldersTypeOK, Mapped, Made, MapperMemory
<1>3. MapperPlaced' /\ One'
    BY <1>1 DEF MapperPlaced, One, Made
<1>4. Done'
    BY DEF IInv, Done, Mapped, Managed, Active, ParentOf
<1> QED
    BY <1>1, <1>2, <1>3, <1>4 DEF IInv

\* The user picks a folder, and the settings are read.
LEMMA MapBeginKeeps ==
    ASSUME IInv, \/ \E f \in Folders, r \in Remotes : MapBegin(f, r)
                 \/ MapRead
    PROVE  IInv'
<1>1. m \in MapperMemory /\ setting.account \in Accounts \cup {NoAccount}
    BY DEF IInv, Types, FoldersTypeOK
<1>2. ASSUME NEW f \in Folders, NEW r \in Remotes, MapBegin(f, r)
      PROVE  /\ m' \in MapperMemory /\ m'.pc = "read" /\ m'.folder \in Folders
             /\ Made(m'.remote)
             /\ UNCHANGED <<folders, mappings, accounts, setting, remote, w, historyVars>>
  <2>1. m' \in MapperMemory /\ m'.pc = "read" /\ m'.folder = f /\ m'.remote = r
    BY <1>1, <1>2, Values, ZenonT(60) DEF MapBegin, MapperMemory, IdleMapper
  <2> QED
    BY <1>2, <2>1 DEF MapBegin, Found, Made
<1>3. ASSUME MapRead
      PROVE  /\ m' \in MapperMemory /\ m'.pc \in {"idle", "look"}
             /\ m'.pc = "look" => /\ m'.folder \in Folders /\ Made(m'.remote)
                                  /\ m'.tag \in Accounts
             /\ UNCHANGED <<folders, mappings, accounts, setting, remote, w, historyVars>>
    BY <1>1, <1>3, Values
    DEF MapRead, MapperMemory, MapperOnly, Made, IInv, MapperPlaced, Types
<1> QED
    BY <1>2, <1>3, MapperKeeps DEF historyVars

\* The chosen folder is found, and no other folder is mapped to it.
LEMMA MapLookKeeps == IInv /\ MapLook => IInv'
<1> SUFFICES ASSUME IInv, MapLook PROVE IInv'
    OBVIOUS
<1>1. /\ m \in MapperMemory /\ w \in Memory /\ m.folder \in Folders /\ Made(m.remote)
      /\ m.tag \in Accounts /\ m.pc = "look"
      /\ remote \in [Remotes -> RemoteFolder] /\ mappings \in [Folders -> Mapping]
    BY DEF IInv, Types, MapperPlaced, MapLook, FoldersTypeOK
<1>2. /\ UNCHANGED <<folders, mappings, accounts, setting, remote, w, crossed, moved, torn>>
      /\ shared \subseteq shared'
      /\ w.entry.remote = m.remote /\ w.folder # m.folder => m.remote \in shared'
    BY DEF MapLook, MapperOnly
<1>3. CASE m' = IdleMapper
    BY <1>2, <1>3, Values, MapperKeeps
<1>4. CASE /\ m' = [m EXCEPT !.pc = "save",
                      !.entry = [mode |-> "ADOPTED", remote |-> m.remote, account |-> m.tag,
                                 name |-> remote[m.remote].name,
                                 parent |-> remote[m.remote].parent]]
           /\ ~ \E g \in Folders \ {m.folder} : /\ mappings[g].account = m.tag
                                                /\ mappings[g].remote = m.remote
  <2>1. /\ m' \in MapperMemory /\ m'.pc = "save" /\ m'.folder = m.folder
        /\ m'.remote = m.remote /\ m'.tag = m.tag
        /\ m'.entry.mode = "ADOPTED" /\ m'.entry.remote = m.remote /\ m'.entry.account = m.tag
        /\ m'.entry \in Mapping
    BY <1>1, <1>4 DEF MapperMemory, Mapping, RemoteFolder, Made
  <2>2. /\ WorkerPlaced' /\ Progress' /\ MappedForAccount' /\ OneTag' /\ Labels' /\ Inner'
        /\ \A g \in Folders : Mapped(g)' => Apart(g, mappings[g])'
        /\ w.pc = "save" => Apart(w.folder, w.entry)'
    BY <1>2, TablesKept DEF Stays
  <2>3. Types'
    BY <1>2, <2>1 DEF IInv, Types, FoldersTypeOK, Mapped, Made
  <2>4. MapperPlaced'
    BY <1>1, <1>2, <2>1 DEF MapperPlaced, Made
  <2>5. Apart(m.folder, m.entry)'
    BY <1>2, <1>4, <2>1 DEF Apart, Meets
  <2>6. One'
    BY <1>2, <2>1, <2>2, <2>5 DEF One, Meets
  <2>7. Done'
    BY <1>2 DEF IInv, Done, Mapped, Managed, Active, ParentOf
  <2> QED
    BY <2>2, <2>3, <2>4, <2>6, <2>7 DEF IInv
<1> QED
    BY <1>3, <1>4 DEF MapLook

\* The mapping is written, unless the account is gone.
LEMMA MapSaveKeeps == IInv /\ MapSave => IInv'
<1> SUFFICES ASSUME IInv, MapSave PROVE IInv'
    OBVIOUS
<1>1. /\ m.folder \in Folders /\ m.entry \in Mapping /\ Made(m.entry.remote)
      /\ m.entry.mode = "ADOPTED" /\ m.entry.account = m.tag
      /\ mappings \in [Folders -> Mapping] /\ m' = IdleMapper /\ m.pc = "save"
      /\ UNCHANGED <<folders, accounts, setting, remote, w, shared, torn>>
    BY DEF IInv, Types, MapperPlaced, MapSave, MapperMemory, FoldersTypeOK, MapperOnly
<1>2. CASE m.tag \notin accounts
    BY <1>1, <1>2, Values, MapperKeeps DEF MapSave
<1>3. CASE m.tag \in accounts
  <2> PICK f \in Folders, e \in Mapping : f = m.folder /\ e = m.entry
    BY <1>1
  <2>1. Upsert(f, e) /\ Touch({f})
    BY <1>3 DEF MapSave
  <2>2. /\ mappings'[f] = e /\ Mapped(f)' /\ ~Managed(f)'
        /\ \A g \in Folders \ {f} :
               /\ mappings'[g] = mappings[g] /\ Mapped(g)' = Mapped(g)
               /\ Managed(g)' = Managed(g)
        /\ mappings' \in [Folders -> Mapping]
        /\ \A g \in Folders \ {f} : g \in crossed' <=> g \in crossed
    <3>1. mappings' = [mappings EXCEPT ![f] = e]
      BY <2>1 DEF Upsert
    <3>2. \A g \in Folders \ {f} : g \in crossed' <=> g \in crossed
      BY <2>1 DEF Upsert
    <3>3. mappings'[f] = e /\ mappings' \in [Folders -> Mapping]
      BY <1>1, <3>1
    <3>4. \A g \in Folders \ {f} : mappings'[g] = mappings[g]
      BY <1>1, <3>1
    <3> QED
      BY <1>1, <3>2, <3>3, <3>4 DEF Mapped, Managed
  <2>3. Types'
    <3>1. \A g \in Folders : Mapped(g)' => /\ mappings'[g].account \in accounts
                                            /\ Made(mappings[g].remote)'
      BY <1>1, <1>3, <2>2 DEF IInv, Types, FoldersTypeOK, Mapped, Made
    <3>2. FoldersTypeOK'
      BY <1>1, <2>2, <3>1, Values, NullAssumption
      DEF IInv, Types, FoldersTypeOK, Mapped, Made, IdleMapper
    <3> QED
      BY <1>1, <3>1, <3>2, Values DEF IInv, Types
  <2>4. WorkerPlaced' /\ Progress'
    BY <1>1 DEF IInv, WorkerPlaced, Progress, Ready, ParentOf, Made
  <2>5. MapperPlaced'
    BY <1>1, Values DEF MapperPlaced
  <2>6. MappedForAccount'
    BY <1>1, <2>1, <2>2 DEF IInv, MappedForAccount, Mapped, Upsert
  <2>7. OneTag' /\ Labels' /\ Inner'
    <3>1. OneTag'
      BY <1>1, <2>2 DEF IInv, OneTag
    <3>2. Labels'
      BY <1>1, <2>2 DEF IInv, Labels, TrueOf
    <3>3. Inner'
      BY <1>1, <2>2 DEF IInv, Inner, Within
    <3> QED
      BY <3>1, <3>2, <3>3
  <2>8. \A g \in Folders : Mapped(g)' => Apart(g, mappings[g])'
    <3>1. Apart(f, mappings[f])'
      BY <1>1, <2>2 DEF IInv, One, Apart
    <3>2. ASSUME NEW g \in Folders \ {f}, Mapped(g)' PROVE Apart(g, mappings[g])'
      <4>1. Apart(g, mappings[g]) /\ Apart(f, e)
        BY <1>1, <2>2, <3>2 DEF IInv, One
      <4> QED
        BY <1>1, <2>2, <3>2, <4>1 DEF Apart, Meets
    <3> QED
      BY <3>1, <3>2
  <2>9. w.pc = "save" => Apart(w.folder, w.entry)'
    <3> SUFFICES ASSUME w.pc = "save" PROVE Apart(w.folder, w.entry)'
      OBVIOUS
    <3>1. Apart(w.folder, w.entry)
      BY DEF IInv, One
    <3>2. w.folder # f /\ Meets(w.entry, e) => w.entry.remote \in shared
      BY <1>1 DEF IInv, One
    <3> QED
      BY <1>1, <2>2, <3>1, <3>2 DEF Apart, Meets
  <2>10. One'
    BY <1>1, <2>8, <2>9, Values DEF One
  <2>11. Done'
    BY <1>1, <2>1, <2>2 DEF IInv, Done, Touch, Mapped, Managed, Active, ParentOf
  <2> QED
    BY <2>3, <2>4, <2>5, <2>6, <2>7, <2>10, <2>11 DEF IInv
<1> QED
    BY <1>2, <1>3

-----------------------------------------------------------------------------
(* The worker outside of the mirror.                                       *)

\* The worker begins, reads, prunes or ends, and writes no mapping.
LEMMA TurnKeeps ==
    ASSUME IInv, w' \in Memory, w'.entry = NoMapping,
           w'.pc \notin {"mirror", "save"},
           w'.pc # "idle" => w'.account \in Accounts,
           w'.pc \in {"prune", "unmap"} => w'.list \in [Folders -> FolderRow],
           w'.pc \in {"idle", "settings", "root"} => w'.done = IdleWorker.done,
           w'.pc = "unmap" => w'.folder \in Folders,
           \/ w'.pc = "idle"
           \/ w'.pc = "settings" /\ w'.account = setting.account
           \/ w.pc = "settings" /\ w'.tag = setting.account /\ w'.account = w.account
           \/ /\ w.pc \notin {"idle", "settings"} /\ w'.pc # "settings"
              /\ w'.tag = w.tag /\ w'.account = w.account,
           UNCHANGED <<folders, mappings, accounts, setting, crossed, shared>>,
           m' = m \/ m' = IdleMapper,
           \A x \in Remotes : Stays(x), remote' \in [Remotes -> RemoteFolder],
           torn \subseteq torn',
           w.pc = "save" /\ Managed(w.folder) /\ w.entry.remote = mappings[w.folder].remote
           /\ mappings[w.folder] # w.entry => w.entry.remote \in torn'
    PROVE  IInv'
<1>1. /\ remote \in [Remotes -> RemoteFolder] /\ mappings \in [Folders -> Mapping]
      /\ m \in MapperMemory /\ m' \in MapperMemory
    BY Values DEF IInv, Types, FoldersTypeOK
<1>2. \A f \in Folders : /\ Mapped(f)' = Mapped(f) /\ Managed(f)' = Managed(f)
                         /\ Managed(f) => Mapped(f)
                         /\ Mapped(f) => mappings[f].remote \in Remotes
    BY DEF Mapped, Managed, IInv, Types, Made
<1>3. Types'
  <2>1. ASSUME NEW f \in Folders, Mapped(f)' PROVE Made(mappings[f].remote)'
    BY <1>1, <1>2, <2>1, StaysMade DEF IInv, Types, Made
  <2> QED
    BY <1>1, <1>2, <2>1, Values DEF IInv, Types, FoldersTypeOK, Mapped, MapperMemory
<1>4. WorkerPlaced' /\ Progress' /\ Done'
    BY DEF WorkerPlaced, Progress, Done
<1>5. MapperPlaced'
    BY <1>1, StaysMade, Values DEF IInv, MapperPlaced, Made
<1>6. MappedForAccount'
    BY <1>1, <1>2, StaysMade DEF IInv, MappedForAccount, Mapped
<1>7. One'
    BY <1>2, Values DEF IInv, One, Apart
<1>8. OneTag'
    BY <1>2 DEF IInv, OneTag
<1>9. Labels'
  <2> SUFFICES ASSUME NEW f \in Folders, Managed(f) PROVE TrueOf(mappings[f])'
    BY <1>2 DEF Labels
  <2>1. TrueOf(mappings[f]) \/ mappings[f].remote \in torn'
    <3>1. CASE w.pc = "save" /\ w.folder = f /\ w.entry.remote = mappings[f].remote
      <4>1. w.entry = mappings[f] => TrueOf(mappings[f])
        BY <3>1 DEF IInv, Labels, Managed
      <4> QED
        BY <3>1, <4>1
    <3> QED
      BY <3>1 DEF IInv, Labels
  <2> QED
    BY <1>1, <1>2, <2>1, StaysMade DEF TrueOf
<1>10. Inner'
    BY <1>1, <1>2, StaysMade DEF IInv, Inner, Within
<1> QED
    BY <1>3, <1>4, <1>5, <1>6, <1>7, <1>8, <1>9, <1>10 DEF IInv

\* The worker ends before its time, whatever it was doing.
LEMMA StopKeeps ==
    ASSUME IInv, Stop, m' = m \/ m' = IdleMapper,
           UNCHANGED <<folders, mappings, accounts, setting, remote, crossed, shared>>
    PROVE  IInv'
<1>1. /\ w' = IdleWorker /\ torn \subseteq torn'
      /\ w.pc = "save" /\ Managed(w.folder) /\ w.entry.remote = mappings[w.folder].remote
         /\ mappings[w.folder] # w.entry => w.entry.remote \in torn'
    BY DEF Stop
<1> QED
    BY <1>1, Values, TurnKeeps DEF Stays, IInv, Types, FoldersTypeOK

\* The worker fails, dies or is done.
LEMMA EndsKeep == IInv /\ (SyncFails \/ Crash \/ SyncDone) => IInv'
<1> SUFFICES ASSUME IInv, SyncFails \/ Crash \/ SyncDone PROVE IInv'
    OBVIOUS
<1>1. CASE SyncFails
    BY <1>1, StopKeeps DEF SyncFails, WorkerOnly
<1>2. CASE Crash /\ Stop
    BY <1>2, StopKeeps DEF Crash
<1>3. CASE Crash /\ ~Stop
    BY <1>3, Values, MapperKeeps DEF Crash
<1>4. CASE SyncDone
    BY <1>4, Values, TurnKeeps
    DEF SyncDone, WorkerOnly, historyVars, Stays, IInv, Types, FoldersTypeOK
<1> QED
    BY <1>1, <1>2, <1>3, <1>4

\* The worker begins, reads the settings, or is done with the structure.
LEMMA BeginKeeps == IInv /\ (StartSync \/ ReadSettings \/ StructureDone) => IInv'
<1> SUFFICES ASSUME IInv, StartSync \/ ReadSettings \/ StructureDone PROVE IInv'
    OBVIOUS
<1>1. /\ w \in Memory /\ setting \in Setting
      /\ setting.account \in Accounts \cup {NoAccount}
      /\ setting.root \in Accounts \cup {NoAccount}
    BY DEF IInv, Types, FoldersTypeOK, Setting
<1>2. CASE StartSync
  <2>1. /\ w' \in Memory /\ w'.pc = "settings" /\ w'.account = setting.account
        /\ w'.account \in Accounts /\ w'.entry = NoMapping
    BY <1>1, <1>2, Values DEF StartSync, Memory, WorkerSteps, IdleWorker
  <2> QED
    BY <1>2, <2>1, TurnKeeps
    DEF StartSync, WorkerOnly, historyVars, Stays, IInv, Types, FoldersTypeOK
<1>3. CASE ReadSettings
  <2>1. /\ w' \in Memory /\ w.pc = "settings" /\ w'.pc = "root" /\ w'.account = w.account
        /\ w'.tag = setting.account /\ w'.entry = w.entry
    BY <1>1, <1>3 DEF ReadSettings, Memory, WorkerSteps
  <2> QED
    BY <1>3, <2>1, TurnKeeps
    DEF ReadSettings, WorkerOnly, historyVars, Stays, IInv, Types, FoldersTypeOK, WorkerPlaced
<1>4. CASE StructureDone
  <2>1. /\ w' \in Memory /\ w.pc = "mirror" /\ w'.pc = "prune" /\ w'.account = w.account
        /\ w'.tag = w.tag /\ w'.entry = w.entry /\ w'.list = w.list
    BY <1>1, <1>4, Values DEF StructureDone, Memory, WorkerSteps
  <2> QED
    BY <1>4, <2>1, TurnKeeps
    DEF StructureDone, WorkerOnly, Stays, IInv, Types, FoldersTypeOK, WorkerPlaced
<1> QED
    BY <1>2, <1>3, <1>4

\* The list of the folders is read.
LEMMA EnsureRootKeeps == IInv /\ EnsureRoot => IInv'
<1> SUFFICES ASSUME IInv, EnsureRoot PROVE IInv'
    OBVIOUS
<1>1. /\ w \in Memory /\ folders \in [Folders -> FolderRow] /\ w.pc = "root"
      /\ w.account \in Accounts /\ w.done = IdleWorker.done /\ w.entry = NoMapping
      /\ UNCHANGED <<folders, mappings, accounts, remote, m, shared, crossed, torn>>
      /\ moved' = {}
    BY DEF IInv, Types, FoldersTypeOK, FolderRow, EnsureRoot, WorkerOnly, WorkerPlaced
<1>2. setting' \in Setting /\ setting'.account = setting.account
    BY <1>1 DEF IInv, Types, Setting, EnsureRoot
<1>3. /\ w' \in Memory /\ w'.pc = "mirror" /\ w'.list = folders /\ w'.account = w.account
      /\ w'.tag = w.tag /\ w'.entry = NoMapping /\ w'.done = w.done
      /\ w'.todo = {f \in Folders : folders[f].status = "ACTIVE"}
    BY <1>1 DEF EnsureRoot, Memory, WorkerSteps, Lists
<1>4. DOMAIN w.done = {}
    BY <1>1 DEF IdleWorker
<1>5. Types'
    BY <1>1, <1>2, <1>3 DEF IInv, Types, FoldersTypeOK, Mapped, Made
<1>6. WorkerPlaced' /\ MapperPlaced'
    BY <1>1, <1>3 DEF IInv, WorkerPlaced, MapperPlaced, Made
<1>7. Progress' /\ Done'
    BY <1>1, <1>3, <1>4 DEF Progress, Done, Active
<1>8. MappedForAccount' /\ OneTag'
    BY <1>1, <1>2, <1>3 DEF IInv, MappedForAccount, OneTag, Managed
<1>9. One' /\ Labels' /\ Inner'
    BY <1>1, <1>3
    DEF IInv, One, Apart, Labels, TrueOf, Inner, Within, Mapped, Managed
<1> QED
    BY <1>5, <1>6, <1>7, <1>8, <1>9 DEF IInv

\* A deleted folder's remote folder is deleted, then its mapping.
LEMMA PruneKeeps == ASSUME NEW f \in Folders PROVE IInv /\ PruneFolder(f) => IInv'
<1> SUFFICES ASSUME IInv, PruneFolder(f) PROVE IInv'
    OBVIOUS
<1>1. /\ w \in Memory /\ w.pc = "prune" /\ w.account \in Accounts /\ w.entry = NoMapping
      /\ w.list \in [Folders -> FolderRow] /\ remote \in [Remotes -> RemoteFolder]
      /\ UNCHANGED <<folders, accounts, setting, m, shared, moved, torn>>
    BY DEF IInv, Types, FoldersTypeOK, WorkerPlaced, PruneFolder, WorkerOnly
<1>2. CASE w' = [w EXCEPT !.todo = @ \ {f}] /\ UNCHANGED <<mappings, crossed, remote>>
  <2>1. /\ w' \in Memory /\ w'.pc = "prune" /\ w'.account = w.account /\ w'.tag = w.tag
        /\ w'.entry = w.entry /\ w'.list = w.list
    BY <1>1, <1>2 DEF Memory
  <2> QED
    BY <1>1, <1>2, <2>1, TurnKeeps DEF Stays
<1>3. CASE w' = [w EXCEPT !.todo = @ \ {f}] /\ Clear(f) /\ remote' = remote
  <2>1. /\ w' \in Memory /\ w'.pc = "prune" /\ w'.account = w.account /\ w'.tag = w.tag
        /\ w'.entry = w.entry /\ w'.list = w.list
    BY <1>1, <1>3 DEF Memory
  <2> QED
    BY <1>1, <1>3, <2>1, ClearKeeps
<1>4. CASE /\ w' = [w EXCEPT !.pc = "unmap", !.folder = f] /\ UNCHANGED <<mappings, crossed>>
           /\ remote' = remote \/ \E r : remote' = Without(r)
  <2>1. /\ w' \in Memory /\ w'.pc = "unmap" /\ w'.account = w.account /\ w'.tag = w.tag
        /\ w'.entry = w.entry /\ w'.list = w.list /\ w'.folder = f
    BY <1>1, <1>4 DEF Memory, WorkerSteps
  <2>2. remote' \in [Remotes -> RemoteFolder] /\ \A x \in Remotes : Stays(x)
    BY <1>1, <1>4, WithoutStays DEF Stays, IInv
  <2> QED
    BY <1>1, <1>4, <2>1, <2>2, TurnKeeps
<1> QED
    BY <1>2, <1>3, <1>4 DEF PruneFolder

\* The mapping of a deleted folder goes.
LEMMA UnmapKeeps == IInv /\ Unmap => IInv'
<1> SUFFICES ASSUME IInv, Unmap PROVE IInv'
    OBVIOUS
<1>1. /\ w \in Memory /\ w.pc = "unmap" /\ w.folder \in Folders /\ w.entry = NoMapping
      /\ UNCHANGED <<folders, accounts, setting, remote, m, shared, moved, torn>>
    BY DEF IInv, Types, WorkerPlaced, Unmap, WorkerOnly
<1>2. /\ w' \in Memory /\ w'.pc = "prune" /\ w'.account = w.account /\ w'.tag = w.tag
      /\ w'.entry = w.entry /\ w'.list = w.list
    BY <1>1 DEF Unmap, Memory, WorkerSteps
<1> QED
    BY <1>1, <1>2, ClearKeeps DEF Unmap

-----------------------------------------------------------------------------
(* The mirror of one folder.                                               *)

\* A remote folder of this account stays there, and in a folder it was made in.
Lasts(r) == Made(r) => /\ Made(r)' /\ remote'[r].account = remote[r].account
                       /\ remote[r].parent # Elsewhere => remote'[r].parent # Elsewhere

\* The worker goes on to record e as the mapping of f.
LEMMA EnterKeeps ==
    ASSUME IInv, NEW f \in Folders, NEW e \in Mapping,
           w.pc = "mirror", f \in w.todo, Ready(f),
           w' = [w EXCEPT !.pc = "save", !.folder = f, !.entry = e],
           UNCHANGED <<folders, mappings, accounts, setting, m, crossed, moved, torn>>,
           shared \subseteq shared',
           remote' \in [Remotes -> RemoteFolder], \A x \in Remotes : Lasts(x),
           e.mode # "none", e.account = w.tag, Made(e.remote)',
           e.mode = "MANAGED" => /\ e.name = w.list[f].name /\ e.parent = ParentOf(f)
                                 /\ TrueOf(e)' /\ Within(e.remote)',
           \A g \in Folders \ {f} :
               Mapped(g) /\ Meets(mappings[g], e) => e.remote \in shared',
           m.pc = "save" /\ m.folder # f /\ Meets(e, m.entry) => e.remote \in shared',
           \A g \in Folders : Managed(g) => \/ TrueOf(mappings[g])'
                                            \/ g = f /\ e.remote = mappings[f].remote
    PROVE  IInv'
<1>1. /\ w \in Memory /\ w' \in Memory /\ w'.pc = "save" /\ w'.folder = f /\ w'.entry = e
      /\ w'.account = w.account /\ w'.tag = w.tag /\ w'.list = w.list /\ w'.done = w.done
      /\ w'.todo = w.todo
    BY DEF IInv, Types, Memory, WorkerSteps
<1>2. \A g \in Folders : /\ Mapped(g)' = Mapped(g) /\ Managed(g)' = Managed(g)
                         /\ Managed(g) => Mapped(g)
                         /\ Mapped(g) => Made(mappings[g].remote)
                                         /\ mappings[g].remote \in Remotes
    BY DEF Mapped, Managed, IInv, Types, Made
<1>3. ParentOf(f)' = ParentOf(f) /\ Ready(f)'
    BY <1>1 DEF ParentOf, Ready
<1>4. Types'
  <2>1. \A g \in Folders : Mapped(g)' => Made(mappings[g].remote)'
    BY <1>2 DEF Lasts
  <2>2. FoldersTypeOK'
    BY <1>1, <1>2 DEF IInv, Types, FoldersTypeOK, Mapped
  <2> QED
    BY <1>1, <2>1, <2>2 DEF IInv, Types
<1>5. WorkerPlaced'
    BY <1>1, <1>3 DEF IInv, WorkerPlaced
<1>6. MapperPlaced'
    BY DEF IInv, MapperPlaced, Lasts, Made
<1>7. Progress' /\ Done'
  <2>1. \A g \in Folders : ParentOf(g)' = ParentOf(g) /\ Ready(g)' = Ready(g)
    BY <1>1 DEF ParentOf, Ready
  <2>2. DOMAIN w.done \subseteq Folders
    BY <1>1 DEF Memory, Founds
  <2>3. Progress'
    BY <1>1, <2>1, <2>2 DEF IInv, Progress
  <2>4. Done'
    BY <1>1, <1>2, <2>1 DEF IInv, Done, Active
  <2> QED
    BY <2>3, <2>4
<1>8. MappedForAccount' /\ OneTag'
  <2>1. MappedForAccount'
    BY <1>2 DEF IInv, MappedForAccount, Mapped, Lasts
  <2>2. OneTag'
    BY <1>1, <1>2 DEF IInv, OneTag
  <2> QED
    BY <2>1, <2>2
<1>9. One'
  <2>1. ASSUME NEW g, NEW a, Apart(g, a) PROVE Apart(g, a)'
    BY <1>2, <2>1 DEF Apart
  <2>2. Apart(f, e)'
    BY <1>2 DEF Apart
  <2>3. \A g \in Folders : Mapped(g)' => Apart(g, mappings[g])'
    BY <1>2, <2>1 DEF IInv, One
  <2>4. m.pc = "save" => Apart(m.folder, m.entry)'
    BY <2>1 DEF IInv, One
  <2> QED
    BY <1>1, <2>2, <2>3, <2>4 DEF One
<1>10. Labels'
    BY <1>1, <1>2 DEF Labels
<1>11. Inner'
  <2>1. \A g \in Folders : Managed(g) => Within(mappings[g].remote)'
    BY <1>2 DEF IInv, Inner, Within, Lasts
  <2> QED
    BY <1>1, <1>2, <2>1 DEF Inner
<1> QED
    BY <1>4, <1>5, <1>6, <1>7, <1>8, <1>9, <1>10, <1>11 DEF IInv

\* Where a folder goes is the root or a folder the synchronization made or took over.
LEMMA Place ==
    ASSUME IInv, NEW f \in Folders, w.pc = "mirror", Ready(f)
    PROVE  /\ ParentOf(f) \in Remotes \cup Accounts /\ ParentOf(f) # Elsewhere
           /\ w.list[f].name \in Names /\ w.tag \in Accounts \cup {NoAccount}
           /\ w.account \in Accounts
<1>1. /\ w \in Memory /\ w.account \in Accounts /\ w.list \in [Folders -> FolderRow]
    BY DEF IInv, Types, WorkerPlaced
<1>2. w.list[f].name \in Names
    BY <1>1 DEF FolderRow
<1>3. CASE w.list[f].parent = Top
    BY <1>1, <1>2, <1>3, NullAssumption DEF ParentOf, Memory
<1>4. CASE w.list[f].parent # Top
  <2>1. w.list[f].parent \in DOMAIN w.done
    BY <1>4 DEF Ready
  <2>2. w.done[w.list[f].parent] \in Remotes
    BY <1>1, <2>1 DEF Memory, Founds
  <2> QED
    BY <1>1, <1>2, <1>4, <2>2, NullAssumption DEF ParentOf, Memory
<1> QED
    BY <1>3, <1>4

\* A mapping of the worker's account is kept, with the name and the place of the
\* folder or those the remote folder has.
LEMMA KeepKeeps ==
    ASSUME IInv, NEW f \in Folders, w.pc = "mirror", f \in w.todo, Ready(f),
           Mapped(f), mappings[f].account = w.tag, remote' = remote,
           NEW n, NEW p, Keep(f, mappings[f], n, p),
           UNCHANGED <<folders, mappings, accounts, setting, m, crossed>>,
           \/ /\ mappings[f].mode = "ADOPTED"
              /\ n = remote[mappings[f].remote].name /\ p = remote[mappings[f].remote].parent
           \/ /\ mappings[f].mode = "MANAGED"
              /\ n = mappings[f].name /\ p = mappings[f].parent
              /\ n = w.list[f].name /\ p = ParentOf(f)
    PROVE  IInv'
<1>1. /\ mappings[f] \in Mapping /\ remote \in [Remotes -> RemoteFolder]
      /\ Made(mappings[f].remote)
    BY DEF IInv, Types, FoldersTypeOK
<1>0. [mappings[f] EXCEPT !.name = n, !.parent = p] \in Mapping
    BY <1>1 DEF Mapping, RemoteFolder, Made
<1> PICK e \in Mapping : e = [mappings[f] EXCEPT !.name = n, !.parent = p]
    BY <1>0
<1>2. /\ e.mode = mappings[f].mode /\ e.remote = mappings[f].remote
      /\ e.account = mappings[f].account /\ e.name = n /\ e.parent = p
    BY <1>1 DEF Mapping
<1>3. /\ w' = [w EXCEPT !.pc = "save", !.folder = f, !.entry = e]
      /\ UNCHANGED <<shared, moved, torn>>
    BY DEF Keep
<1>4. Apart(f, mappings[f]) /\ (m.pc = "save" => Apart(m.folder, m.entry))
    BY DEF IInv, One
<1>5. \A g \in Folders : Managed(g) => TrueOf(mappings[g])
    BY DEF IInv, Labels
<1>6. e.mode = "MANAGED" => /\ e.name = w.list[f].name /\ e.parent = ParentOf(f)
                            /\ TrueOf(e)' /\ Within(e.remote)'
  <2> SUFFICES ASSUME e.mode = "MANAGED"
               PROVE  /\ e.name = w.list[f].name /\ e.parent = ParentOf(f)
                      /\ TrueOf(e)' /\ Within(e.remote)'
    OBVIOUS
  <2>1. Managed(f) /\ TrueOf(mappings[f]) /\ Within(mappings[f].remote)
    BY <1>2, <1>5 DEF IInv, Inner, Managed
  <2>2. /\ n = mappings[f].name /\ p = mappings[f].parent
        /\ n = w.list[f].name /\ p = ParentOf(f)
    BY <1>2
  <2>3. TrueOf(e)' /\ Within(e.remote)'
    BY <1>2, <1>3, <2>1, <2>2 DEF TrueOf, Within
  <2> QED
    BY <1>2, <2>2, <2>3
<1>7. \A g \in Folders \ {f} :
          Mapped(g) /\ Meets(mappings[g], e) => e.remote \in shared'
    BY <1>2, <1>3, <1>4 DEF Apart, Meets
<1>8. m.pc = "save" /\ m.folder # f /\ Meets(e, m.entry) => e.remote \in shared'
    BY <1>2, <1>3, <1>4 DEF Apart, Meets
<1>9. \A g \in Folders : Managed(g) => TrueOf(mappings[g])'
    BY <1>3, <1>5 DEF TrueOf
<1>10. Made(e.remote)' /\ \A x \in Remotes : Lasts(x)
    BY <1>1, <1>2 DEF Lasts, Made
<1> QED
    BY <1>1, <1>2, <1>3, <1>6, <1>7, <1>8, <1>9, <1>10, EnterKeeps DEF Mapped

\* The remote folder of another folder's managed mapping is shared when it is of the
\* worker's account, and nobody answers for its labels otherwise.
LEMMA OthersApart ==
    ASSUME IInv, NEW f \in Folders, NEW g \in Folders \ {f},
           w.pc = "mirror", Managed(f), Managed(g), mappings[f].account = w.tag,
           mappings[g].remote = mappings[f].remote,
           remote[mappings[f].remote].account = w.account
    PROVE  \/ mappings[f].remote \in shared
           \/ remote[mappings[g].remote].account # mappings[g].account
<1>1. CASE mappings[g].account = w.tag
  <2>1. Apart(f, mappings[f])
    BY DEF IInv, One, Managed, Mapped
  <2> QED
    BY <1>1, <2>1 DEF Apart, Meets, Managed, Mapped
<1>2. CASE mappings[g].account # w.tag
  <2>1. w.tag = w.account
    BY <1>2 DEF IInv, OneTag
  <2> QED
    BY <1>2, <2>1
<1> QED
    BY <1>1, <1>2

\* Both calls are made, and the mapping is to say so.
LEMMA FollowKeeps ==
    ASSUME IInv, NEW f \in Folders, w.pc = "mirror", f \in w.todo, Ready(f),
           Managed(f), mappings[f].account = w.tag,
           NEW n, n = w.list[f].name, NEW p, p = ParentOf(f),
           NEW r, r = mappings[f].remote, Found(w.account, r),
           remote' = [remote EXCEPT ![r].name = IF mappings[f].name = n THEN @ ELSE n,
                                    ![r].parent = IF mappings[f].parent = p THEN @ ELSE p],
           Keep(f, mappings[f], n, p),
           UNCHANGED <<folders, mappings, accounts, setting, m, crossed>>
    PROVE  IInv'
<1>1. /\ mappings[f] \in Mapping /\ remote \in [Remotes -> RemoteFolder]
      /\ Mapped(f) /\ r \in Remotes /\ Made(r) /\ remote[r].account = w.account
    BY DEF IInv, Types, FoldersTypeOK, Made, Managed, Mapped, Found
<1>2. n \in Names /\ p \in Remotes \cup Accounts /\ p # Elsewhere
    BY Place
<1>3. [mappings[f] EXCEPT !.name = n, !.parent = p] \in Mapping
    BY <1>1, <1>2 DEF Mapping
<1> PICK e \in Mapping : e = [mappings[f] EXCEPT !.name = n, !.parent = p]
    BY <1>3
<1>4. /\ e.mode = "MANAGED" /\ e.remote = r /\ e.account = w.tag /\ e.name = n /\ e.parent = p
    BY <1>1 DEF Mapping, Managed
<1>5. /\ w' = [w EXCEPT !.pc = "save", !.folder = f, !.entry = e]
      /\ UNCHANGED <<shared, moved, torn>>
    BY DEF Keep
<1>6. /\ remote' \in [Remotes -> RemoteFolder]
      /\ \A x \in Remotes \ {r} : remote'[x] = remote[x]
      /\ remote'[r].state = remote[r].state /\ remote'[r].account = remote[r].account
      /\ remote'[r].name = IF mappings[f].name = n THEN remote[r].name ELSE n
      /\ remote'[r].parent = IF mappings[f].parent = p THEN remote[r].parent ELSE p
    BY <1>1, <1>2, ZenonT(60) DEF RemoteFolder
<1>7. \A x \in Remotes : Lasts(x)
    BY <1>2, <1>6 DEF Lasts, Made
<1>8. Apart(f, mappings[f]) /\ (m.pc = "save" => Apart(m.folder, m.entry))
    BY <1>1 DEF IInv, One
<1>9. \A g \in Folders : Managed(g) => TrueOf(mappings[g])
    BY DEF IInv, Labels
<1>10. TrueOf(e)'
  <2>1. TrueOf(mappings[f])
    BY <1>9
  <2>2. remote[r].state = "live" /\ r \notin shared \cup torn /\ remote[r].account = w.tag
        => remote[r].name = mappings[f].name /\ remote[r].parent = mappings[f].parent
    BY <2>1 DEF TrueOf
  <2>3. remote'[r].state = "live" /\ r \notin shared' \cup torn'
        /\ remote'[r].account = w.tag
        => remote'[r].name = n /\ remote'[r].parent = p
    BY <1>5, <1>6, <2>2
  <2> QED
    BY <1>4, <2>3 DEF TrueOf
<1>11. Within(e.remote)'
  <2>1. r \in shared \/ remote[r].parent # Elsewhere
    BY DEF IInv, Inner, Within
  <2>2. r \in shared' \/ remote'[r].parent # Elsewhere
    BY <1>2, <1>5, <1>6, <2>1
  <2> QED
    BY <1>4, <2>2 DEF Within
<1>12. \A g \in Folders \ {f} :
          Mapped(g) /\ Meets(mappings[g], e) => e.remote \in shared'
    BY <1>4, <1>5, <1>8 DEF Apart, Meets
<1>13. m.pc = "save" /\ m.folder # f /\ Meets(e, m.entry) => e.remote \in shared'
    BY <1>1, <1>4, <1>5, <1>8 DEF Apart, Meets
<1>14. ASSUME NEW g \in Folders, Managed(g), g # f PROVE TrueOf(mappings[g])'
  <2>1. TrueOf(mappings[g]) /\ mappings[g].remote \in Remotes
    BY <1>9, <1>14 DEF IInv, Types, Made, Mapped, Managed
  <2>2. CASE mappings[g].remote = r
    <3>1. r \in shared \/ remote[r].account # mappings[g].account
      BY <1>1, <1>14, <2>2, OthersApart
    <3>2. r \in shared' \/ remote'[r].account # mappings[g].account
      BY <1>5, <1>6, <3>1
    <3> QED
      BY <2>2, <3>2 DEF TrueOf
  <2>3. CASE mappings[g].remote # r
    BY <1>5, <1>6, <2>1, <2>3 DEF TrueOf
  <2> QED
    BY <2>2, <2>3
<1>15. Made(e.remote)'
    BY <1>1, <1>4, <1>6 DEF Made
<1>16. \A g \in Folders : Managed(g) => \/ TrueOf(mappings[g])'
                                        \/ /\ g = f
                                           /\ e.remote = mappings[f].remote
    BY <1>4, <1>14
<1>17. e.name = w.list[f].name /\ e.parent = ParentOf(f) /\ e.mode # "none"
    BY <1>4
<1>18. remote' \in [Remotes -> RemoteFolder] /\ shared \subseteq shared'
    BY <1>5, <1>6
<1> QED
    BY <1>4, <1>5, <1>7, <1>10, <1>11, <1>12, <1>13, <1>15, <1>16, <1>17, <1>18, EnterKeeps

\* The folder gets its name and the worker ends before it gets its place.
LEMMA TornKeeps ==
    ASSUME IInv, NEW r \in Remotes, NEW n \in Names, w.pc = "mirror",
           remote' = [remote EXCEPT ![r].name = n], torn' = torn \cup {r}, w' = IdleWorker,
           UNCHANGED <<folders, mappings, accounts, setting, m, crossed, shared>>
    PROVE  IInv'
<1>1. /\ remote' \in [Remotes -> RemoteFolder]
      /\ \A x \in Remotes \ {r} : remote'[x] = remote[x]
      /\ \A x \in Remotes : /\ remote'[x].state = remote[x].state
                            /\ remote'[x].account = remote[x].account
                            /\ remote'[x].parent = remote[x].parent
    BY DEF IInv, Types, FoldersTypeOK, RemoteFolder
<1>2. \A g \in Folders : /\ Mapped(g)' = Mapped(g) /\ Managed(g)' = Managed(g)
                         /\ Managed(g) => Mapped(g)
                         /\ Mapped(g) => mappings[g].remote \in Remotes
    BY DEF Mapped, Managed, IInv, Types, Made
<1>3. Types'
    BY <1>1, <1>2, Values DEF IInv, Types, FoldersTypeOK, Mapped, Made
<1>4. WorkerPlaced' /\ Progress' /\ Done' /\ OneTag'
    BY Values DEF WorkerPlaced, Progress, Done, OneTag
<1>5. MapperPlaced'
    BY <1>1 DEF IInv, MapperPlaced, Made
<1>6. MappedForAccount'
    BY <1>1, <1>2 DEF IInv, MappedForAccount, Mapped
<1>7. One'
    BY <1>2, Values DEF IInv, One, Apart
<1>8. Labels'
  <2>1. ASSUME NEW g \in Folders, Managed(g) PROVE TrueOf(mappings[g])'
    <3>1. TrueOf(mappings[g])
      BY <2>1 DEF IInv, Labels
    <3> QED
      BY <1>1, <1>2, <2>1, <3>1 DEF TrueOf
  <2> QED
    BY <1>2, <2>1, Values DEF Labels
<1>9. Inner'
    BY <1>1, <1>2, Values DEF IInv, Inner, Within
<1> QED
    BY <1>3, <1>4, <1>5, <1>6, <1>7, <1>8, <1>9 DEF IInv

\* A folder of that name is there and is taken over, or a new one is made.
LEMMA EnsureKeeps ==
    ASSUME IInv, NEW f \in Folders, w.pc = "mirror", f \in w.todo, Ready(f),
           NEW n, n = w.list[f].name, NEW p, p = ParentOf(f),
           NEW r \in Remotes, NEW tag, tag = w.tag,
           w' = [w EXCEPT !.pc = "save", !.folder = f,
                          !.entry = [mode |-> "MANAGED", remote |-> r, account |-> tag,
                                     name |-> n, parent |-> p]],
           UNCHANGED <<folders, mappings, accounts, setting, m, crossed, moved, torn>>,
           \/ /\ remote' = remote /\ shared' = shared \cup {r} /\ remote[r].state = "live"
           \/ /\ remote[r].state = "none" /\ shared' = shared
              /\ remote' = [remote EXCEPT ![r] = [state |-> "live", account |-> w.account,
                                                  name |-> n, parent |-> p]]
    PROVE  IInv'
<1>1. /\ n \in Names /\ p \in Remotes \cup Accounts /\ p # Elsewhere
      /\ tag \in Accounts \cup {NoAccount} /\ w.account \in Accounts
    BY Place
<1>2. [mode |-> "MANAGED", remote |-> r, account |-> tag, name |-> n, parent |-> p] \in Mapping
    BY <1>1 DEF Mapping
<1> PICK e \in Mapping :
        e = [mode |-> "MANAGED", remote |-> r, account |-> tag, name |-> n, parent |-> p]
    BY <1>2
<1>3. /\ e.mode = "MANAGED" /\ e.remote = r /\ e.account = w.tag
      /\ e.name = n /\ e.parent = p
      /\ w' = [w EXCEPT !.pc = "save", !.folder = f, !.entry = e]
    OBVIOUS
<1>4. \A g \in Folders : /\ Managed(g) => Mapped(g)
                         /\ Mapped(g) => Made(mappings[g].remote)
    BY DEF Managed, Mapped, IInv, Types
<1>5. m.pc = "save" => Made(m.entry.remote)
    BY DEF IInv, MapperPlaced
<1>6. \A g \in Folders : Managed(g) => TrueOf(mappings[g])
    BY DEF IInv, Labels
<1>7. remote \in [Remotes -> RemoteFolder]
    BY DEF IInv, Types, FoldersTypeOK
<1>8. CASE remote' = remote /\ shared' = shared \cup {r} /\ remote[r].state = "live"
  <2>1. /\ Made(e.remote)' /\ r \in shared'
        /\ remote' \in [Remotes -> RemoteFolder] /\ \A x \in Remotes : Lasts(x)
    BY <1>3, <1>7, <1>8 DEF Made, Lasts
  <2>2. TrueOf(e)' /\ Within(e.remote)'
    BY <1>3, <2>1 DEF TrueOf, Within
  <2>3. \A g \in Folders : Managed(g) => TrueOf(mappings[g])'
    BY <1>6, <1>8 DEF TrueOf
  <2>4. e.name = w.list[f].name /\ e.parent = ParentOf(f) /\ e.mode # "none"
    BY <1>3
  <2> QED
    BY <1>3, <1>8, <2>1, <2>2, <2>3, <2>4, EnterKeeps
<1>9. CASE /\ remote[r].state = "none" /\ shared' = shared
           /\ remote' = [remote EXCEPT ![r] = [state |-> "live", account |-> w.account,
                                               name |-> n, parent |-> p]]
  <2>1. /\ remote' \in [Remotes -> RemoteFolder]
        /\ remote'[r] = [state |-> "live", account |-> w.account, name |-> n, parent |-> p]
        /\ \A x \in Remotes \ {r} : remote'[x] = remote[x]
    BY <1>1, <1>7, <1>9 DEF RemoteFolder
  <2>2. Made(e.remote)' /\ \A x \in Remotes : Lasts(x)
    BY <1>3, <1>9, <2>1 DEF Made, Lasts
  <2>3. TrueOf(e)' /\ Within(e.remote)'
    BY <1>1, <1>3, <2>1 DEF TrueOf, Within
  <2>4. ~Made(r)
    BY <1>9 DEF Made
  <2>5. ASSUME NEW g \in Folders, Managed(g) PROVE TrueOf(mappings[g])'
    <3>1. /\ mappings[g].remote # r /\ mappings[g].remote \in Remotes
          /\ TrueOf(mappings[g])
      BY <1>4, <1>6, <2>4, <2>5 DEF Made
    <3> QED
      BY <1>9, <2>1, <3>1 DEF TrueOf
  <2>6. \A g \in Folders \ {f} :
            Mapped(g) /\ Meets(mappings[g], e) => e.remote \in shared'
    BY <1>3, <1>4, <2>4 DEF Meets
  <2>7. m.pc = "save" /\ m.folder # f /\ Meets(e, m.entry) => e.remote \in shared'
    BY <1>3, <1>5, <2>4 DEF Meets
  <2>8. e.name = w.list[f].name /\ e.parent = ParentOf(f) /\ e.mode # "none"
    BY <1>3
  <2> QED
    BY <1>3, <1>9, <2>1, <2>2, <2>3, <2>5, <2>6, <2>7, <2>8, EnterKeeps
<1> QED
    BY <1>8, <1>9

\* One folder is mirrored, in whichever of the ways its mapping asks for.
LEMMA MirrorKeeps == ASSUME NEW f \in Folders PROVE IInv /\ MirrorFolder(f) => IInv'
<1> SUFFICES ASSUME IInv, MirrorFolder(f) PROVE IInv'
    OBVIOUS
<1>1. /\ w.pc = "mirror" /\ f \in w.todo /\ Ready(f)
      /\ UNCHANGED <<folders, mappings, accounts, setting, m, crossed>>
    BY DEF MirrorFolder, WorkerOnly
<1>2. MappingOf(f).mode # "none" => MappingOf(f) = mappings[f] /\ Mapped(f)
    BY Values DEF MappingOf, Mapped
<1>3. CASE GiveUp
    BY <1>1, <1>3, StopKeeps DEF GiveUp
<1>4. ASSUME NEW n, n = w.list[f].name, NEW p, p = ParentOf(f), Ensure(f, p) PROVE IInv'
  <2>1. CASE ~ParentFound(p) /\ GiveUp
    BY <1>3, <2>1
  <2>2. CASE ~(~ParentFound(p) /\ GiveUp)
    <3> PICK tag : tag = w.tag
      OBVIOUS
    <3> PICK r \in Remotes :
            /\ w' = [w EXCEPT !.pc = "save", !.folder = f,
                              !.entry = [mode |-> "MANAGED", remote |-> r, account |-> tag,
                                         name |-> n, parent |-> p]]
            /\ UNCHANGED <<moved, torn>>
            /\ \/ /\ remote' = remote /\ shared' = shared \cup {r} /\ remote[r].state = "live"
               \/ /\ remote[r].state = "none" /\ shared' = shared
                  /\ remote' = [remote EXCEPT ![r] =
                         [state |-> "live", account |-> w.account, name |-> n, parent |-> p]]
      BY <1>4, <2>2 DEF Ensure, Homonyms, NewRemote, Found
    <3> QED
      BY <1>1, <1>4, EnsureKeeps
  <2> QED
    BY <2>1, <2>2
<1>5. CASE /\ Mapped(f) /\ mappings[f].account = w.tag /\ mappings[f].mode = "ADOPTED"
           /\ Keep(f, mappings[f], remote[mappings[f].remote].name,
                   remote[mappings[f].remote].parent)
           /\ remote' = remote
  <2> PICK n, p : n = remote[mappings[f].remote].name /\ p = remote[mappings[f].remote].parent
    OBVIOUS
  <2>1. Keep(f, mappings[f], n, p)
    BY <1>5
  <2> QED
    BY <1>1, <1>5, <2>1, KeepKeeps
<1>6. CASE /\ Mapped(f) /\ mappings[f].account = w.tag /\ Managed(f)
           /\ mappings[f].name = w.list[f].name /\ mappings[f].parent = ParentOf(f)
           /\ Keep(f, mappings[f], mappings[f].name, ParentOf(f)) /\ remote' = remote
  <2> PICK n, p : n = mappings[f].name /\ p = mappings[f].parent
    OBVIOUS
  <2>1. Keep(f, mappings[f], n, p)
    BY <1>6
  <2> QED
    BY <1>1, <1>6, <2>1, KeepKeeps DEF Managed
<1>7. ASSUME Managed(f), mappings[f].account = w.tag, Found(w.account, mappings[f].remote),
             Follow(f, mappings[f], ParentOf(f))
      PROVE  IInv'
  <2> PICK n, p, r : n = w.list[f].name /\ p = ParentOf(f) /\ r = mappings[f].remote
    OBVIOUS
  <2>1. Follow(f, mappings[f], p) /\ Found(w.account, r)
    BY <1>7
  <2>2. n \in Names /\ r \in Remotes
    BY <1>1, <2>1, Place DEF Found
  <2>3. CASE /\ remote' = [remote EXCEPT
                       ![r].name = IF mappings[f].name = n THEN @ ELSE n,
                       ![r].parent = IF mappings[f].parent = p THEN @ ELSE p]
             /\ Keep(f, mappings[f], n, p)
    BY <1>1, <1>7, <2>1, <2>3, FollowKeeps
  <2>4. CASE /\ remote' = [remote EXCEPT ![r].name = n] /\ torn' = torn \cup {r}
             /\ w' = IdleWorker /\ shared' = shared
    BY <1>1, <2>2, <2>4, TornKeeps
  <2> QED
    BY <2>1, <2>3, <2>4 DEF Follow
<1> QED
    BY <1>1, <1>2, <1>3, <1>4, <1>5, <1>6, <1>7 DEF MirrorFolder, Managed, Mapped

-----------------------------------------------------------------------------
(* The mapping is recorded.                                                *)

\* Recording puts the folder among those done, and finds every parent where it was.
LEMMA RecordAdvances ==
    ASSUME IInv, SaveMapping, w.tag \in accounts, NEW f, f = w.folder, NEW e, e = w.entry
    PROVE  /\ f \in Folders /\ f \in w.todo /\ f \notin DOMAIN w.done /\ e \in Mapping
           /\ e.remote \in Remotes
           /\ w' \in Memory /\ w'.pc = "mirror" /\ w'.entry = NoMapping
           /\ w'.list = w.list /\ w'.account = w.account /\ w'.tag = w.tag
           /\ w'.todo = w.todo \ {f} /\ DOMAIN w'.done = DOMAIN w.done \cup {f}
           /\ \A g \in DOMAIN w.done \cup {f} : Ready(g) /\ Ready(g)' /\ ParentOf(g)' = ParentOf(g)
<1>1. /\ w \in Memory /\ e \in Mapping /\ f \in w.todo /\ Ready(f) /\ Made(e.remote)
      /\ w.pc = "save" /\ w.todo \cap DOMAIN w.done = {}
      /\ \A g \in DOMAIN w.done : Ready(g)
    BY DEF IInv, Types, FoldersTypeOK, WorkerPlaced, Progress, SaveMapping
<1>2. f \in Folders /\ f \notin DOMAIN w.done /\ e.remote \in Remotes
    BY <1>1 DEF Memory, Made
<1>3. [g \in DOMAIN w.done \cup {f} |-> IF g = f THEN e.remote ELSE w.done[g]] \in Founds
  <2>1. PICK S \in SUBSET Folders : w.done \in [S -> Remotes]
    BY <1>1 DEF Memory, Founds
  <2>2. S \cup {f} \in SUBSET Folders
    BY <1>2
  <2>3. [g \in DOMAIN w.done \cup {f} |-> IF g = f THEN e.remote ELSE w.done[g]]
        \in [S \cup {f} -> Remotes]
    BY <1>2, <2>1
  <2> QED
    BY <2>2, <2>3 DEF Founds
<1>4. w' = [w EXCEPT !.pc = "mirror", !.todo = @ \ {f},
               !.done = [g \in DOMAIN w.done \cup {f} |-> IF g = f THEN e.remote ELSE w.done[g]],
               !.folder = NoFolder, !.entry = NoMapping]
    BY DEF SaveMapping
<1>5. /\ w' \in Memory /\ w'.pc = "mirror" /\ w'.entry = NoMapping
      /\ w'.list = w.list /\ w'.account = w.account /\ w'.tag = w.tag
      /\ w'.todo = w.todo \ {f}
      /\ w'.done = [g \in DOMAIN w.done \cup {f} |-> IF g = f THEN e.remote ELSE w.done[g]]
    BY <1>1, <1>3, <1>4, Values DEF Memory, WorkerSteps
<1>6. DOMAIN w'.done = DOMAIN w.done \cup {f} /\ \A g \in DOMAIN w.done : w'.done[g] = w.done[g]
    BY <1>2, <1>5
<1>7. \A g \in DOMAIN w.done \cup {f} : Ready(g) /\ Ready(g)' /\ ParentOf(g)' = ParentOf(g)
    BY <1>1, <1>5, <1>6 DEF Ready, ParentOf
<1> QED
    BY <1>1, <1>2, <1>5, <1>6, <1>7

\* The mapping is written, unless its account is gone.
LEMMA SaveKeeps == IInv /\ SaveMapping => IInv'
<1> SUFFICES ASSUME IInv, SaveMapping PROVE IInv'
    OBVIOUS
<1>1. CASE w.tag \notin accounts
    BY <1>1, StopKeeps DEF SaveMapping, WorkerOnly
<1>2. CASE w.tag \in accounts
  <2> PICK f, e : f = w.folder /\ e = w.entry
    OBVIOUS
  <2>1. /\ f \in Folders /\ f \in w.todo /\ f \notin DOMAIN w.done /\ e \in Mapping
        /\ e.remote \in Remotes
        /\ w' \in Memory /\ w'.pc = "mirror" /\ w'.entry = NoMapping
        /\ w'.list = w.list /\ w'.account = w.account /\ w'.tag = w.tag
        /\ w'.todo = w.todo \ {f} /\ DOMAIN w'.done = DOMAIN w.done \cup {f}
        /\ \A g \in DOMAIN w.done \cup {f} : Ready(g) /\ Ready(g)' /\ ParentOf(g)' = ParentOf(g)
    BY <1>2, RecordAdvances
  <2>2. /\ UNCHANGED <<folders, accounts, m, setting, remote, shared, moved, torn>>
        /\ Upsert(f, e) /\ w.pc = "save"
    BY <1>2 DEF SaveMapping, WorkerOnly
  <2>3. /\ e.mode # "none" /\ e.account = w.tag /\ Made(e.remote)
        /\ e.mode = "MANAGED" => /\ e.name = w.list[f].name /\ e.parent = ParentOf(f)
                                 /\ TrueOf(e) /\ Within(e.remote)
        /\ Apart(f, e)
        /\ m.pc = "save" /\ m.folder # f /\ Meets(e, m.entry) => e.remote \in shared
    BY <2>2 DEF IInv, WorkerPlaced, Labels, Inner, One
  <2>4. /\ mappings'[f] = e /\ Mapped(f)' /\ (Managed(f)' <=> e.mode = "MANAGED")
        /\ \A g \in Folders \ {f} :
               /\ mappings'[g] = mappings[g] /\ Mapped(g)' = Mapped(g)
               /\ Managed(g)' = Managed(g)
        /\ mappings' \in [Folders -> Mapping]
        /\ \A g \in Folders \ {f} : g \in crossed' <=> g \in crossed
        /\ f \notin crossed' => /\ e.account = setting.account
                                /\ remote[e.remote].account = setting.account
    <3>1. mappings' = [mappings EXCEPT ![f] = e] /\ mappings \in [Folders -> Mapping]
      BY <2>2 DEF Upsert, IInv, Types, FoldersTypeOK
    <3>2. mappings'[f] = e /\ mappings' \in [Folders -> Mapping]
      BY <2>1, <3>1
    <3>3. \A g \in Folders \ {f} : mappings'[g] = mappings[g]
      BY <3>1
    <3>4. /\ \A g \in Folders \ {f} : g \in crossed' <=> g \in crossed
          /\ f \notin crossed' => /\ e.account = setting.account
                                  /\ remote[e.remote].account = setting.account
      BY <2>2 DEF Upsert
    <3> QED
      BY <2>3, <3>2, <3>3, <3>4 DEF Mapped, Managed
  <2>5. Types'
    <3>1. \A g \in Folders : Mapped(g)' => /\ mappings'[g].account \in accounts
                                            /\ Made(mappings[g].remote)'
      BY <1>2, <2>2, <2>3, <2>4 DEF IInv, Types, FoldersTypeOK, Mapped, Made
    <3>2. FoldersTypeOK'
      BY <2>1, <2>2, <2>4, <3>1, Values, NullAssumption
      DEF IInv, Types, FoldersTypeOK, Mapped, Made
    <3> QED
      BY <2>1, <2>2, <3>1, <3>2 DEF IInv, Types
  <2>6. WorkerPlaced' /\ MapperPlaced'
    BY <2>1, <2>2 DEF IInv, WorkerPlaced, MapperPlaced, Made
  <2>7. Progress'
    BY <2>1, <2>2 DEF IInv, Progress
  <2>8. MappedForAccount'
    BY <2>2, <2>4 DEF IInv, MappedForAccount, Mapped
  <2>9. One'
    <3>1. Apart(f, mappings[f])'
      BY <2>2, <2>3, <2>4 DEF Apart
    <3>2. ASSUME NEW g \in Folders \ {f}, Mapped(g)' PROVE Apart(g, mappings[g])'
      <4>1. Apart(g, mappings[g])
        BY <2>4, <3>2 DEF IInv, One
      <4> QED
        BY <2>2, <2>3, <2>4, <3>2, <4>1 DEF Apart, Meets
    <3>3. m.pc = "save" => Apart(m.folder, m.entry)'
      <4> SUFFICES ASSUME m.pc = "save" PROVE Apart(m.folder, m.entry)'
        OBVIOUS
      <4>1. Apart(m.folder, m.entry)
        BY DEF IInv, One
      <4> QED
        BY <2>2, <2>3, <2>4, <4>1 DEF Apart, Meets
    <3>4. m'.pc = "save" => Apart(m.folder, m.entry)'
      BY <2>2, <3>3
    <3> QED
      BY <2>1, <3>1, <3>2, <3>4 DEF One
  <2>10. OneTag'
    BY <2>1, <2>2, <2>3, <2>4 DEF IInv, OneTag
  <2>11. Labels'
    BY <2>1, <2>2, <2>3, <2>4 DEF IInv, Labels, TrueOf
  <2>12. Inner'
    BY <2>1, <2>2, <2>3, <2>4 DEF IInv, Inner, Within
  <2>13. Done'
    BY <2>1, <2>2, <2>3, <2>4 DEF IInv, Done, Active
  <2> QED
    BY <2>5, <2>6, <2>7, <2>8, <2>9, <2>10, <2>11, <2>12, <2>13 DEF IInv
<1> QED
    BY <1>1, <1>2

-----------------------------------------------------------------------------
(* The theorems.                                                           *)

\* Every step keeps the invariant.
LEMMA Inductive == IInv /\ [Next]_vars => IInv'
<1> SUFFICES ASSUME IInv, [Next]_vars PROVE IInv'
    OBVIOUS
<1>1. CASE Interface
  <2>1. CASE \E f \in Folders : RemoveMapping(f)
    BY <2>1, ClearKeeps DEF RemoveMapping
  <2> QED
    BY <1>1, <2>1, EditsKeep, SwitchKeeps, MapBeginKeeps DEF Interface
<1>2. CASE \E r \in Remotes : OwnerRemoves(r)
    BY <1>2, RemovalKeeps
<1>3. CASE Mapper
    BY <1>3, MapBeginKeeps, MapLookKeeps, MapSaveKeeps DEF Mapper
<1>4. CASE Worker
    BY <1>4, BeginKeeps, EndsKeep, EnsureRootKeeps, MirrorKeeps, PruneKeeps, SaveKeeps, UnmapKeeps
    DEF Worker
<1>5. CASE Crash
    BY <1>5, EndsKeep
<1>6. CASE UNCHANGED vars
    BY <1>6
    DEF vars, IInv, Types, FoldersTypeOK, Mapped, Made, WorkerPlaced, MapperPlaced, Progress,
        Ready, ParentOf, MappedForAccount, One, Apart, OneTag, Managed, Labels, TrueOf, Inner,
        Within, Done, Active
<1> QED
    BY <1>1, <1>2, <1>3, <1>4, <1>5, <1>6 DEF Next

\* The invariant holds always.
LEMMA Invariant == Spec => []IInv
  BY InitInv, Inductive, PTL DEF Spec

\* The mappings are sound: of one type, one folder and one account each
\* (CloudFolderMappingService and CloudSyncService.synchronize_structure).
THEOREM MappingsStaySound == Spec => []MappingsSound
<1>1. IInv => MappingsSound
  <2> SUFFICES ASSUME IInv PROVE MappingsSound
    OBVIOUS
  <2>1. FoldersTypeOK /\ MappedForAccount
    BY DEF IInv, Types
  <2>2. OneFolderEach
    <3> SUFFICES ASSUME NEW f \in Folders \ crossed, NEW g \in Folders \ crossed, f # g,
                        Mapped(f), Mapped(g), mappings[f].remote = mappings[g].remote
                 PROVE  mappings[f].remote \in shared
      BY DEF OneFolderEach, Mapped
    <3>1. mappings[f].account = setting.account /\ mappings[g].account = setting.account
      BY <2>1 DEF MappedForAccount, Mapped
    <3>2. Apart(f, mappings[f])
      BY DEF IInv, One
    <3> QED
      BY <3>1, <3>2 DEF Apart, Meets
  <2> QED
    BY <2>1, <2>2 DEF MappingsSound
<1> QED
  BY <1>1, Invariant, PTL

\* What deleting q touches is q, or lies in another remote folder.
LEMMA DeletedWithin ==
    ASSUME IInv, NEW q \in Remotes, remote' = Without(q), NEW x \in Remotes,
           Touched(x), x # q
    PROVE  remote[x].parent # Elsewhere
<1> DEFINE S == {q} \cup {y \in Remotes : remote[y].parent \in Remotes}
<1>1. x \in Inside(q)
    BY DEF Touched, Without
<1>2. S \in SUBSET Remotes /\ q \in S /\ \A y \in Remotes : remote[y].parent \in S => y \in S
    OBVIOUS
<1>3. x \in S
  <2> HIDE DEF S
  <2> QED
    BY <1>1, <1>2 DEF Inside
<1> QED
    BY <1>3, NullAssumption

\* A step of the worker touches no remote folder that the user has adopted.
LEMMA WorkerLeavesAdopted ==
    ASSUME IInv, Next, w' # w, NEW r \in Remotes, Adopted(r), Touched(r)
    PROVE  r \in shared \/ remote[r].parent # Elsewhere
<1>1. /\ remote \in [Remotes -> RemoteFolder] /\ Made(r)
      /\ \A f \in Folders : Managed(f) => /\ Within(mappings[f].remote)
                                          /\ mappings[f].remote \in Remotes
    BY DEF IInv, Types, FoldersTypeOK, Adopted, Mapped, Managed, Inner, Made
<1>2. remote' # remote
    BY DEF Touched
<1>3. PICK f \in Folders : MirrorFolder(f) \/ PruneFolder(f)
  <2>1. ~Interface /\ ~Mapper /\ ~Crash /\ ~(\E q \in Remotes : OwnerRemoves(q))
    BY <1>2
    DEF Interface, CreateFolder, RenameFolder, DeleteFolder, Edit, RemoveMapping, Configure,
        RemoveAccount, MapBegin, Mapper, MapRead, MapLook, MapSave, MapperOnly, Crash,
        OwnerRemoves
  <2>2. Worker
    BY <2>1 DEF Next
  <2> QED
    BY <1>2, <2>2
    DEF Worker, StartSync, SyncFails, ReadSettings, EnsureRoot, SaveMapping, StructureDone,
        Unmap, SyncDone
<1>4. MappingOf(f).mode = "MANAGED" => Managed(f) /\ MappingOf(f) = mappings[f]
    BY Values DEF MappingOf, Managed
<1>5. CASE PruneFolder(f)
  <2>1. Managed(f) /\ remote' = Without(mappings[f].remote)
    BY <1>2, <1>4, <1>5 DEF PruneFolder
  <2> PICK q \in Remotes : q = mappings[f].remote
    BY <1>1, <2>1
  <2>2. remote' = Without(q) /\ Within(q)
    BY <1>1, <2>1
  <2> QED
    BY <2>2, DeletedWithin DEF Within
<1>6. CASE MirrorFolder(f)
  <2>1. CASE Managed(f) /\ Follow(f, mappings[f], ParentOf(f))
    <3>1. remote'[r] # remote[r] => r = mappings[f].remote
      BY <1>1, <2>1 DEF Follow
    <3>2. remote'[r] # remote[r]
      BY DEF Touched
    <3> QED
      BY <1>1, <2>1, <3>1, <3>2 DEF Within
  <2>2. CASE Ensure(f, ParentOf(f))
    <3>1. PICK q \in Remotes : /\ remote[q].state = "none"
                               /\ \A x \in Remotes \ {q} : remote'[x] = remote[x]
      BY <1>1, <1>2, <2>2 DEF Ensure, NewRemote, GiveUp
    <3> QED
      BY <1>1, <3>1 DEF Made, Touched
  <2> QED
    BY <1>2, <1>4, <1>6, <2>1, <2>2 DEF MirrorFolder, GiveUp, Keep
<1> QED
    BY <1>3, <1>5, <1>6

\* When the structure is done, the folders done have their names and places.
LEMMA MirrorIsFaithful ==
    ASSUME IInv, w.pc = "mirror", w.todo = {},
           NEW f \in Folders \ (moved \cup crossed), Active(f)
    PROVE  /\ Mapped(f)
           /\ /\ Managed(f) /\ remote[mappings[f].remote].state = "live"
              /\ mappings[f].remote \notin shared \cup torn
              => /\ remote[mappings[f].remote].name = folders[f].name
                 /\ remote[mappings[f].remote].parent = ParentOf(f)
<1>1. folders[f] = w.list[f]
    BY DEF IInv, Done
<1>2. f \in DOMAIN w.done
    BY <1>1 DEF IInv, Progress, Active
<1>3. Mapped(f) /\ (Managed(f) => /\ mappings[f].name = w.list[f].name
                                  /\ mappings[f].parent = ParentOf(f))
    BY <1>2 DEF IInv, Done
<1>4. Managed(f) => TrueOf(mappings[f])
    BY DEF IInv, Labels
<1>5. remote[mappings[f].remote].account = mappings[f].account
    BY <1>3 DEF IInv, MappedForAccount, Mapped
<1> QED
    BY <1>1, <1>3, <1>4, <1>5 DEF TrueOf

\* Only the end of the structure leads from the mirror to the deletion of folders.
LEMMA StructureEnds ==
    ASSUME IInv, [Next]_vars, w.pc = "mirror", w'.pc = "prune"
    PROVE  w.todo = {}
<1>1. w' # w /\ w \in Memory
    BY DEF IInv, Types
<1>2. ~Interface /\ ~Mapper /\ ~Crash /\ ~(\E q \in Remotes : OwnerRemoves(q))
    BY <1>1, Values
    DEF Interface, CreateFolder, RenameFolder, DeleteFolder, Edit, RemoveMapping, Configure,
        RemoveAccount, MapBegin, Mapper, MapRead, MapLook, MapSave, MapperOnly, Crash, Stop,
        OwnerRemoves
<1>3. Worker
    BY <1>1, <1>2 DEF Next, vars
<1>4. ASSUME NEW f \in Folders, MirrorFolder(f) PROVE FALSE
    BY <1>1, <1>4, Values
    DEF MirrorFolder, GiveUp, Stop, Keep, Follow, Ensure, Memory
<1> QED
    BY <1>1, <1>3, <1>4, Values
    DEF Worker, StartSync, SyncFails, Stop, ReadSettings, EnsureRoot, PruneFolder, SaveMapping,
        StructureDone, Unmap, SyncDone

\* The synchronization leaves adopted folders alone, and gives every other folder
\* its name and its place (synchronize_structure, _ensure_mapped_folder).
THEOREM FoldersStayFaithful == Spec => FoldersFaithful
<1>1. IInv /\ [Next]_vars =>
          [w' # w => \A r \in Remotes :
               Adopted(r) /\ Touched(r) => r \in shared \/ remote[r].parent # Elsewhere]_vars
    BY WorkerLeavesAdopted
<1>2. IInv /\ [Next]_vars =>
          [w.pc = "mirror" /\ w'.pc = "prune" =>
              \A f \in Folders \ (moved \cup crossed) :
                  LET mapping == mappings[f]
                      r == mapping.remote
                      owned == /\ mapping.mode = "MANAGED"
                               /\ remote[r].state = "live"
                               /\ r \notin shared \cup torn
                  IN Active(f) => /\ mapping.mode # "none"
                                  /\ owned => /\ remote[r].name = folders[f].name
                                              /\ remote[r].parent = ParentOf(f)]_vars
    BY StructureEnds, MirrorIsFaithful DEF Mapped, Managed
<1> QED
    BY <1>1, <1>2, Invariant, PTL
    DEF FoldersFaithful, AdoptedIsLeftAlone, MirrorFaithful, Spec

-----------------------------------------------------------------------------
(* Multicloud: rows and workers                                            *)

Words == FileNames \cup {NoRoot}
Bytes == 0 .. 3
MountStatuses == {"none", "ACTIVE", "SCANNING", "ERROR"}
ActionStatuses == {"none", "PROPOSED", "AUTHORIZED", "RUNNING", "COMPLETED", "ERROR"}
PlanStatuses == {"none", "DRAFT", "AUTHORIZED", "RUNNING", "PARTIAL", "COMPLETED"}
Begun == {"next", "check", "copy", "record"}

Held == [root: Roots \cup {NoRoot}, name: Words, body: Bytes]
MountRow == [id: Nat, status: MountStatuses]
Node == [mid: Nat, name: Words, body: Bytes, status: {"none", "ACTIVE", "MISSING"}]
Listed == [item: Items, name: Words, body: Bytes]
Snapshot == [item: Items, node: Node]
Replica == [item: Items, path: Words, body: Bytes]
Action == [status: ActionStatuses, plan: Nat, path: Words]

Waiting == [pc: {"start"}, mid: Nat]
Listing == [pc: {"list", "save"}, mid: Nat, root: Roots, unseen: SUBSET Items,
            found: SUBSET Listed]
Grouping == [pc: {"read", "rebuild", "end"}, mid: Nat, root: Roots,
             unseen: SUBSET Items, found: SUBSET Snapshot]
ScanRow == {Idle} \cup Waiting \cup Listing \cup Grouping

Building == [pc: {"building"}, plan: Plans, objects: SUBSET Words]
Asking == [pc: {"asking"}, plan: Plans]
Chosen == [pc: {"start"}, plan: Plans]
Running == [pc: Begun, plan: Plans, failed: BOOLEAN, key: Keys \cup {NoKey},
            size: Bytes, todo: SUBSET Keys]

RowsTyped ==
  /\ held \in [Items -> Held]
  /\ mount \in [Roots -> MountRow] /\ mounts \in Nat
  /\ catalog \in [Items -> Node]
  /\ logical \in SUBSET Replica
  /\ actions \in [Keys -> Action]
  /\ plans \in [Plans -> PlanStatuses]
  /\ made \in [Keys -> Nat]
  /\ alone \in SUBSET Roots

WorkersTyped ==
  /\ screen \in {Idle} \cup Building \cup Asking
  /\ scan \in [Scanners -> ScanRow]
  /\ runner \in {Idle} \cup Chosen \cup Running

\* A mount has a number of its own, and a scan the number of its mount.
MountsApart ==
  /\ \A r \in Roots :
       \/ mount[r] = NotMounted
       \/ mount[r].id \in 1 .. mounts /\ mount[r].status # "none"
  /\ \A r, s \in Roots : mount[r].id = mount[s].id /\ mount[r].id # 0 => r = s
  /\ \A v \in Scanners : scan[v].pc # "idle" => scan[v].mid \in 1 .. mounts
  /\ \A v \in Scanners, r \in Roots :
       ScanningIn(v) /\ mount[r].id = scan[v].mid => scan[v].root = r
  /\ alone \subseteq Mounted

\* Rows of the catalogue have their mount, logical ones a row.
RowsMounted ==
  /\ \A i \in Items :
       \/ catalog[i] = NoNode
       \/ /\ catalog[i].mid \in 1 .. mounts /\ IsMounted(catalog[i].mid)
          /\ catalog[i].status # "none"
  /\ \A l \in logical : catalog[l.item] # NoNode
  /\ \A v \in Scanners : scan[v].pc = "rebuild" =>
       \A f \in scan[v].found : f.node.mid \in 1 .. mounts

\* What becomes of an action is what becomes of its plan.
PlansOrdered ==
  /\ \A k \in Keys : actions[k] # NoAction =>
       /\ actions[k].plan \in Plans /\ actions[k].status # "none"
       /\ \E l \in logical : l.item = k[1]
       /\ k[2] \in Mounted
       /\ plans[actions[k].plan] # "none"
       /\ plans[actions[k].plan] = "DRAFT" => actions[k].status = "PROPOSED"
       /\ plans[actions[k].plan] = "AUTHORIZED" => actions[k].status = "AUTHORIZED"
       /\ plans[actions[k].plan] = "COMPLETED" => actions[k].status = "COMPLETED"
  /\ screen # Idle => runner = Idle /\ plans[screen.plan] = "DRAFT"
  /\ runner.pc = "start" => plans[runner.plan] = "AUTHORIZED"
  /\ runner.pc \in Begun => plans[runner.plan] = "RUNNING"

\* What the plan worker has still to do has not been begun, and what it does is
\* its own.
RunOrdered ==
  runner.pc \in Begun =>
    /\ \A k \in runner.todo :
         actions[k].plan = runner.plan /\ actions[k].status = "AUTHORIZED"
    /\ runner.pc # "next" =>
         /\ runner.key \in Keys /\ actions[runner.key].plan = runner.plan
         /\ actions[runner.key].status = "RUNNING"
         /\ made[runner.key] = IF runner.pc = "record" THEN 1 ELSE 0
    /\ ~runner.failed =>
         \A k \in Keys : actions[k].plan = runner.plan =>
           \/ actions[k].status = "COMPLETED"
           \/ k \in runner.todo
           \/ runner.pc # "next" /\ k = runner.key

CopiesOnce ==
  \A k \in Keys :
    /\ made[k] <= 1
    /\ made[k] > 0 =>
         /\ actions[k].status \in {"RUNNING", "COMPLETED", "ERROR"}
         /\ plans[actions[k].plan] \in {"RUNNING", "PARTIAL", "COMPLETED"}
    /\ actions[k].status = "COMPLETED" => made[k] > 0

CloudInv ==
  /\ RowsTyped /\ WorkersTyped
  /\ MountsApart /\ RowsMounted
  /\ PlansOrdered /\ RunOrdered /\ CopiesOnce

-----------------------------------------------------------------------------
(* Statements and steps of the workers                                     *)

LEMMA ScanKinds ==
  ASSUME WorkersTyped, NEW v \in Scanners
  PROVE  /\ scan[v] \in ScanRow
         /\ scan[v].pc = "idle" => scan[v] = Idle
         /\ scan[v].pc = "start" => scan[v] \in Waiting
         /\ scan[v].pc \in {"list", "save"} => scan[v] \in Listing
         /\ scan[v].pc \in {"read", "rebuild", "end"} => scan[v] \in Grouping
         /\ scan[v].pc \in {"idle", "start", "list", "save", "read", "rebuild", "end"}
<1>1. scan[v] \in ScanRow
  BY DEF WorkersTyped
<1> DEFINE s == scan[v]
<1> HIDE DEF s
<1>2. s \in ScanRow
  BY <1>1 DEF s
<1>3. /\ s.pc = "idle" => s = Idle
      /\ s.pc = "start" => s \in Waiting
      /\ s.pc \in {"list", "save"} => s \in Listing
      /\ s.pc \in {"read", "rebuild", "end"} => s \in Grouping
      /\ s.pc \in {"idle", "start", "list", "save", "read", "rebuild", "end"}
  BY <1>2 DEF ScanRow, Idle, Waiting, Listing, Grouping
<1> QED
  BY <1>1, <1>3 DEF s

LEMMA RunnerKinds ==
  ASSUME WorkersTyped
  PROVE  /\ runner.pc = "idle" => runner = Idle
         /\ runner.pc = "start" => runner \in Chosen
         /\ runner.pc \in Begun => runner \in Running
         /\ runner = Idle => runner.pc = "idle"
         /\ runner.pc \in {"idle", "start"} \cup Begun
  BY DEF WorkersTyped, Idle, Chosen, Running, Begun

LEMMA ScreenKinds ==
  ASSUME WorkersTyped
  PROVE  /\ screen.pc = "building" => screen \in Building
         /\ screen.pc = "asking" => screen \in Asking
         /\ screen = Idle <=> screen.pc = "idle"
         /\ screen.pc \in {"idle", "building", "asking"}
  BY DEF WorkersTyped, Idle, Building, Asking

LEMMA StatusSet ==
  ASSUME mount \in [Roots -> MountRow], NEW mid, NEW status \in MountStatuses,
         SetStatus(mid, status)
  PROVE  /\ mount' \in [Roots -> MountRow]
         /\ \A r \in Roots :
              /\ mount'[r].id = mount[r].id
              /\ mount'[r].status = IF mount[r].id = mid THEN status
                                    ELSE mount[r].status
              /\ mount[r].id # mid => mount'[r] = mount[r]
<1>1. ASSUME NEW row \in MountRow
      PROVE  /\ [row EXCEPT !.status = status] \in MountRow
             /\ [row EXCEPT !.status = status].id = row.id
             /\ [row EXCEPT !.status = status].status = status
  BY DEF MountRow
<1>2. mount' = [r \in Roots |-> IF mount[r].id = mid
                                 THEN [mount[r] EXCEPT !.status = status]
                                 ELSE mount[r]]
  BY DEF SetStatus
<1> QED
  BY <1>1, <1>2

LEMMA ActionsSet ==
  ASSUME actions \in [Keys -> Action], NEW S, NEW status \in ActionStatuses,
         SetActions(S, status)
  PROVE  /\ actions' \in [Keys -> Action]
         /\ \A k \in Keys :
              /\ actions'[k].plan = actions[k].plan
              /\ actions'[k].status = IF k \in S THEN status ELSE actions[k].status
              /\ k \notin S => actions'[k] = actions[k]
<1>1. ASSUME NEW a \in Action
      PROVE  /\ [a EXCEPT !.status = status] \in Action
             /\ [a EXCEPT !.status = status].plan = a.plan
             /\ [a EXCEPT !.status = status].status = status
  BY DEF Action
<1>2. actions' = [k \in Keys |-> IF k \in S THEN [actions[k] EXCEPT !.status = status]
                                 ELSE actions[k]]
  BY DEF SetActions
<1> QED
  BY <1>1, <1>2

LEMMA ListingGoes ==
  ASSUME NEW s \in Listing, NEW F \in SUBSET Listed, NEW t,
         t = [s EXCEPT !.pc = "save", !.found = F]
  PROVE  /\ t \in Listing /\ t.pc = "save" /\ t.mid = s.mid /\ t.root = s.root
         /\ t.unseen = s.unseen /\ t.found = F
  BY DEF Listing

LEMMA ListingSaves ==
  ASSUME NEW s \in Listing, NEW f, NEW i, NEW t,
         t = [s EXCEPT !.found = @ \ {f}, !.unseen = @ \ {i}]
  PROVE  /\ t \in Listing /\ t.pc = s.pc /\ t.mid = s.mid /\ t.root = s.root
         /\ t.unseen = s.unseen \ {i} /\ t.found = s.found \ {f}
  BY DEF Listing

\* What another scan of the same mount makes of a scan.
LEMMA SeenElsewhere ==
  ASSUME NEW s \in Listing \cup Grouping, NEW i, NEW t,
         t = [s EXCEPT !.unseen = @ \ {i}]
  PROVE  /\ t \in Listing \cup Grouping /\ t.pc = s.pc /\ t.mid = s.mid
         /\ t.root = s.root /\ t.found = s.found
         /\ s \in Listing => t \in Listing
         /\ s \in Grouping => t \in Grouping
<1>1. CASE s \in Listing
  BY <1>1 DEF Listing, Grouping
<1>2. CASE s \in Grouping
  BY <1>2 DEF Listing, Grouping
<1> QED
  BY <1>1, <1>2

LEMMA ListingMarked ==
  ASSUME NEW s \in Listing, s.found = {}, NEW t, t = [s EXCEPT !.pc = "read"]
  PROVE  /\ t \in Grouping /\ t.pc = "read" /\ t.mid = s.mid /\ t.root = s.root
         /\ t.found = {}
  BY DEF Listing, Grouping

LEMMA GroupingReads ==
  ASSUME NEW s \in Grouping, NEW F \in SUBSET Snapshot, NEW pc \in {"rebuild", "end"},
         NEW t, t = [s EXCEPT !.pc = pc, !.found = F]
  PROVE  /\ t \in Grouping /\ t.pc = pc /\ t.mid = s.mid /\ t.root = s.root
         /\ t.found = F
  BY DEF Grouping

LEMMA RunnerTakes ==
  ASSUME NEW s \in Running, NEW k \in Keys, NEW t,
         t = [s EXCEPT !.pc = "check", !.todo = @ \ {k}, !.key = k]
  PROVE  /\ t \in Running /\ t.pc = "check" /\ t.plan = s.plan
         /\ t.failed = s.failed /\ t.key = k /\ t.todo = s.todo \ {k}
  BY DEF Running, Begun

LEMMA RunnerChecks ==
  ASSUME NEW s \in Running, NEW n \in Bytes, NEW t,
         t = [s EXCEPT !.pc = "copy", !.size = n]
  PROVE  /\ t \in Running /\ t.pc = "copy" /\ t.plan = s.plan
         /\ t.failed = s.failed /\ t.key = s.key /\ t.todo = s.todo
  BY DEF Running, Begun

LEMMA RunnerUploads ==
  ASSUME NEW s \in Running, NEW t, t = [s EXCEPT !.pc = "record"]
  PROVE  /\ t \in Running /\ t.pc = "record" /\ t.plan = s.plan
         /\ t.failed = s.failed /\ t.key = s.key /\ t.todo = s.todo
  BY DEF Running, Begun

LEMMA RunnerResumes ==
  ASSUME WorkersTyped, runner.pc \in Begun, NEW failed \in BOOLEAN
  PROVE  /\ Resume(failed) \in Running /\ Resume(failed).pc = "next"
         /\ Resume(failed).plan = runner.plan
         /\ Resume(failed).failed = failed /\ Resume(failed).todo = runner.todo
<1>1. runner \in Running
  BY RunnerKinds
<1>2. 0 \in Bytes /\ "next" \in Begun
  BY DEF Bytes, Begun
<1> QED
  BY <1>1, <1>2 DEF Running, Resume

\* Of numbers there is a smallest.
LEMMA SmallestChosen ==
  ASSUME NEW S \in SUBSET Nat, S # {}
  PROVE  SmallestOf(S) \in S /\ \A y \in S : SmallestOf(S) <= y
<1> DEFINE Less == OpToRel(<, Nat)
<1>1. \A x, y \in Nat : x < y => <<x, y>> \in Less
  BY DEF OpToRel
<1>2. IsWellFoundedOn(Less, Nat)
  BY NatLessThanWellFounded
<1> HIDE DEF Less
<1>3. \E x \in S : \A y \in S : ~(<<y, x>> \in Less)
  BY <1>2, WFMin
<1>4. \E x \in S : \A y \in S : x <= y
  <2>1. PICK x \in S : \A y \in S : ~(<<y, x>> \in Less)
    BY <1>3
  <2>2. \A y \in S : ~(y < x)
    BY <1>1, <2>1
  <2>3. \A y \in S : x <= y
    BY <2>2
  <2> QED
    BY <2>3
<1> QED
  BY <1>4 DEF SmallestOf

\* Among the replicas of a path there is one that is copied.
LEMMA SourceIsReplica ==
  ASSUME RowsTyped, NEW path, Replicas(path) # {}
  PROVE  SourceOf(path) \in logical /\ SourceOf(path).item \in Items
<1> DEFINE R == Replicas(path)
           mids == {catalog[l.item].mid : l \in R}
           least == SmallestOf(mids)
           firsts == {l \in R : catalog[l.item].mid = least}
           items == {l.item : l \in firsts}
           i == SmallestOf(items)
<1>1. /\ R \subseteq logical
      /\ \A l \in R : l.item \in Items /\ l.item \in Nat
                      /\ catalog[l.item].mid \in Nat
  BY DEF Replicas, RowsTyped, Replica, Node, Items
<1>2. mids \in SUBSET Nat /\ mids # {}
  BY <1>1
<1>3. least \in mids /\ \A y \in mids : least <= y
  BY <1>2, SmallestChosen
<1> HIDE DEF least
<1>4. items \in SUBSET Nat /\ items # {}
  BY <1>1, <1>3
<1>5. i \in items /\ \A y \in items : i <= y
  BY <1>4, SmallestChosen
<1> HIDE DEF i
<1>6. PICK l \in firsts : l.item = i
  BY <1>5
<1> HIDE DEF R
<1>7. \A k \in R : \/ catalog[l.item].mid < catalog[k.item].mid
                   \/ /\ catalog[l.item].mid = catalog[k.item].mid
                      /\ l.item <= k.item
  <2> TAKE k \in R
  <2>1. l \in R /\ catalog[l.item].mid = least /\ l.item = i
    BY <1>6
  <2>2. least <= catalog[k.item].mid /\ least \in Nat /\ catalog[k.item].mid \in Nat
    BY <1>1, <1>3, <2>1
  <2>3. CASE catalog[k.item].mid = least
    <3>1. k.item \in items
      BY <2>3
    <3> QED
      BY <1>5, <2>1, <2>3, <3>1
  <2>4. CASE catalog[k.item].mid # least
    BY <2>1, <2>2, <2>4
  <2> QED
    BY <2>3, <2>4
<1>8. l \in R
  BY <1>6
<1>9. SourceOf(path) \in R
  BY <1>7, <1>8 DEF SourceOf, R
<1> QED
  BY <1>1, <1>9

-----------------------------------------------------------------------------
(* Steps that leave plans and copies alone                                 *)

LEMMA PlansStand ==
  ASSUME CloudInv, UNCHANGED <<actions, plans, runner, made>>,
         \A k \in Keys : actions[k] # NoAction =>
           (\E l \in logical' : l.item = k[1]) /\ k[2] \in Mounted',
         screen' = Idle \/ (screen # Idle /\ screen'.plan = screen.plan)
  PROVE  PlansOrdered' /\ RunOrdered' /\ CopiesOnce'
<1>1. PlansOrdered /\ RunOrdered /\ CopiesOnce
  BY DEF CloudInv
<1>2. PlansOrdered'
  <2>1. screen' # Idle => runner' = Idle /\ plans'[screen'.plan] = "DRAFT"
    BY <1>1 DEF PlansOrdered
  <2>2. \A k \in Keys : actions'[k] # NoAction =>
          /\ actions'[k].plan \in Plans /\ actions'[k].status # "none"
          /\ \E l \in logical' : l.item = k[1]
          /\ k[2] \in Mounted'
          /\ plans'[actions'[k].plan] # "none"
          /\ plans'[actions'[k].plan] = "DRAFT" => actions'[k].status = "PROPOSED"
          /\ plans'[actions'[k].plan] = "AUTHORIZED" => actions'[k].status = "AUTHORIZED"
          /\ plans'[actions'[k].plan] = "COMPLETED" => actions'[k].status = "COMPLETED"
    BY <1>1 DEF PlansOrdered
  <2> QED
    BY <1>1, <2>1, <2>2 DEF PlansOrdered
<1>3. RunOrdered' /\ CopiesOnce'
  BY <1>1 DEF RunOrdered, CopiesOnce
<1> QED
  BY <1>2, <1>3

\* The same when only the workers and the status of a mount change.
LEMMA StatusStands ==
  ASSUME CloudInv, UNCHANGED <<actions, plans, runner, made, logical, screen>>,
         \A r \in Roots : mount'[r].id = mount[r].id
  PROVE  PlansOrdered' /\ RunOrdered' /\ CopiesOnce'
<1>1. Mounted' = Mounted
  BY DEF Mounted
<1>2. \A k \in Keys : actions[k] # NoAction =>
        (\E l \in logical' : l.item = k[1]) /\ k[2] \in Mounted'
  BY <1>1 DEF CloudInv, PlansOrdered
<1> QED
  BY <1>2, PlansStand

\* The tables of mounts and rows when only the clouds and the plans change.
LEMMA TablesStand ==
  ASSUME CloudInv, UNCHANGED <<mount, mounts, catalog, logical, scan>>,
         alone' \subseteq alone
  PROVE  MountsApart' /\ RowsMounted'
<1>1. MountsApart /\ RowsMounted
  BY DEF CloudInv
<1>2. MountsApart'
  BY <1>1 DEF MountsApart, ScanningIn, Mounted
<1>3. RowsMounted'
  BY <1>1 DEF RowsMounted, IsMounted
<1> QED
  BY <1>2, <1>3

\* Rows of mounts when a status changes and a scan goes on or ends.
LEMMA ScanGoesOn ==
  ASSUME CloudInv, NEW v \in Scanners, NEW s, scan' = [scan EXCEPT ![v] = s],
         UNCHANGED <<mounts, alone>>,
         \A r \in Roots : mount'[r] = mount[r] \/
           /\ mount'[r].id = mount[r].id /\ mount[r] # NotMounted
           /\ mount'[r].status # "none",
         s = Idle \/
           /\ scan[v].pc # "idle" /\ s.mid = scan[v].mid
           /\ s.pc \notin {"idle", "start"} =>
                ScanningIn(v) /\ s.root = scan[v].root
  PROVE  MountsApart'
<1>1. scan \in [Scanners -> ScanRow] /\ MountsApart
  BY DEF CloudInv, WorkersTyped
<1>2. \A u \in Scanners : scan'[u] = IF u = v THEN s ELSE scan[u]
  BY <1>1
<1>3. \A r \in Roots : mount'[r].id = mount[r].id
  OBVIOUS
<1>4. \A u \in Scanners : scan'[u].pc # "idle" => scan'[u].mid \in 1 .. mounts
  BY <1>1, <1>2 DEF MountsApart, Idle
<1>5. \A u \in Scanners, r \in Roots :
        ScanningIn(u)' /\ mount[r].id = scan'[u].mid => scan'[u].root = r
  <2> SUFFICES ASSUME NEW u \in Scanners, NEW r \in Roots,
                      scan'[u].pc \notin {"idle", "start"},
                      mount[r].id = scan'[u].mid
               PROVE  scan'[u].root = r
    BY DEF ScanningIn
  <2>1. CASE u # v
    BY <1>1, <1>2, <2>1 DEF MountsApart, ScanningIn
  <2>2. CASE u = v
    <3>1. s.pc # "idle" /\ scan'[u] = s
      BY <1>2, <2>2
    <3>2. s # Idle
      BY <3>1 DEF Idle
    <3> QED
      BY <1>1, <2>2, <3>1, <3>2 DEF MountsApart
  <2> QED
    BY <2>1, <2>2
<1>6. \A r \in Roots :
       \/ mount'[r] = NotMounted
       \/ mount'[r].id \in 1 .. mounts /\ mount'[r].status # "none"
  BY <1>1 DEF MountsApart
<1>7. alone' \subseteq Mounted'
  BY <1>1, <1>3 DEF MountsApart, Mounted
<1>8. \A r, s2 \in Roots : mount'[r].id = mount'[s2].id /\ mount'[r].id # 0 => r = s2
  BY <1>1, <1>3 DEF MountsApart
<1> QED
  BY <1>3, <1>4, <1>5, <1>6, <1>7, <1>8 DEF MountsApart

LEMMA WorkersGoOn ==
  ASSUME WorkersTyped, NEW v \in Scanners, NEW s \in ScanRow,
         scan' = [scan EXCEPT ![v] = s], UNCHANGED <<screen, runner>>
  PROVE  WorkersTyped'
  BY DEF WorkersTyped

\* A scan ends, and its mount has the status of that end.
LEMMA ScanStops ==
  ASSUME CloudInv, NEW v \in Scanners, ScanningIn(v),
         NEW status \in {"ACTIVE", "ERROR"}, SetStatus(scan[v].mid, status), Ends(v),
         UNCHANGED <<clouds, mounts, catalog, logical, actions, plans, screen, runner>>,
         Quiet
  PROVE  CloudInv'
<1>1. /\ scan' = [scan EXCEPT ![v] = Idle]
      /\ UNCHANGED <<held, made, mounts, catalog, logical, actions, plans, screen,
                     runner, alone>>
  BY DEF Ends, clouds, Quiet
<1>2. RowsTyped /\ WorkersTyped /\ MountsApart /\ RowsMounted
  BY DEF CloudInv
<1>3. /\ mount' \in [Roots -> MountRow]
      /\ \A r \in Roots :
           /\ mount'[r].id = mount[r].id
           /\ mount'[r].status = IF mount[r].id = scan[v].mid THEN status
                                 ELSE mount[r].status
           /\ mount[r].id # scan[v].mid => mount'[r] = mount[r]
  BY <1>1, <1>2, StatusSet DEF RowsTyped, MountStatuses
<1>4. scan[v].mid \in 1 .. mounts
  BY <1>2 DEF MountsApart, ScanningIn
<1>5. \A r \in Roots : mount'[r] = mount[r] \/
           /\ mount'[r].id = mount[r].id /\ mount[r] # NotMounted
           /\ mount'[r].status # "none"
  BY <1>3, <1>4 DEF NotMounted
<1>6. MountsApart'
  BY <1>1, <1>5, ScanGoesOn
<1>7. RowsMounted'
  <2>1. \A i \in Items : IsMounted(catalog[i].mid)' <=> IsMounted(catalog[i].mid)
    BY <1>1, <1>3 DEF IsMounted
  <2>2. \A u \in Scanners : scan'[u].pc = "rebuild" => scan'[u] = scan[u]
    BY <1>1, <1>2 DEF WorkersTyped, Idle
  <2> QED
    BY <1>1, <1>2, <2>1, <2>2 DEF RowsMounted
<1>8. PlansOrdered' /\ RunOrdered' /\ CopiesOnce'
  BY <1>1, <1>3, StatusStands
<1>9. RowsTyped'
  BY <1>1, <1>2, <1>3 DEF RowsTyped
<1>10. WorkersTyped'
  BY <1>1, <1>2, WorkersGoOn DEF ScanRow
<1> QED
  BY <1>6, <1>7, <1>8, <1>9, <1>10 DEF CloudInv

LEMMA ScanFailing ==
  ASSUME CloudInv, NEW v \in Scanners, ScanningIn(v), Fails(v)
  PROVE  CloudInv'
BY ScanStops DEF Fails

LEMMA ScanEnded ==
  ASSUME CloudInv, NEW v \in Scanners, EndScan(v)
  PROVE  CloudInv'
BY ScanStops DEF EndScan, ScanningIn

LEMMA ScanRefused ==
  ASSUME CloudInv, NEW v \in Scanners, RefuseScan(v)
  PROVE  CloudInv'
<1>1. /\ scan' = [scan EXCEPT ![v] = Idle]
      /\ UNCHANGED <<held, made, mount, mounts, catalog, logical, actions, plans,
                     screen, runner, alone>>
  BY DEF RefuseScan, Ends, clouds, tables, Quiet
<1>2. RowsTyped /\ WorkersTyped /\ RowsMounted
  BY DEF CloudInv
<1>3. MountsApart'
  BY <1>1, ScanGoesOn
<1>4. RowsMounted'
  <2>1. \A u \in Scanners : scan'[u].pc = "rebuild" => scan'[u] = scan[u]
    BY <1>1, <1>2 DEF WorkersTyped, Idle
  <2> QED
    BY <1>1, <1>2, <2>1 DEF RowsMounted, IsMounted
<1>5. PlansOrdered' /\ RunOrdered' /\ CopiesOnce'
  BY <1>1, StatusStands
<1>6. RowsTyped' /\ WorkersTyped'
  BY <1>1, <1>2, WorkersGoOn DEF RowsTyped, ScanRow
<1> QED
  BY <1>3, <1>4, <1>5, <1>6 DEF CloudInv

LEMMA RootFound ==
  ASSUME NEW mid, IsMounted(mid)
  PROVE  RootOf(mid) \in Roots /\ mount[RootOf(mid)].id = mid
  BY DEF IsMounted, RootOf

LEMMA ScanBegun ==
  ASSUME CloudInv, NEW v \in Scanners, BeginScan(v)
  PROVE  CloudInv'
<1> DEFINE mid == scan[v].mid
           root == RootOf(mid)
           s == [pc |-> "list", mid |-> mid, root |-> root,
                 unseen |-> Nodes(mid), found |-> {}]
<1>1. /\ scan[v].pc = "start"
      /\ SetStatus(mid, "SCANNING")
      /\ scan' = [scan EXCEPT ![v] = s]
      /\ alone' \subseteq alone \cup {root}
      /\ UNCHANGED <<held, made, mounts, catalog, logical, actions, plans, screen,
                     runner>>
  BY DEF BeginScan, Goes, clouds
<1>2. RowsTyped /\ WorkersTyped /\ MountsApart /\ RowsMounted
  BY DEF CloudInv
<1>3. root \in Roots /\ mount[root].id = mid
  BY RootFound DEF BeginScan
<1>4. mid \in 1 .. mounts /\ mounts \in Nat
  BY <1>1, <1>2 DEF MountsApart, RowsTyped
<1> HIDE DEF root
<1>5. s \in ScanRow /\ s # Idle
  BY <1>3, <1>4 DEF ScanRow, Listing, Nodes, Idle
<1>6. /\ mount' \in [Roots -> MountRow]
      /\ \A r \in Roots :
           /\ mount'[r].id = mount[r].id
           /\ mount'[r].status = IF mount[r].id = mid THEN "SCANNING"
                                 ELSE mount[r].status
           /\ mount[r].id # mid => mount'[r] = mount[r]
  BY <1>1, <1>2, StatusSet DEF RowsTyped, MountStatuses
<1>7. \A u \in Scanners : scan'[u] = IF u = v THEN s ELSE scan[u]
  BY <1>1, <1>2 DEF WorkersTyped
<1> HIDE DEF s
<1>8. s.pc = "list" /\ s.mid = mid /\ s.root = root
  BY DEF s
<1>9. MountsApart'
  <2>1. \A r \in Roots :
          \/ mount'[r] = NotMounted
          \/ mount'[r].id \in 1 .. mounts' /\ mount'[r].status # "none"
    BY <1>1, <1>2, <1>4, <1>6 DEF MountsApart, NotMounted
  <2>2. \A r, q \in Roots : mount'[r].id = mount'[q].id /\ mount'[r].id # 0 => r = q
    BY <1>2, <1>6 DEF MountsApart
  <2>3. \A u \in Scanners : scan'[u].pc # "idle" => scan'[u].mid \in 1 .. mounts'
    BY <1>1, <1>2, <1>4, <1>7, <1>8 DEF MountsApart
  <2>4. \A u \in Scanners, r \in Roots :
          ScanningIn(u)' /\ mount'[r].id = scan'[u].mid => scan'[u].root = r
    BY <1>2, <1>3, <1>4, <1>6, <1>7, <1>8 DEF MountsApart, ScanningIn
  <2>5. alone' \subseteq Mounted'
    BY <1>1, <1>2, <1>3, <1>4, <1>6 DEF MountsApart, Mounted
  <2> QED
    BY <2>1, <2>2, <2>3, <2>4, <2>5 DEF MountsApart
<1>10. RowsMounted'
  <2>1. \A i \in Items : IsMounted(catalog[i].mid)' <=> IsMounted(catalog[i].mid)
    BY <1>1, <1>6 DEF IsMounted
  <2>2. \A u \in Scanners : scan'[u].pc = "rebuild" => scan'[u] = scan[u]
    BY <1>7, <1>8
  <2> QED
    BY <1>1, <1>2, <2>1, <2>2 DEF RowsMounted
<1>11. PlansOrdered' /\ RunOrdered' /\ CopiesOnce'
  BY <1>1, <1>6, StatusStands
<1>12. RowsTyped'
  BY <1>1, <1>2, <1>3, <1>6 DEF RowsTyped
<1>13. WorkersTyped'
  BY <1>1, <1>2, <1>5, WorkersGoOn
<1> QED
  BY <1>9, <1>10, <1>11, <1>12, <1>13 DEF CloudInv

\* A scan that goes on over rows that keep their mounts.
LEMMA ScanSteps ==
  ASSUME CloudInv, NEW v \in Scanners, NEW s \in ScanRow, ScanningIn(v),
         s.pc \notin {"idle", "start"}, s.mid = scan[v].mid, s.root = scan[v].root,
         s.pc = "rebuild" => \A f \in s.found : f.node.mid \in 1 .. mounts,
         scan' = [scan EXCEPT ![v] = s],
         catalog' \in [Items -> Node],
         \A i \in Items : /\ catalog'[i].mid = catalog[i].mid
                          /\ \/ catalog'[i] = catalog[i]
                             \/ catalog[i] # NoNode /\ catalog'[i].status # "none",
         UNCHANGED <<clouds, mount, mounts, logical, actions, plans, screen, runner, alone>>
  PROVE  CloudInv'
<1>1. RowsTyped /\ WorkersTyped /\ MountsApart /\ RowsMounted
  BY DEF CloudInv
<1>2. MountsApart'
  BY ScanGoesOn DEF ScanningIn
<1>3. RowsMounted'
  <2>1. \A i \in Items : IsMounted(catalog[i].mid)' <=> IsMounted(catalog[i].mid)
    BY DEF IsMounted
  <2>2. \A i \in Items :
          \/ catalog'[i] = NoNode
          \/ /\ catalog'[i].mid \in 1 .. mounts' /\ IsMounted(catalog[i].mid)'
             /\ catalog'[i].status # "none"
    BY <1>1, <2>1 DEF RowsMounted
  <2>3. \A l \in logical' : catalog'[l.item] # NoNode
    <3>1. \A l \in logical : l.item \in Items /\ catalog[l.item] # NoNode
      BY <1>1 DEF RowsTyped, Replica, RowsMounted
    <3> QED
      BY <3>1 DEF NoNode
  <2>4. \A u \in Scanners : scan'[u].pc = "rebuild" =>
          \A f \in scan'[u].found : f.node.mid \in 1 .. mounts'
    BY <1>1 DEF RowsMounted, WorkersTyped
  <2> QED
    BY <2>2, <2>3, <2>4 DEF RowsMounted
<1>4. PlansOrdered' /\ RunOrdered' /\ CopiesOnce'
  BY StatusStands DEF clouds
<1>5. RowsTyped' /\ WorkersTyped'
  BY <1>1, WorkersGoOn DEF RowsTyped, clouds
<1> QED
  BY <1>2, <1>3, <1>4, <1>5 DEF CloudInv

LEMMA ChildrenListed ==
  ASSUME CloudInv, NEW v \in Scanners, ListChildren(v)
  PROVE  CloudInv'
<1> DEFINE F == {[item |-> i, name |-> held[i].name, body |-> held[i].body] :
                  i \in In(scan[v].root)}
           s == [scan[v] EXCEPT !.pc = "save", !.found = F]
<1>1. /\ scan[v].pc = "list"
      /\ scan' = [scan EXCEPT ![v] = s]
      /\ UNCHANGED <<clouds, mount, mounts, catalog, logical, actions, plans, screen,
                     runner, alone>>
  BY DEF ListChildren, Goes, tables, Quiet
<1>2. RowsTyped /\ WorkersTyped
  BY DEF CloudInv
<1>3. F \in SUBSET Listed
  BY <1>2 DEF RowsTyped, Held, Listed, In
<1>4. scan[v] \in Listing /\ ScanningIn(v)
  BY <1>1, <1>2, ScanKinds DEF ScanningIn
<1>8. s = [scan[v] EXCEPT !.pc = "save", !.found = F]
  OBVIOUS
<1> HIDE DEF F, s
<1>5. s \in Listing /\ s.pc = "save" /\ s.mid = scan[v].mid /\ s.root = scan[v].root
  BY <1>3, <1>4, <1>8 DEF Listing
<1>6. s \in ScanRow
  BY <1>5 DEF ScanRow
<1>7. catalog' \in [Items -> Node]
  BY <1>1, <1>2 DEF RowsTyped
<1> QED
  BY <1>1, <1>4, <1>5, <1>6, <1>7, ScanSteps

LEMMA NodesRead ==
  ASSUME CloudInv, NEW v \in Scanners, ReadNodes(v)
  PROVE  CloudInv'
<1> DEFINE F == {[item |-> i, node |-> catalog[i]] :
                  i \in {j \in Items : catalog[j].status = "ACTIVE"}}
           s == [scan[v] EXCEPT !.pc = "rebuild", !.found = F]
<1>1. /\ scan[v].pc = "read"
      /\ scan' = [scan EXCEPT ![v] = s]
      /\ UNCHANGED <<clouds, mount, mounts, catalog, logical, actions, plans, screen,
                     runner, alone>>
  BY DEF ReadNodes, Goes, tables, Quiet
<1>2. RowsTyped /\ WorkersTyped /\ RowsMounted
  BY DEF CloudInv
<1>3. F \in SUBSET Snapshot
  BY <1>2 DEF RowsTyped, Snapshot
<1>4. scan[v] \in Grouping /\ ScanningIn(v)
  BY <1>1, <1>2, ScanKinds DEF ScanningIn
<1>5. \A f \in F : f.node.mid \in 1 .. mounts
  <2>1. \A i \in Items : catalog[i].status = "ACTIVE" => catalog[i].mid \in 1 .. mounts
    BY <1>2 DEF RowsMounted, NoNode
  <2> QED
    BY <2>1
<1>9. s = [scan[v] EXCEPT !.pc = "rebuild", !.found = F]
  OBVIOUS
<1> HIDE DEF F, s
<1>6. s \in Grouping /\ s.pc = "rebuild" /\ s.mid = scan[v].mid
      /\ s.root = scan[v].root /\ s.found = F
  BY <1>3, <1>4, <1>9 DEF Grouping
<1>7. s \in ScanRow
  BY <1>6 DEF ScanRow
<1>8. catalog' \in [Items -> Node]
  BY <1>1, <1>2 DEF RowsTyped
<1> QED
  BY <1>1, <1>4, <1>5, <1>6, <1>7, <1>8, ScanSteps

\* The rows not seen since the scan began are marked, and no other.
LEMMA MissingMarked ==
  ASSUME RowsTyped, RowsMounted, MountsApart, NEW v \in Scanners, ScanningIn(v),
         catalog' = Missing(v)
  PROVE  /\ catalog' \in [Items -> Node]
         /\ \A i \in Items :
              /\ catalog'[i].mid = catalog[i].mid
              /\ catalog'[i].name = catalog[i].name
              /\ catalog'[i].body = catalog[i].body
              /\ IF i \in scan[v].unseen /\ catalog[i].mid = scan[v].mid
                   THEN catalog'[i].status = "MISSING" /\ catalog[i] # NoNode
                   ELSE catalog'[i] = catalog[i]
<1>1. ASSUME NEW n \in Node
      PROVE  /\ [n EXCEPT !.status = "MISSING"] \in Node
             /\ [n EXCEPT !.status = "MISSING"].mid = n.mid
             /\ [n EXCEPT !.status = "MISSING"].name = n.name
             /\ [n EXCEPT !.status = "MISSING"].body = n.body
             /\ [n EXCEPT !.status = "MISSING"].status = "MISSING"
  BY DEF Node
<1>2. scan[v].mid \in 1 .. mounts
  BY DEF MountsApart, ScanningIn
<1>3. \A i \in Items : catalog[i].mid = scan[v].mid => catalog[i] # NoNode
  BY <1>2 DEF NoNode
<1>4. catalog' = [i \in Items |-> IF i \in scan[v].unseen /\ catalog[i].mid = scan[v].mid
                     THEN [catalog[i] EXCEPT !.status = "MISSING"] ELSE catalog[i]]
  BY DEF Missing
<1>5. \A i \in Items : catalog[i] \in Node
  BY DEF RowsTyped
<1> QED
  BY <1>1, <1>3, <1>4, <1>5

LEMMA MissingRowsMarked ==
  ASSUME CloudInv, NEW v \in Scanners, MarkMissing(v)
  PROVE  CloudInv'
<1> DEFINE s == [scan[v] EXCEPT !.pc = "read"]
<1>1. /\ scan[v].pc = "save" /\ scan[v].found = {}
      /\ catalog' = Missing(v)
      /\ scan' = [scan EXCEPT ![v] = s]
      /\ UNCHANGED <<clouds, mount, mounts, logical, actions, plans, screen,
                     runner, alone>>
  BY DEF MarkMissing, Goes, Quiet
<1>2. RowsTyped /\ WorkersTyped /\ RowsMounted /\ MountsApart
  BY DEF CloudInv
<1>3. scan[v] \in Listing /\ ScanningIn(v)
  BY <1>1, <1>2, ScanKinds DEF ScanningIn
<1>4. s \in Grouping /\ s.pc = "read" /\ s.mid = scan[v].mid
      /\ s.root = scan[v].root
  BY <1>1, <1>3, ListingMarked
<1> HIDE DEF s
<1>5. s \in ScanRow
  BY <1>4 DEF ScanRow
<1>6. /\ catalog' \in [Items -> Node]
      /\ \A i \in Items : /\ catalog'[i].mid = catalog[i].mid
                          /\ \/ catalog'[i] = catalog[i]
                             \/ catalog[i] # NoNode /\ catalog'[i].status # "none"
  <2>1. /\ catalog' \in [Items -> Node]
        /\ \A i \in Items :
             /\ catalog'[i].mid = catalog[i].mid
             /\ IF i \in scan[v].unseen /\ catalog[i].mid = scan[v].mid
                  THEN catalog'[i].status = "MISSING" /\ catalog[i] # NoNode
                  ELSE catalog'[i] = catalog[i]
    BY <1>1, <1>2, <1>3, MissingMarked
  <2> QED
    BY <2>1
<1> QED
  BY <1>1, <1>3, <1>4, <1>5, <1>6, ScanSteps

LEMMA NodeSaved ==
  ASSUME RowsTyped, WorkersTyped, NEW v \in Scanners, scan[v].pc = "save",
         NEW f \in scan[v].found, SaveNode(v, f)
  PROVE  /\ f \in Listed /\ f.item \in Items
         /\ scan[v] \in Listing /\ scan'[v] \in Listing
         /\ scan'[v].pc = "save" /\ scan'[v].mid = scan[v].mid
         /\ scan'[v].root = scan[v].root
         /\ scan'[v].unseen = scan[v].unseen \ {f.item}
         /\ scan'[v].found = scan[v].found \ {f}
         /\ \A u \in Scanners \ {v} :
              \/ scan'[u] = scan[u]
              \/ /\ ScanningIn(u) /\ scan[u].mid = scan[v].mid
                 /\ scan[u] \in Listing => scan'[u] \in Listing
                 /\ scan[u] \in Grouping => scan'[u] \in Grouping
                 /\ scan'[u] \in ScanRow /\ scan'[u].pc = scan[u].pc
                 /\ scan'[u].mid = scan[u].mid /\ scan'[u].root = scan[u].root
                 /\ scan'[u].found = scan[u].found
         /\ scan' \in [Scanners -> ScanRow]
<1> DEFINE T(s) == [s EXCEPT !.unseen = @ \ {f.item}]
<1>1. scan' = [u \in Scanners |->
                IF u = v THEN [scan[v] EXCEPT !.found = @ \ {f}, !.unseen = @ \ {f.item}]
                ELSE IF ScanningIn(u) /\ scan[u].mid = scan[v].mid
                       THEN T(scan[u]) ELSE scan[u]]
  BY DEF SaveNode
<1>2. scan[v] \in Listing /\ scan[v].found \in SUBSET Listed
  BY ScanKinds DEF Listing
<1>3. f \in Listed /\ f.item \in Items
  BY <1>2 DEF Listed
<1>4. scan'[v] = [scan[v] EXCEPT !.found = @ \ {f}, !.unseen = @ \ {f.item}]
  BY <1>1
<1>5. /\ scan'[v] \in Listing /\ scan'[v].pc = scan[v].pc /\ scan'[v].mid = scan[v].mid
      /\ scan'[v].root = scan[v].root
      /\ scan'[v].unseen = scan[v].unseen \ {f.item}
      /\ scan'[v].found = scan[v].found \ {f}
  BY <1>2, <1>4 DEF Listing
<1>6. ASSUME NEW s \in Listing \cup Grouping
      PROVE  /\ T(s) \in Listing \cup Grouping /\ T(s).pc = s.pc /\ T(s).mid = s.mid
             /\ T(s).root = s.root /\ T(s).found = s.found
             /\ s \in Listing => T(s) \in Listing
             /\ s \in Grouping => T(s) \in Grouping
  <2>1. CASE s \in Listing
    BY <2>1 DEF Listing, Grouping
  <2>2. CASE s \in Grouping
    BY <2>2 DEF Listing, Grouping
  <2> QED
    BY <2>1, <2>2
<1> HIDE DEF T
<1>7. ASSUME NEW u \in Scanners \ {v}
      PROVE  /\ \/ scan'[u] = scan[u]
                \/ /\ ScanningIn(u) /\ scan[u].mid = scan[v].mid
                   /\ scan[u] \in Listing => scan'[u] \in Listing
                   /\ scan[u] \in Grouping => scan'[u] \in Grouping
                   /\ scan'[u] \in ScanRow /\ scan'[u].pc = scan[u].pc
                   /\ scan'[u].mid = scan[u].mid /\ scan'[u].root = scan[u].root
                   /\ scan'[u].found = scan[u].found
             /\ scan'[u] \in ScanRow
  <2>1. scan[u] \in ScanRow
    BY DEF WorkersTyped
  <2>2. CASE ScanningIn(u) /\ scan[u].mid = scan[v].mid
    <3>1. scan'[u] = T(scan[u])
      BY <1>1, <2>2
    <3>2. scan[u] \in Listing \cup Grouping
      BY <2>2, ScanKinds DEF ScanningIn
    <3>3. /\ T(scan[u]) \in Listing \cup Grouping /\ T(scan[u]).pc = scan[u].pc
          /\ T(scan[u]).mid = scan[u].mid
          /\ T(scan[u]).root = scan[u].root /\ T(scan[u]).found = scan[u].found
          /\ scan[u] \in Listing => T(scan[u]) \in Listing
          /\ scan[u] \in Grouping => T(scan[u]) \in Grouping
      BY <1>6, <3>2
    <3> QED
      BY <2>2, <3>1, <3>3 DEF ScanRow
  <2>3. CASE ~(ScanningIn(u) /\ scan[u].mid = scan[v].mid)
    BY <1>1, <2>1, <2>3
  <2> QED
    BY <2>2, <2>3
<1>8. scan' \in [Scanners -> ScanRow]
  <2>1. \A u \in Scanners : scan'[u] \in ScanRow
    BY <1>5, <1>7 DEF ScanRow
  <2> DEFINE e(u) == IF u = v THEN [scan[v] EXCEPT !.found = @ \ {f}, !.unseen = @ \ {f.item}]
                ELSE IF ScanningIn(u) /\ scan[u].mid = scan[v].mid
                       THEN T(scan[u]) ELSE scan[u]
  <2>2. scan' = [u \in Scanners |-> e(u)]
    BY <1>1
  <2> HIDE DEF e
  <2> QED
    BY <2>1, <2>2
<1> QED
  BY <1>2, <1>3, <1>5, <1>7, <1>8

LEMMA OneSaved ==
  ASSUME CloudInv, NEW v \in Scanners, SaveOne(v)
  PROVE  CloudInv'
<1>1. RowsTyped /\ WorkersTyped /\ MountsApart /\ RowsMounted
  BY DEF CloudInv
<1>2. scan[v].pc = "save" /\ ScanningIn(v)
  BY DEF SaveOne, ScanningIn
<1>3. CASE Fails(v)
  BY <1>2, <1>3, ScanFailing
<1>4. ASSUME NEW f \in scan[v].found, IsMounted(scan[v].mid), SaveNode(v, f)
      PROVE  CloudInv'
  <2> DEFINE n == [mid |-> scan[v].mid, name |-> f.name, body |-> f.body,
                   status |-> "ACTIVE"]
  <2>1. /\ catalog' = [catalog EXCEPT ![f.item] = n]
        /\ UNCHANGED <<held, made, mount, mounts, logical, actions, plans, screen,
                       runner, alone>>
    BY <1>4 DEF SaveNode, clouds, Quiet
  <2>2. /\ f \in Listed /\ f.item \in Items
        /\ scan' \in [Scanners -> ScanRow]
        /\ \A u \in Scanners :
             /\ scan'[u].pc = scan[u].pc /\ scan'[u].mid = scan[u].mid
             /\ ScanningIn(u) => scan'[u].root = scan[u].root
             /\ scan[u].pc = "rebuild" => scan'[u].found = scan[u].found
    <3>1. \A u \in Scanners \ {v} : scan'[u] = scan[u] \/
            /\ scan'[u].pc = scan[u].pc
            /\ scan'[u].mid = scan[u].mid /\ scan'[u].root = scan[u].root
            /\ scan'[u].found = scan[u].found
      BY <1>1, <1>2, <1>4, NodeSaved
    <3>2. /\ f \in Listed /\ f.item \in Items
          /\ scan' \in [Scanners -> ScanRow]
          /\ scan'[v].pc = "save" /\ scan'[v].mid = scan[v].mid
          /\ scan'[v].root = scan[v].root
      BY <1>1, <1>2, <1>4, NodeSaved
    <3> QED
      BY <1>2, <3>1, <3>2
  <2>3. scan[v].mid \in 1 .. mounts /\ mounts \in Nat
    BY <1>1, <1>2 DEF MountsApart, RowsTyped
  <2>4. n \in Node /\ n # NoNode /\ n.mid = scan[v].mid /\ n.status = "ACTIVE"
    BY <2>2, <2>3 DEF Node, NoNode, Listed
  <2> HIDE DEF n
  <2>5. /\ catalog' \in [Items -> Node]
        /\ \A i \in Items : catalog'[i] = IF i = f.item THEN n ELSE catalog[i]
    BY <1>1, <2>1, <2>2, <2>4 DEF RowsTyped
  <2>6. MountsApart'
    BY <1>1, <2>1, <2>2 DEF MountsApart, ScanningIn, Mounted
  <2>7. RowsMounted'
    <3>1. \A i \in Items :
            \/ catalog'[i] = NoNode
            \/ /\ catalog'[i].mid \in 1 .. mounts' /\ IsMounted(catalog'[i].mid)
               /\ catalog'[i].status # "none"
      BY <1>1, <1>4, <2>1, <2>3, <2>4, <2>5 DEF RowsMounted
    <3>2. \A i \in Items : IsMounted(catalog[i].mid)' <=> IsMounted(catalog'[i].mid)
      BY <2>1 DEF IsMounted
    <3>3. \A l \in logical' : catalog'[l.item] # NoNode
      BY <1>1, <2>1, <2>4, <2>5 DEF RowsMounted, RowsTyped, Replica
    <3>4. \A u \in Scanners : scan'[u].pc = "rebuild" =>
            \A g \in scan'[u].found : g.node.mid \in 1 .. mounts'
      BY <1>1, <2>1, <2>2 DEF RowsMounted
    <3> QED
      BY <3>1, <3>2, <3>3, <3>4 DEF RowsMounted
  <2>8. PlansOrdered' /\ RunOrdered' /\ CopiesOnce'
    BY <2>1, StatusStands
  <2>9. RowsTyped' /\ WorkersTyped'
    BY <1>1, <2>1, <2>2, <2>5 DEF RowsTyped, WorkersTyped
  <2> QED
    BY <2>6, <2>7, <2>8, <2>9 DEF CloudInv
<1> QED
  BY <1>3, <1>4 DEF SaveOne

LEMMA Rebuilt ==
  ASSUME CloudInv, NEW v \in Scanners, Rebuild(v)
  PROVE  CloudInv'
<1>1. RowsTyped /\ WorkersTyped /\ MountsApart /\ RowsMounted
  BY DEF CloudInv
<1>2. scan[v].pc = "rebuild" /\ ScanningIn(v) /\ scan[v] \in Grouping
  BY <1>1, ScanKinds DEF Rebuild, ScanningIn
<1>3. CASE ~MayRebuild(v)
  BY <1>2, <1>3, ScanFailing DEF Rebuild
<1>4. CASE MayRebuild(v)
  <2> DEFINE s == [scan[v] EXCEPT !.pc = "end", !.found = {}]
             L == {[item |-> f.item, path |-> f.node.name, body |-> f.node.body] :
                    f \in scan[v].found}
  <2>1. /\ logical' = L
        /\ screen' = IF screen.pc = "building" THEN [screen EXCEPT !.objects = {}]
                     ELSE screen
        /\ scan' = [scan EXCEPT ![v] = s]
        /\ UNCHANGED <<held, made, mount, mounts, catalog, actions, plans, runner, alone>>
    BY <1>4 DEF Rebuild, Goes, clouds, Quiet
  <2>2. s \in Grouping /\ s.pc = "end" /\ s.mid = scan[v].mid /\ s.root = scan[v].root
    BY <1>2 DEF Grouping
  <2> HIDE DEF s
  <2>3. /\ \A k \in Keys : actions[k] = NoAction
        /\ \A f \in scan[v].found : catalog[f.item].mid = f.node.mid
    BY <1>4 DEF MayRebuild
  <2>4. scan[v].found \in SUBSET Snapshot
    BY <1>2 DEF Grouping
  <2>5. logical' \in SUBSET Replica
    BY <2>1, <2>4 DEF Snapshot, Replica, Node
  <2>6. \A l \in logical' : catalog[l.item] # NoNode
    <3>1. \A f \in scan[v].found : catalog[f.item].mid \in 1 .. mounts
      BY <1>1, <1>2, <2>3 DEF RowsMounted
    <3> QED
      BY <2>1, <3>1 DEF NoNode
  <2> HIDE DEF L
  <2>7. /\ screen' \in {Idle} \cup Building \cup Asking
        /\ screen' = Idle \/ (screen # Idle /\ screen'.plan = screen.plan)
    <3>1. CASE screen.pc = "building"
      BY <1>1, <2>1, <3>1, ScreenKinds DEF Building, Idle
    <3>2. CASE screen.pc # "building"
      BY <1>1, <2>1, <3>2 DEF WorkersTyped
    <3> QED
      BY <3>1, <3>2
  <2>8. MountsApart'
    BY <1>2, <2>1, <2>2, ScanGoesOn
  <2>9. RowsMounted'
    <3>1. \A u \in Scanners : scan'[u].pc = "rebuild" => scan'[u] = scan[u]
      BY <1>1, <2>1, <2>2 DEF WorkersTyped
    <3> QED
      BY <1>1, <2>1, <2>6, <3>1 DEF RowsMounted, IsMounted
  <2>10. PlansOrdered' /\ RunOrdered' /\ CopiesOnce'
    BY <2>1, <2>3, <2>7, PlansStand
  <2>11. RowsTyped'
    BY <1>1, <2>1, <2>5 DEF RowsTyped
  <2>12. WorkersTyped'
    BY <1>1, <2>1, <2>2, <2>7 DEF WorkersTyped, ScanRow
  <2> QED
    BY <2>8, <2>9, <2>10, <2>11, <2>12 DEF CloudInv
<1> QED
  BY <1>3, <1>4

-----------------------------------------------------------------------------
(* The user: clouds, mounts and plans                                      *)

LEMMA NothingUnused ==
  ASSUME RowsTyped, Unused # {}
  PROVE  /\ SmallestOf(Unused) \in Items
         /\ held[SmallestOf(Unused)] = NoItem /\ catalog[SmallestOf(Unused)] = NoNode
<1>1. Unused \in SUBSET Nat
  BY DEF Unused, Items
<1>2. SmallestOf(Unused) \in Unused
  BY <1>1, SmallestChosen
<1> QED
  BY <1>2 DEF Unused

LEMMA CloudsChanged ==
  ASSUME CloudInv, NEW r \in Roots, UserChanges(r)
  PROVE  CloudInv'
<1>1. RowsTyped /\ WorkersTyped
  BY DEF CloudInv
<1>2. UNCHANGED <<made, mount, mounts, catalog, logical, actions, plans, screen, scan, runner>>
      /\ alone' \subseteq alone
  BY DEF UserChanges, tables
<1>3. held' \in [Items -> Held]
  <2>1. ASSUME NEW i \in Items, NEW n \in Words, NEW b \in Bytes, Put(i, r, n, b)
        PROVE  held' \in [Items -> Held]
    <3>1. [root |-> r, name |-> n, body |-> b] \in Held
      BY DEF Held
    <3> QED
      BY <1>1, <2>1, <3>1 DEF Put, RowsTyped
  <2>2. ASSUME NEW n \in FileNames, Unused # {}, Put(SmallestOf(Unused), r, n, 1)
        PROVE  held' \in [Items -> Held]
    BY <1>1, <2>1, <2>2, NothingUnused DEF Words, Bytes
  <2>3. ASSUME NEW i \in In(r), held' = [held EXCEPT ![i] = NoItem]
        PROVE  held' \in [Items -> Held]
    <3>1. NoItem \in Held
      BY DEF NoItem, Held, Words, Bytes
    <3> QED
      BY <1>1, <2>3, <3>1 DEF RowsTyped
  <2>4. ASSUME NEW i \in In(r), Put(i, r, held[i].name, 3 - held[i].body)
        PROVE  held' \in [Items -> Held]
    <3>1. i \in Items /\ held[i].name \in Words /\ 3 - held[i].body \in Bytes
      BY <1>1, <2>4 DEF In, RowsTyped, Held, Bytes
    <3> QED
      BY <2>1, <2>4, <3>1
  <2>5. ASSUME NEW i \in In(r), NEW n \in FileNames, Put(i, r, n, held[i].body)
        PROVE  held' \in [Items -> Held]
    <3>1. i \in Items /\ held[i].body \in Bytes /\ n \in Words
      BY <1>1, <2>5 DEF In, RowsTyped, Held, Words
    <3> QED
      BY <2>1, <2>5, <3>1
  <2> QED
    BY <2>2, <2>3, <2>4, <2>5 DEF UserChanges
<1>4. MountsApart' /\ RowsMounted'
  BY <1>2, TablesStand
<1>5. PlansOrdered' /\ RunOrdered' /\ CopiesOnce'
  BY <1>2, StatusStands
<1>6. RowsTyped' /\ WorkersTyped'
  BY <1>1, <1>2, <1>3 DEF RowsTyped, WorkersTyped
<1> QED
  BY <1>4, <1>5, <1>6 DEF CloudInv

LEMMA ScanPressed ==
  ASSUME CloudInv, NEW v \in Scanners, NEW r \in Roots, PressScan(v, r)
  PROVE  CloudInv'
<1> DEFINE s == [pc |-> "start", mid |-> mount[r].id]
<1>1. /\ mount[r].id # 0
      /\ scan' = [scan EXCEPT ![v] = s]
      /\ UNCHANGED <<held, made, mount, mounts, catalog, logical, actions, plans,
                     screen, runner, alone>>
  BY DEF PressScan, StartScan, Mounted, clouds, tables, Quiet
<1>2. RowsTyped /\ WorkersTyped /\ MountsApart /\ RowsMounted
  BY DEF CloudInv
<1>3. mount[r].id \in 1 .. mounts /\ mounts \in Nat
  BY <1>1, <1>2 DEF MountsApart, NotMounted, RowsTyped
<1>4. s \in ScanRow
  BY <1>3 DEF ScanRow, Waiting
<1>5. \A u \in Scanners : scan'[u] = IF u = v THEN s ELSE scan[u]
  BY <1>1, <1>2 DEF WorkersTyped
<1>6. s.pc = "start" /\ s.mid = mount[r].id
  OBVIOUS
<1> HIDE DEF s
<1>7. MountsApart'
  BY <1>1, <1>2, <1>3, <1>5, <1>6 DEF MountsApart, ScanningIn, Mounted
<1>8. RowsMounted'
  BY <1>1, <1>2, <1>5, <1>6 DEF RowsMounted, IsMounted
<1>9. PlansOrdered' /\ RunOrdered' /\ CopiesOnce'
  BY <1>1, StatusStands
<1>10. RowsTyped' /\ WorkersTyped'
  BY <1>1, <1>2, <1>4, WorkersGoOn DEF RowsTyped
<1> QED
  BY <1>7, <1>8, <1>9, <1>10 DEF CloudInv

LEMMA FolderMounted ==
  ASSUME CloudInv, NEW v \in Scanners, NEW r \in Roots, Mount(v, r)
  PROVE  CloudInv'
<1> DEFINE s == [pc |-> "start", mid |-> mounts']
           row == [id |-> mounts', status |-> "ACTIVE"]
<1>1. /\ mount[r] = NotMounted /\ mounts' = mounts + 1
      /\ mount' = [mount EXCEPT ![r] = row]
      /\ scan' = [scan EXCEPT ![v] = s]
      /\ UNCHANGED <<held, made, catalog, logical, actions, plans, screen, runner, alone>>
  BY DEF Mount, StartScan, clouds, Quiet
<1>2. RowsTyped /\ WorkersTyped /\ MountsApart /\ RowsMounted /\ PlansOrdered
  BY DEF CloudInv
<1>3. mounts \in Nat /\ mounts' \in 1 .. mounts' /\ 1 .. mounts \subseteq 1 .. mounts'
      /\ mounts' \notin 1 .. mounts
  BY <1>1, <1>2 DEF RowsTyped
<1>4. s \in ScanRow
  BY <1>1, <1>3 DEF ScanRow, Waiting
<1>5. row \in MountRow
  BY <1>3 DEF MountRow, MountStatuses
<1>6. /\ s.pc = "start" /\ s.mid = mounts' /\ row.id = mounts' /\ row.status = "ACTIVE"
  OBVIOUS
<1> HIDE DEF s, row
<1>7. /\ \A u \in Scanners : scan'[u] = IF u = v THEN s ELSE scan[u]
      /\ \A q \in Roots : mount'[q] = IF q = r THEN row ELSE mount[q]
      /\ mount' \in [Roots -> MountRow]
  BY <1>1, <1>2, <1>5 DEF WorkersTyped, RowsTyped
<1>8. \A q \in Roots : mount[q].id # 0 => mount[q].id \in 1 .. mounts /\ mount'[q] = mount[q]
  BY <1>1, <1>2, <1>7 DEF MountsApart, NotMounted
<1>9. MountsApart'
  <2>1. \A q \in Roots : \/ mount'[q] = NotMounted
                         \/ mount'[q].id \in 1 .. mounts' /\ mount'[q].status # "none"
    BY <1>2, <1>3, <1>6, <1>7 DEF MountsApart
  <2>2. \A q, p \in Roots : mount'[q].id = mount'[p].id /\ mount'[q].id # 0 => q = p
    BY <1>2, <1>3, <1>6, <1>7, <1>8 DEF MountsApart
  <2>3. \A u \in Scanners : scan'[u].pc # "idle" => scan'[u].mid \in 1 .. mounts'
    BY <1>2, <1>3, <1>6, <1>7 DEF MountsApart
  <2>4. \A u \in Scanners, q \in Roots :
          ScanningIn(u)' /\ mount'[q].id = scan'[u].mid => scan'[u].root = q
    <3> SUFFICES ASSUME NEW u \in Scanners, NEW q \in Roots,
                        scan'[u].pc \notin {"idle", "start"}, mount'[q].id = scan'[u].mid
                 PROVE  scan'[u].root = q
      BY DEF ScanningIn
    <3>1. u # v /\ scan'[u] = scan[u] /\ scan[u].mid \in 1 .. mounts
      BY <1>2, <1>6, <1>7 DEF MountsApart
    <3>2. q # r
      BY <1>3, <1>6, <1>7, <3>1
    <3> QED
      BY <1>2, <1>7, <3>1, <3>2 DEF MountsApart, ScanningIn
  <2>5. alone' \subseteq Mounted'
    BY <1>1, <1>2, <1>8 DEF MountsApart, Mounted
  <2> QED
    BY <2>1, <2>2, <2>3, <2>4, <2>5 DEF MountsApart
<1>10. RowsMounted'
  <2>1. \A i \in Items : catalog[i].mid \in 1 .. mounts /\ IsMounted(catalog[i].mid)
          => IsMounted(catalog[i].mid)'
    BY <1>1, <1>8, <1>3 DEF IsMounted
  <2>2. \A u \in Scanners : scan'[u].pc = "rebuild" => scan'[u] = scan[u]
    BY <1>6, <1>7
  <2>3. \A i \in Items : catalog[i] = NoNode \/
           /\ catalog[i].mid \in 1 .. mounts' /\ IsMounted(catalog[i].mid)'
           /\ catalog[i].status # "none"
    BY <1>2, <1>3, <2>1 DEF RowsMounted
  <2>4. \A u \in Scanners : scan'[u].pc = "rebuild" =>
           \A f \in scan'[u].found : f.node.mid \in 1 .. mounts'
    BY <1>2, <1>3, <2>2 DEF RowsMounted
  <2>5. \A l \in logical' : catalog'[l.item] # NoNode
    BY <1>1, <1>2 DEF RowsMounted
  <2>6. catalog' = catalog
    BY <1>1
  <2>7. \A i \in Items : catalog'[i] = NoNode \/
           /\ catalog'[i].mid \in 1 .. mounts' /\ IsMounted(catalog[i].mid)'
           /\ catalog'[i].status # "none"
    BY <2>3, <2>6
  <2> QED
    BY <2>4, <2>5, <2>7 DEF RowsMounted
<1>11. PlansOrdered' /\ RunOrdered' /\ CopiesOnce'
  <2>1. \A k \in Keys : actions[k] # NoAction =>
           (\E l \in logical' : l.item = k[1]) /\ k[2] \in Mounted'
    BY <1>1, <1>2, <1>8 DEF PlansOrdered, Mounted
  <2> QED
    BY <1>1, <2>1, PlansStand
<1>12. RowsTyped'
  BY <1>1, <1>2, <1>3, <1>7 DEF RowsTyped
<1>13. WorkersTyped'
  BY <1>1, <1>2, <1>4, WorkersGoOn
<1> QED
  BY <1>9, <1>10, <1>11, <1>12, <1>13 DEF CloudInv

LEMMA FolderUnmounted ==
  ASSUME CloudInv, NEW r \in Roots, Unmount(r)
  PROVE  CloudInv'
<1> DEFINE mid == mount[r].id
<1>1. /\ mid # 0 /\ ~Referred(r)
      /\ mount' = [mount EXCEPT ![r] = NotMounted]
      /\ catalog' = [i \in Items |-> IF catalog[i].mid = mid THEN NoNode ELSE catalog[i]]
      /\ logical' = {l \in logical : catalog[l.item].mid # mid}
      /\ alone' = alone \ {r}
      /\ UNCHANGED <<held, made, mounts, actions, plans, screen, scan, runner>>
  BY DEF Unmount, Mounted, clouds
<1>2. RowsTyped /\ WorkersTyped /\ MountsApart /\ RowsMounted /\ PlansOrdered
  BY DEF CloudInv
<1>3. NotMounted \in MountRow /\ NoNode \in Node
  BY DEF NotMounted, MountRow, MountStatuses, NoNode, Node, Words, Bytes
<1>4. /\ mount' \in [Roots -> MountRow]
      /\ \A q \in Roots : mount'[q] = IF q = r THEN NotMounted ELSE mount[q]
      /\ catalog' \in [Items -> Node]
      /\ \A i \in Items : catalog'[i] = IF catalog[i].mid = mid THEN NoNode ELSE catalog[i]
  BY <1>1, <1>2, <1>3 DEF RowsTyped
<1>5. \A q \in Roots \ {r} : mount[q].id # mid
  BY <1>1, <1>2 DEF MountsApart
<1>6. mid \in 1 .. mounts /\ NotMounted.id = 0 /\ NoNode.mid = 0 /\ mounts \in Nat
  BY <1>1, <1>2 DEF MountsApart, NotMounted, NoNode, RowsTyped
<1>7. MountsApart'
  <2>1. \A q \in Roots : \/ mount'[q] = NotMounted
                         \/ mount'[q].id \in 1 .. mounts' /\ mount'[q].status # "none"
    BY <1>1, <1>2, <1>4 DEF MountsApart
  <2>2. \A q, p \in Roots : mount'[q].id = mount'[p].id /\ mount'[q].id # 0 => q = p
    BY <1>2, <1>4, <1>6 DEF MountsApart
  <2>3. \A u \in Scanners : scan'[u].pc # "idle" => scan'[u].mid \in 1 .. mounts'
    BY <1>1, <1>2 DEF MountsApart
  <2>4. \A u \in Scanners, q \in Roots :
          ScanningIn(u)' /\ mount'[q].id = scan'[u].mid => scan'[u].root = q
    <3> SUFFICES ASSUME NEW u \in Scanners, NEW q \in Roots,
                        scan[u].pc \notin {"idle", "start"}, mount'[q].id = scan[u].mid
                 PROVE  scan[u].root = q
      BY <1>1 DEF ScanningIn
    <3>1. scan[u].mid # 0
      BY <1>2, <1>6 DEF MountsApart
    <3>2. mount'[q] = mount[q]
      BY <1>4, <1>6, <3>1
    <3> QED
      BY <1>2, <3>2 DEF MountsApart, ScanningIn
  <2>5. alone' \subseteq Mounted'
    BY <1>1, <1>2, <1>4 DEF MountsApart, Mounted
  <2> QED
    BY <2>1, <2>2, <2>3, <2>4, <2>5 DEF MountsApart
<1>8. RowsMounted'
  <2>1. \A i \in Items : catalog'[i] # NoNode =>
          catalog'[i] = catalog[i] /\ catalog[i].mid # mid /\ catalog[i] # NoNode
    BY <1>4
  <2>2. \A i \in Items : IsMounted(catalog[i].mid) /\ catalog[i].mid # mid
          => \E q \in Roots : mount'[q].id = catalog[i].mid
    BY <1>4 DEF IsMounted
  <2>3. \A i \in Items : catalog'[i] # NoNode =>
          /\ catalog'[i].mid \in 1 .. mounts'
          /\ \E q \in Roots : mount'[q].id = catalog'[i].mid
          /\ catalog'[i].status # "none"
    BY <1>1, <1>2, <2>1, <2>2 DEF RowsMounted
  <2>4. \A l \in logical' : catalog'[l.item] # NoNode
    BY <1>1, <1>2, <1>4 DEF RowsMounted, RowsTyped, Replica
  <2>5. \A u \in Scanners : scan'[u].pc = "rebuild" =>
           \A f \in scan'[u].found : f.node.mid \in 1 .. mounts'
    BY <1>1, <1>2 DEF RowsMounted
  <2> QED
    BY <2>3, <2>4, <2>5 DEF RowsMounted, IsMounted
<1>9. PlansOrdered' /\ RunOrdered' /\ CopiesOnce'
  <2>1. ASSUME NEW k \in Keys, actions[k] # NoAction
        PROVE  (\E l \in logical' : l.item = k[1]) /\ k[2] \in Mounted'
    <3>1. k[2] # r /\ catalog[k[1]].mid # mid
      BY <1>1, <2>1 DEF Referred
    <3>2. (\E l \in logical : l.item = k[1]) /\ k[2] \in Roots /\ mount[k[2]].id # 0
      BY <1>2, <2>1 DEF PlansOrdered, Mounted
    <3> QED
      BY <1>1, <1>4, <3>1, <3>2 DEF Mounted
  <2> QED
    BY <1>1, <2>1, PlansStand
<1>10. RowsTyped' /\ WorkersTyped'
  BY <1>1, <1>2, <1>4 DEF RowsTyped, WorkersTyped
<1> QED
  BY <1>7, <1>8, <1>9, <1>10 DEF CloudInv

LEMMA PlanBegun ==
  ASSUME CloudInv, BuildPlan
  PROVE  CloudInv'
<1>1. RowsTyped /\ WorkersTyped /\ PlansOrdered /\ CopiesOnce
  BY DEF CloudInv
<1>2. PICK p \in Plans :
        /\ plans[p] = "none"
        /\ plans' = [plans EXCEPT ![p] = "DRAFT"]
        /\ screen' = [pc |-> "building", plan |-> p, objects |-> {l.path : l \in logical}]
  BY DEF BuildPlan
<1>3. /\ runner = Idle
      /\ UNCHANGED <<held, made, mount, mounts, catalog, logical, actions, scan, runner, alone>>
  BY DEF BuildPlan, clouds, Quiet
<1>4. MountsApart' /\ RowsMounted'
  BY <1>3, TablesStand
<1>5. {l.path : l \in logical} \subseteq Words
  BY <1>1 DEF RowsTyped, Replica
<1>6. screen' \in Building /\ screen'.plan = p
  BY <1>2, <1>5 DEF Building
<1>7. /\ plans' \in [Plans -> PlanStatuses]
      /\ \A q \in Plans : plans'[q] = IF q = p THEN "DRAFT" ELSE plans[q]
  BY <1>1, <1>2 DEF RowsTyped, PlanStatuses
<1>8. \A k \in Keys : actions[k] # NoAction =>
        actions[k].plan \in Plans /\ plans'[actions[k].plan] = plans[actions[k].plan]
  BY <1>1, <1>2, <1>7 DEF PlansOrdered
<1>9. PlansOrdered'
  <2>1. \A k \in Keys : actions'[k] # NoAction =>
          /\ actions'[k].plan \in Plans /\ actions'[k].status # "none"
          /\ \E l \in logical' : l.item = k[1]
          /\ k[2] \in Mounted'
          /\ plans'[actions'[k].plan] # "none"
          /\ plans'[actions'[k].plan] = "DRAFT" => actions'[k].status = "PROPOSED"
          /\ plans'[actions'[k].plan] = "AUTHORIZED" => actions'[k].status = "AUTHORIZED"
          /\ plans'[actions'[k].plan] = "COMPLETED" => actions'[k].status = "COMPLETED"
    BY <1>1, <1>3, <1>8 DEF PlansOrdered, Mounted
  <2>2. runner' = Idle /\ plans'[screen'.plan] = "DRAFT"
    BY <1>3, <1>6, <1>7
  <2>3. runner'.pc = "idle"
    BY <2>2 DEF Idle
  <2> QED
    BY <2>1, <2>2, <2>3 DEF PlansOrdered, Begun
<1>10. RunOrdered'
  BY <1>3 DEF RunOrdered, Begun, Idle
<1>11. CopiesOnce'
  <2>1. \A k \in Keys : made[k] > 0 => actions[k] # NoAction
    BY <1>1 DEF CopiesOnce, NoAction
  <2> QED
    BY <1>1, <1>3, <1>8, <2>1 DEF CopiesOnce
<1>12. RowsTyped' /\ WorkersTyped'
  BY <1>1, <1>3, <1>6, <1>7 DEF RowsTyped, WorkersTyped
<1> QED
  BY <1>4, <1>9, <1>10, <1>11, <1>12 DEF CloudInv

LEMMA ObjectPlanned ==
  ASSUME CloudInv, PlanObject
  PROVE  CloudInv'
<1>1. RowsTyped /\ WorkersTyped /\ PlansOrdered /\ CopiesOnce
  BY DEF CloudInv
<1>2. PICK path \in screen.objects :
        /\ actions' = AddActions(path)
        /\ screen' = [screen EXCEPT !.objects = @ \ {path}]
  BY DEF PlanObject
<1>3. /\ screen \in Building /\ screen.pc = "building"
      /\ UNCHANGED <<held, made, mount, mounts, catalog, logical, plans, scan, runner, alone>>
  BY <1>1, ScreenKinds DEF PlanObject, clouds, Quiet
<1>4. /\ screen' \in Building /\ screen'.plan = screen.plan /\ path \in Words
      /\ screen.plan \in Plans /\ screen # Idle
  BY <1>2, <1>3 DEF Building, Idle
<1> DEFINE a == [status |-> "PROPOSED", plan |-> screen.plan, path |-> path]
<1>5. /\ a \in Action /\ a # NoAction /\ a.status = "PROPOSED" /\ a.plan = screen.plan
  BY <1>4 DEF Action, NoAction, ActionStatuses, Plans
<1> HIDE DEF a
<1>6. /\ actions' \in [Keys -> Action]
      /\ \A k \in Keys : actions'[k] = actions[k] \/
           /\ actions[k] = NoAction /\ actions'[k] = a
           /\ \E l \in logical : l.item = k[1]
           /\ k[2] \in Mounted
  <2>1. CASE Replicas(path) = {} \/ Diverged(path)
    BY <1>1, <1>2, <2>1 DEF AddActions, RowsTyped
  <2>2. CASE ~(Replicas(path) = {} \/ Diverged(path))
    <3>1. actions' = [k \in Keys |->
            IF k[1] = SourceOf(path).item /\ k[2] \in Lacking(path) /\ actions[k] = NoAction
              THEN a ELSE actions[k]]
      BY <1>2, <2>2 DEF AddActions, a
    <3>2. SourceOf(path) \in logical
      BY <1>1, <2>2, SourceIsReplica
    <3>3. \A r \in Lacking(path) : r \in Mounted
      BY DEF Lacking
    <3>4. \A k \in Keys : actions[k] \in Action
      BY <1>1 DEF RowsTyped
    <3> QED
      BY <1>5, <3>1, <3>2, <3>3, <3>4
  <2> QED
    BY <2>1, <2>2
<1>7. MountsApart' /\ RowsMounted'
  BY <1>3, TablesStand
<1>8. runner = Idle /\ plans[screen.plan] = "DRAFT" /\ runner.pc = "idle"
  BY <1>1, <1>4, RunnerKinds DEF PlansOrdered
<1>9. PlansOrdered'
  <2>1. \A k \in Keys : actions'[k] # NoAction =>
          /\ actions'[k].plan \in Plans /\ actions'[k].status # "none"
          /\ \E l \in logical : l.item = k[1]
          /\ k[2] \in Mounted
          /\ plans[actions'[k].plan] # "none"
          /\ plans[actions'[k].plan] = "DRAFT" => actions'[k].status = "PROPOSED"
          /\ plans[actions'[k].plan] = "AUTHORIZED" => actions'[k].status = "AUTHORIZED"
          /\ plans[actions'[k].plan] = "COMPLETED" => actions'[k].status = "COMPLETED"
    BY <1>1, <1>4, <1>5, <1>6, <1>8 DEF PlansOrdered
  <2>2. Mounted' = Mounted
    BY <1>3 DEF Mounted
  <2> QED
    BY <1>3, <1>4, <1>8, <2>1, <2>2 DEF PlansOrdered, Begun
<1>10. RunOrdered'
  BY <1>3, <1>8 DEF RunOrdered, Begun
<1>11. CopiesOnce'
  <2>1. \A k \in Keys : actions[k] = NoAction => ~(made[k] > 0)
    BY <1>1 DEF CopiesOnce, NoAction
  <2> QED
    BY <1>1, <1>3, <1>5, <1>6, <2>1 DEF CopiesOnce
<1>12. RowsTyped' /\ WorkersTyped'
  BY <1>1, <1>3, <1>4, <1>6 DEF RowsTyped, WorkersTyped
<1> QED
  BY <1>7, <1>9, <1>10, <1>11, <1>12 DEF CloudInv

LEMMA PlanShown ==
  ASSUME CloudInv, ShowPlan \/ Refuse
  PROVE  CloudInv'
<1>1. RowsTyped /\ WorkersTyped /\ PlansOrdered
  BY DEF CloudInv
<1>2. UNCHANGED <<held, made, mount, mounts, catalog, logical, actions, plans, scan,
                  runner, alone>>
  BY DEF ShowPlan, Refuse, clouds, tables, Quiet
<1>3. MountsApart' /\ RowsMounted'
  BY <1>2, TablesStand
<1>4. /\ screen' \in {Idle} \cup Building \cup Asking
      /\ screen' = Idle \/ (screen # Idle /\ screen'.plan = screen.plan)
  <2>1. CASE Refuse
    BY <2>1 DEF Refuse
  <2>2. CASE ShowPlan
    BY <1>1, <2>2, ScreenKinds DEF ShowPlan, Building, Asking, Idle
  <2> QED
    BY <2>1, <2>2
<1>5. PlansOrdered' /\ RunOrdered' /\ CopiesOnce'
  <2>1. \A k \in Keys : actions[k] # NoAction =>
           (\E l \in logical' : l.item = k[1]) /\ k[2] \in Mounted'
    BY <1>1, <1>2 DEF PlansOrdered, Mounted
  <2> QED
    BY <1>2, <1>4, <2>1, PlansStand
<1>6. RowsTyped' /\ WorkersTyped'
  BY <1>1, <1>2, <1>4 DEF RowsTyped, WorkersTyped
<1> QED
  BY <1>3, <1>5, <1>6 DEF CloudInv

LEMMA PlanAuthorized ==
  ASSUME CloudInv, Authorize
  PROVE  CloudInv'
<1> DEFINE p == screen.plan
<1>1. RowsTyped /\ WorkersTyped /\ PlansOrdered /\ CopiesOnce
  BY DEF CloudInv
<1>2. /\ screen.pc = "asking"
      /\ plans' = [plans EXCEPT ![p] = "AUTHORIZED"]
      /\ SetActions(ActionsOf(p), "AUTHORIZED")
      /\ runner' = [pc |-> "start", plan |-> p]
      /\ screen' = Idle
      /\ UNCHANGED <<held, made, mount, mounts, catalog, logical, scan, alone>>
  BY DEF Authorize, clouds, Quiet
<1>3. p \in Plans /\ plans[p] = "DRAFT"
  BY <1>1, <1>2, ScreenKinds DEF Asking, Idle, PlansOrdered
<1>4. /\ plans' \in [Plans -> PlanStatuses]
      /\ \A q \in Plans : plans'[q] = IF q = p THEN "AUTHORIZED" ELSE plans[q]
  BY <1>1, <1>2, <1>3 DEF RowsTyped, PlanStatuses
<1>5. runner' \in Chosen /\ runner'.pc = "start" /\ runner'.plan = p
  BY <1>2, <1>3 DEF Chosen
<1> HIDE DEF p
<1>6. /\ actions' \in [Keys -> Action]
      /\ \A k \in Keys :
           /\ actions'[k].plan = actions[k].plan
           /\ actions'[k].status = IF actions[k].plan = p THEN "AUTHORIZED"
                                   ELSE actions[k].status
           /\ actions[k].plan # p => actions'[k] = actions[k]
  BY <1>1, <1>2, ActionsSet DEF RowsTyped, ActionStatuses, ActionsOf
<1>7. \A k \in Keys : actions[k].plan = p => actions[k] # NoAction
  BY <1>3 DEF NoAction, Plans
<1>8. MountsApart' /\ RowsMounted'
  BY <1>2, TablesStand
<1>9. PlansOrdered'
  <2>1. \A k \in Keys : actions'[k] # NoAction =>
          /\ actions'[k].plan \in Plans /\ actions'[k].status # "none"
          /\ \E l \in logical : l.item = k[1]
          /\ k[2] \in Mounted
          /\ plans'[actions'[k].plan] # "none"
          /\ plans'[actions'[k].plan] = "DRAFT" => actions'[k].status = "PROPOSED"
          /\ plans'[actions'[k].plan] = "AUTHORIZED" => actions'[k].status = "AUTHORIZED"
          /\ plans'[actions'[k].plan] = "COMPLETED" => actions'[k].status = "COMPLETED"
    BY <1>1, <1>4, <1>6, <1>7 DEF PlansOrdered
  <2>2. Mounted' = Mounted /\ logical' = logical
    BY <1>2 DEF Mounted
  <2> QED
    BY <1>2, <1>3, <1>4, <1>5, <2>1, <2>2 DEF PlansOrdered, Begun
<1>10. RunOrdered'
  BY <1>5 DEF RunOrdered, Begun
<1>11. CopiesOnce'
  <2>1. \A k \in Keys : actions[k].plan = p => actions[k].status = "PROPOSED"
    BY <1>1, <1>3, <1>7 DEF PlansOrdered
  <2>2. \A k \in Keys : made[k] > 0 =>
          actions[k].plan # p /\ plans[actions[k].plan] \in {"RUNNING", "PARTIAL", "COMPLETED"}
          /\ actions[k] # NoAction
    BY <1>1, <2>1 DEF CopiesOnce, NoAction
  <2>3. \A k \in Keys : made[k] > 0 => actions[k].plan \in Plans
    BY <1>1, <2>2 DEF PlansOrdered
  <2> QED
    BY <1>1, <1>2, <1>4, <1>6, <2>1, <2>2, <2>3 DEF CopiesOnce
<1>12. RowsTyped' /\ WorkersTyped'
  BY <1>1, <1>2, <1>4, <1>5, <1>6 DEF RowsTyped, WorkersTyped
<1> QED
  BY <1>8, <1>9, <1>10, <1>11, <1>12 DEF CloudInv

-----------------------------------------------------------------------------
(* The plan worker                                                         *)

LEMMA RunRefused ==
  ASSUME CloudInv, RefuseRun
  PROVE  CloudInv'
<1>1. RowsTyped /\ WorkersTyped /\ PlansOrdered /\ CopiesOnce
  BY DEF CloudInv
<1>2. /\ runner' = Idle
      /\ UNCHANGED <<held, made, mount, mounts, catalog, logical, actions, plans, screen,
                     scan, alone>>
  BY DEF RefuseRun, OnlyPlans, clouds, Quiet
<1>3. MountsApart' /\ RowsMounted'
  BY <1>2, TablesStand
<1>4. runner'.pc = "idle"
  BY <1>2 DEF Idle
<1>5. PlansOrdered'
  BY <1>1, <1>2, <1>4 DEF PlansOrdered, Mounted, Begun
<1>6. RunOrdered' /\ CopiesOnce'
  BY <1>1, <1>2, <1>4 DEF RunOrdered, CopiesOnce, Begun
<1>7. RowsTyped' /\ WorkersTyped'
  BY <1>1, <1>2 DEF RowsTyped, WorkersTyped
<1> QED
  BY <1>3, <1>5, <1>6, <1>7 DEF CloudInv

LEMMA PlanStarted ==
  ASSUME CloudInv, BeginRun
  PROVE  CloudInv'
<1> DEFINE p == runner.plan
           T == {k \in ActionsOf(p) : actions[k].status = "AUTHORIZED"}
<1>1. RowsTyped /\ WorkersTyped /\ PlansOrdered /\ CopiesOnce
  BY DEF CloudInv
<1>2. /\ runner.pc = "start" /\ plans[p] = "AUTHORIZED"
      /\ plans' = [plans EXCEPT ![p] = "RUNNING"]
      /\ runner' = [pc |-> "next", plan |-> p, failed |-> FALSE,
                    key |-> NoKey, size |-> 0, todo |-> T]
      /\ UNCHANGED <<held, made, actions, mount, mounts, catalog, logical, screen,
                     scan, alone>>
  BY DEF BeginRun, OnlyPlans, clouds, Quiet
<1>3. p \in Plans
  BY <1>1, <1>2, RunnerKinds DEF Chosen
<1>4. /\ plans' \in [Plans -> PlanStatuses]
      /\ \A q \in Plans : plans'[q] = IF q = p THEN "RUNNING" ELSE plans[q]
  BY <1>1, <1>2, <1>3 DEF RowsTyped, PlanStatuses
<1>5. /\ T \in SUBSET Keys
      /\ \A k \in Keys : k \in T <=> actions[k].plan = p /\ actions[k].status = "AUTHORIZED"
  BY DEF ActionsOf
<1> HIDE DEF p, T
<1>6. /\ runner' \in Running /\ runner'.pc = "next" /\ runner'.plan = p
      /\ runner'.failed = FALSE /\ runner'.todo = T
  BY <1>2, <1>3, <1>5 DEF Running, Begun, Bytes
<1>7. \A k \in Keys : actions[k].plan = p => actions[k].status = "AUTHORIZED"
  BY <1>1, <1>2, <1>3 DEF PlansOrdered, NoAction, Plans
<1>8. MountsApart' /\ RowsMounted'
  BY <1>2, TablesStand
<1>9. PlansOrdered'
  <2>1. \A k \in Keys : actions'[k] # NoAction =>
          /\ actions'[k].plan \in Plans /\ actions'[k].status # "none"
          /\ \E l \in logical : l.item = k[1]
          /\ k[2] \in Mounted
          /\ plans'[actions'[k].plan] # "none"
          /\ plans'[actions'[k].plan] = "DRAFT" => actions'[k].status = "PROPOSED"
          /\ plans'[actions'[k].plan] = "AUTHORIZED" => actions'[k].status = "AUTHORIZED"
          /\ plans'[actions'[k].plan] = "COMPLETED" => actions'[k].status = "COMPLETED"
    BY <1>1, <1>2, <1>4 DEF PlansOrdered
  <2>2. Mounted' = Mounted /\ logical' = logical
    BY <1>2 DEF Mounted
  <2>3. screen = Idle
    BY <1>1, <1>2, RunnerKinds DEF PlansOrdered
  <2> QED
    BY <1>2, <1>3, <1>4, <1>6, <2>1, <2>2, <2>3 DEF PlansOrdered
<1>10. RunOrdered'
  BY <1>2, <1>5, <1>6, <1>7 DEF RunOrdered
<1>11. CopiesOnce'
  <2>1. \A k \in Keys : made[k] > 0 => actions[k].plan \in Plans
    BY <1>1 DEF CopiesOnce, PlansOrdered, NoAction
  <2> QED
    BY <1>1, <1>2, <1>4, <2>1 DEF CopiesOnce
<1>12. RowsTyped' /\ WorkersTyped'
  BY <1>1, <1>2, <1>4, <1>6 DEF RowsTyped, WorkersTyped
<1> QED
  BY <1>8, <1>9, <1>10, <1>11, <1>12 DEF CloudInv

LEMMA RunEnded ==
  ASSUME CloudInv, Interrupted \/ Finished
  PROVE  CloudInv'
<1> DEFINE p == runner.plan
<1>1. RowsTyped /\ WorkersTyped /\ PlansOrdered /\ RunOrdered /\ CopiesOnce
  BY DEF CloudInv
<1>2. PICK status \in {"PARTIAL", "COMPLETED"} :
        /\ runner.pc = "next"
        /\ status = "COMPLETED" => runner.todo = {} /\ ~runner.failed
        /\ EndRun(status)
  BY DEF Interrupted, Finished
<1>3. /\ plans' = [plans EXCEPT ![p] = status]
      /\ runner' = Idle
      /\ UNCHANGED <<held, made, actions, mount, mounts, catalog, logical, screen,
                     scan, alone>>
  BY <1>2 DEF EndRun, OnlyPlans, clouds, Quiet
<1>4. p \in Plans /\ runner.pc \in Begun /\ runner \in Running
  BY <1>1, <1>2, RunnerKinds DEF Running, Begun
<1>5. /\ plans' \in [Plans -> PlanStatuses]
      /\ \A q \in Plans : plans'[q] = IF q = p THEN status ELSE plans[q]
  BY <1>1, <1>3, <1>4 DEF RowsTyped, PlanStatuses
<1>6. status = "COMPLETED" =>
        \A k \in Keys : actions[k].plan = p => actions[k].status = "COMPLETED"
  BY <1>1, <1>2, <1>4 DEF RunOrdered
<1> HIDE DEF p
<1>7. MountsApart' /\ RowsMounted'
  BY <1>3, TablesStand
<1>8. runner'.pc = "idle"
  BY <1>3 DEF Idle
<1>9. PlansOrdered'
  <2>1. \A k \in Keys : actions'[k] # NoAction =>
          /\ actions'[k].plan \in Plans /\ actions'[k].status # "none"
          /\ \E l \in logical : l.item = k[1]
          /\ k[2] \in Mounted
          /\ plans'[actions'[k].plan] # "none"
          /\ plans'[actions'[k].plan] = "DRAFT" => actions'[k].status = "PROPOSED"
          /\ plans'[actions'[k].plan] = "AUTHORIZED" => actions'[k].status = "AUTHORIZED"
          /\ plans'[actions'[k].plan] = "COMPLETED" => actions'[k].status = "COMPLETED"
    BY <1>1, <1>3, <1>5, <1>6 DEF PlansOrdered
  <2>2. Mounted' = Mounted /\ logical' = logical
    BY <1>3 DEF Mounted
  <2>3. screen = Idle
    BY <1>1, <1>2, RunnerKinds DEF PlansOrdered
  <2> QED
    BY <1>3, <1>8, <2>1, <2>2, <2>3 DEF PlansOrdered, Begun
<1>10. RunOrdered'
  BY <1>8 DEF RunOrdered, Begun
<1>11. CopiesOnce'
  <2>1. \A k \in Keys : made[k] > 0 => actions[k].plan \in Plans
    BY <1>1 DEF CopiesOnce, PlansOrdered, NoAction
  <2> QED
    BY <1>1, <1>3, <1>5, <2>1 DEF CopiesOnce
<1>12. RowsTyped' /\ WorkersTyped'
  BY <1>1, <1>3, <1>5 DEF RowsTyped, WorkersTyped
<1> QED
  BY <1>7, <1>9, <1>10, <1>11, <1>12 DEF CloudInv

\* The worker sets the status of one of the actions of its plan.
LEMMA OwnActionSet ==
  ASSUME RowsTyped, WorkersTyped, PlansOrdered, runner.pc \in Begun,
         NEW key \in Keys, actions[key].plan = runner.plan,
         NEW status \in ActionStatuses \ {"none"}, SetActions({key}, status),
         UNCHANGED <<plans, mount, logical, screen>>,
         runner'.pc \in Begun, runner'.plan = runner.plan
  PROVE  /\ PlansOrdered'
         /\ actions' \in [Keys -> Action]
         /\ actions[key] # NoAction
         /\ \A k \in Keys :
              /\ actions'[k].plan = actions[k].plan
              /\ actions'[k].status = IF k = key THEN status ELSE actions[k].status
              /\ k # key => actions'[k] = actions[k]
<1>1. /\ actions' \in [Keys -> Action]
      /\ \A k \in Keys :
           /\ actions'[k].plan = actions[k].plan
           /\ actions'[k].status = IF k = key THEN status ELSE actions[k].status
           /\ k # key => actions'[k] = actions[k]
  <2>1. actions \in [Keys -> Action] /\ status \in ActionStatuses
    BY DEF RowsTyped
  <2>2. \A k : k \in {key} <=> k = key
    OBVIOUS
  <2> QED
    BY <2>1, <2>2, ActionsSet
<1>2. runner.plan \in Plans /\ plans[runner.plan] = "RUNNING"
  BY RunnerKinds DEF Running, PlansOrdered
<1>3. actions[key] # NoAction
  BY <1>2 DEF NoAction, Plans
<1>4. \A k \in Keys : actions'[k] # NoAction =>
        /\ actions'[k].plan \in Plans /\ actions'[k].status # "none"
        /\ \E l \in logical : l.item = k[1]
        /\ k[2] \in Mounted
        /\ plans[actions'[k].plan] # "none"
        /\ plans[actions'[k].plan] = "DRAFT" => actions'[k].status = "PROPOSED"
        /\ plans[actions'[k].plan] = "AUTHORIZED" => actions'[k].status = "AUTHORIZED"
        /\ plans[actions'[k].plan] = "COMPLETED" => actions'[k].status = "COMPLETED"
  BY <1>1, <1>2, <1>3 DEF PlansOrdered
<1>5. Mounted' = Mounted
  BY DEF Mounted
<1>6. screen = Idle
  BY RunnerKinds DEF PlansOrdered, Begun
<1>7. PlansOrdered'
  BY <1>2, <1>4, <1>5, <1>6 DEF PlansOrdered, Begun
<1> QED
  BY <1>1, <1>3, <1>7

LEMMA ActionTaken ==
  ASSUME CloudInv, TakeAction
  PROVE  CloudInv'
<1>1. RowsTyped /\ WorkersTyped /\ PlansOrdered /\ RunOrdered /\ CopiesOnce
  BY DEF CloudInv
<1>2. PICK k \in runner.todo :
        /\ runner.pc = "next"
        /\ SetActions({k}, "RUNNING")
        /\ runner' = [runner EXCEPT !.pc = "check", !.todo = @ \ {k}, !.key = k]
  BY DEF TakeAction
<1>3. UNCHANGED <<held, made, plans, mount, mounts, catalog, logical, screen, scan, alone>>
  BY DEF TakeAction, OnlyPlans, clouds, Quiet
<1>4. runner.pc \in Begun /\ runner \in Running /\ k \in Keys
  BY <1>1, <1>2, RunnerKinds DEF Running, Begun
<1>5. actions[k].plan = runner.plan /\ actions[k].status = "AUTHORIZED"
  BY <1>1, <1>4 DEF RunOrdered
<1>6. /\ runner' \in Running /\ runner'.pc = "check" /\ runner'.plan = runner.plan
      /\ runner'.failed = runner.failed /\ runner'.key = k
      /\ runner'.todo = runner.todo \ {k}
  BY <1>2, <1>4 DEF Running, Begun
<1>7. /\ PlansOrdered'
      /\ actions' \in [Keys -> Action]
      /\ \A j \in Keys :
           /\ actions'[j].plan = actions[j].plan
           /\ actions'[j].status = IF j = k THEN "RUNNING" ELSE actions[j].status
  BY <1>1, <1>2, <1>3, <1>4, <1>5, <1>6, OwnActionSet DEF ActionStatuses, Begun
<1>8. made[k] = 0
  BY <1>1, <1>4, <1>5 DEF CopiesOnce, RowsTyped
<1>9. RunOrdered'
  <2>1. \A j \in runner'.todo :
          actions'[j].plan = runner'.plan /\ actions'[j].status = "AUTHORIZED"
    BY <1>1, <1>4, <1>6, <1>7 DEF RunOrdered, Running
  <2>2. /\ runner'.key \in Keys /\ actions'[runner'.key].plan = runner'.plan
        /\ actions'[runner'.key].status = "RUNNING"
        /\ made'[runner'.key] = 0
    BY <1>3, <1>4, <1>5, <1>6, <1>7, <1>8
  <2>3. ~runner'.failed => \A j \in Keys : actions'[j].plan = runner'.plan =>
           actions'[j].status = "COMPLETED" \/ j \in runner'.todo \/ j = runner'.key
    BY <1>1, <1>2, <1>4, <1>6, <1>7 DEF RunOrdered
  <2> QED
    BY <1>6, <2>1, <2>2, <2>3 DEF RunOrdered
<1>10. CopiesOnce'
  BY <1>1, <1>3, <1>7, <1>8 DEF CopiesOnce
<1>11. MountsApart' /\ RowsMounted'
  BY <1>3, TablesStand
<1>12. RowsTyped' /\ WorkersTyped'
  BY <1>1, <1>3, <1>6, <1>7 DEF RowsTyped, WorkersTyped
<1> QED
  BY <1>7, <1>9, <1>10, <1>11, <1>12 DEF CloudInv

\* The action it was doing ends, after its copy when it has succeeded.
LEMMA ActionEnded ==
  ASSUME RowsTyped, WorkersTyped, PlansOrdered, RunOrdered, CopiesOnce,
         runner.pc \in {"check", "copy", "record"},
         NEW status \in {"COMPLETED", "ERROR"}, SetActions({runner.key}, status),
         NEW failed \in BOOLEAN, runner' = Resume(failed),
         failed = FALSE => status = "COMPLETED" /\ runner.failed = FALSE,
         made' \in [Keys -> Nat],
         \A k \in Keys \ {runner.key} : made'[k] = made[k],
         made'[runner.key] \in 0 .. 1,
         status = "COMPLETED" => made'[runner.key] = 1,
         UNCHANGED <<plans, mount, logical, screen>>
  PROVE  /\ PlansOrdered' /\ RunOrdered' /\ CopiesOnce'
         /\ actions' \in [Keys -> Action]
         /\ runner' \in Running
<1>1. runner.pc \in Begun /\ runner.pc # "next" /\ runner \in Running
  BY RunnerKinds DEF Begun
<1>2. /\ runner.key \in Keys /\ actions[runner.key].plan = runner.plan
      /\ actions[runner.key].status = "RUNNING"
  BY <1>1 DEF RunOrdered
<1>3. /\ runner' \in Running /\ runner'.pc = "next" /\ runner'.plan = runner.plan
      /\ runner'.failed = failed /\ runner'.todo = runner.todo
  BY <1>1, RunnerResumes
<1>4. /\ PlansOrdered'
      /\ actions' \in [Keys -> Action]
      /\ \A j \in Keys :
           /\ actions'[j].plan = actions[j].plan
           /\ actions'[j].status = IF j = runner.key THEN status ELSE actions[j].status
  <2> DEFINE key == runner.key
  <2>1. /\ key \in Keys /\ actions[key].plan = runner.plan /\ SetActions({key}, status)
        /\ status \in ActionStatuses \ {"none"} /\ runner'.pc \in Begun
    BY <1>2, <1>3 DEF ActionStatuses, Begun
  <2> HIDE DEF key
  <2>2. /\ PlansOrdered'
        /\ actions' \in [Keys -> Action]
        /\ \A j \in Keys :
             /\ actions'[j].plan = actions[j].plan
             /\ actions'[j].status = IF j = key THEN status ELSE actions[j].status
    BY <1>1, <1>3, <2>1, OwnActionSet
  <2> QED
    BY <2>2 DEF key
<1>5. RunOrdered'
  <2>1. \A j \in runner.todo : j # runner.key /\ j \in Keys
    BY <1>1, <1>2 DEF RunOrdered, Running
  <2>2. \A j \in runner'.todo :
          actions'[j].plan = runner'.plan /\ actions'[j].status = "AUTHORIZED"
    BY <1>1, <1>3, <1>4, <2>1 DEF RunOrdered
  <2>3. ~runner'.failed => \A j \in Keys : actions'[j].plan = runner'.plan =>
           actions'[j].status = "COMPLETED" \/ j \in runner'.todo
    BY <1>1, <1>3, <1>4 DEF RunOrdered
  <2> QED
    BY <1>3, <2>2, <2>3 DEF RunOrdered
<1>6. CopiesOnce'
  <2>1. plans[runner.plan] = "RUNNING"
    BY <1>1 DEF PlansOrdered
  <2> SUFFICES ASSUME NEW k \in Keys
               PROVE  /\ made'[k] <= 1
                      /\ made'[k] > 0 =>
                           /\ actions'[k].status \in {"RUNNING", "COMPLETED", "ERROR"}
                           /\ plans[actions'[k].plan] \in {"RUNNING", "PARTIAL", "COMPLETED"}
                      /\ actions'[k].status = "COMPLETED" => made'[k] > 0
    BY DEF CopiesOnce
  <2>2. CASE k = runner.key
    BY <1>2, <1>4, <2>1, <2>2
  <2>3. CASE k # runner.key
    BY <1>4, <2>3 DEF CopiesOnce
  <2> QED
    BY <2>2, <2>3
<1> QED
  BY <1>3, <1>4, <1>5, <1>6

LEMMA ActionFailed ==
  ASSUME CloudInv, runner.pc \in {"check", "copy"}, ActionFails, UNCHANGED clouds
  PROVE  CloudInv'
<1>1. RowsTyped /\ WorkersTyped /\ PlansOrdered /\ RunOrdered /\ CopiesOnce
  BY DEF CloudInv
<1>2. /\ SetActions({runner.key}, "ERROR") /\ runner' = Resume(TRUE)
      /\ UNCHANGED <<held, made, plans, mount, mounts, catalog, logical, screen, scan, alone>>
  BY DEF ActionFails, OnlyPlans, clouds, Quiet
<1>3. /\ made' \in [Keys -> Nat] /\ \A k \in Keys : made'[k] = made[k]
      /\ made'[runner.key] \in 0 .. 1
  BY <1>1, <1>2 DEF RowsTyped, RunOrdered, Begun
<1>4. /\ PlansOrdered' /\ RunOrdered' /\ CopiesOnce'
      /\ actions' \in [Keys -> Action] /\ runner' \in Running
  BY <1>1, <1>2, <1>3, ActionEnded
<1>5. MountsApart' /\ RowsMounted'
  BY <1>2, TablesStand
<1>6. RowsTyped' /\ WorkersTyped'
  BY <1>1, <1>2, <1>4 DEF RowsTyped, WorkersTyped
<1> QED
  BY <1>4, <1>5, <1>6 DEF CloudInv

LEMMA TargetChecked ==
  ASSUME CloudInv, CheckTarget
  PROVE  CloudInv'
<1>1. RowsTyped /\ WorkersTyped /\ PlansOrdered /\ RunOrdered /\ CopiesOnce
  BY DEF CloudInv
<1>2. runner.pc = "check" /\ runner.pc \in Begun /\ runner \in Running
  BY <1>1, RunnerKinds DEF CheckTarget, Begun
<1>3. CASE NameTaken
  BY <1>3, ActionFailed DEF CheckTarget
<1>4. CASE ~NameTaken
  <2>1. /\ runner' = [runner EXCEPT !.pc = "copy", !.size = catalog[Source].body]
        /\ UNCHANGED <<held, made, actions, plans, mount, mounts, catalog, logical,
                       screen, scan, alone>>
    BY <1>4 DEF CheckTarget, OnlyPlans, clouds, Quiet
  <2>2. catalog[Source].body \in Bytes
    <3>1. runner.key \in Keys
      BY <1>1, <1>2 DEF RunOrdered
    <3>2. Source \in Items
      BY <3>1 DEF Source, Keys
    <3> QED
      BY <1>1, <3>2 DEF RowsTyped, Node
  <2>3. /\ runner' \in Running /\ runner'.pc = "copy" /\ runner'.plan = runner.plan
        /\ runner'.failed = runner.failed /\ runner'.key = runner.key
        /\ runner'.todo = runner.todo
    BY <1>2, <2>1, <2>2 DEF Running, Begun
  <2>4. screen = Idle
    BY <1>1, <1>2, RunnerKinds DEF PlansOrdered
  <2>5. PlansOrdered'
    BY <1>1, <1>2, <2>1, <2>3, <2>4 DEF PlansOrdered, Mounted, Begun
  <2>6. RunOrdered' /\ CopiesOnce'
    BY <1>1, <1>2, <2>1, <2>3 DEF RunOrdered, CopiesOnce
  <2>7. MountsApart' /\ RowsMounted'
    BY <2>1, TablesStand
  <2>8. RowsTyped' /\ WorkersTyped'
    BY <1>1, <2>1, <2>3 DEF RowsTyped, WorkersTyped
  <2> QED
    BY <2>5, <2>6, <2>7, <2>8 DEF CloudInv
<1> QED
  BY <1>3, <1>4

LEMMA CopyRecorded ==
  ASSUME CloudInv, Record
  PROVE  CloudInv'
<1>1. RowsTyped /\ WorkersTyped /\ PlansOrdered /\ RunOrdered /\ CopiesOnce
  BY DEF CloudInv
<1>2. /\ runner.pc = "record" /\ SetActions({runner.key}, "COMPLETED")
      /\ runner' = Resume(runner.failed)
      /\ UNCHANGED <<held, made, plans, mount, mounts, catalog, logical, screen, scan, alone>>
  BY DEF Record, OnlyPlans, clouds, Quiet
<1>3. /\ made' \in [Keys -> Nat] /\ \A k \in Keys : made'[k] = made[k]
      /\ made'[runner.key] = 1 /\ made'[runner.key] \in 0 .. 1
  BY <1>1, <1>2 DEF RowsTyped, RunOrdered, Begun
<1>4. runner.failed \in BOOLEAN
  BY <1>1, <1>2, RunnerKinds DEF Running, Begun
<1>5. /\ PlansOrdered' /\ RunOrdered' /\ CopiesOnce'
      /\ actions' \in [Keys -> Action] /\ runner' \in Running
  BY <1>1, <1>2, <1>3, <1>4, ActionEnded
<1>6. MountsApart' /\ RowsMounted'
  BY <1>2, TablesStand
<1>7. RowsTyped' /\ WorkersTyped'
  BY <1>1, <1>2, <1>5 DEF RowsTyped, WorkersTyped
<1> QED
  BY <1>5, <1>6, <1>7 DEF CloudInv

\* An upload makes one copy more of the action's file.
LEMMA Uploaded ==
  ASSUME RowsTyped, WorkersTyped, RunOrdered, runner.pc = "copy", Upload
  PROVE  /\ held' \in [Items -> Held]
         /\ made' \in [Keys -> Nat]
         /\ \A k \in Keys \ {runner.key} : made'[k] = made[k]
         /\ made'[runner.key] = 1 /\ made'[runner.key] \in 0 .. 1
         /\ alone' \subseteq alone
<1>1. runner.key \in Keys /\ made[runner.key] = 0
  BY DEF RunOrdered, Begun
<1>2. Source \in Items /\ Target \in Roots
  BY <1>1 DEF Source, Target, Keys
<1>3. held[Source].body \in Bytes /\ actions[runner.key].path \in Words
  BY <1>1, <1>2 DEF RowsTyped, Held, Action
<1>4. ASSUME NEW i \in Items, NEW n \in Words, Put(i, Target, n, held[Source].body)
      PROVE  held' \in [Items -> Held]
  <2>1. [root |-> Target, name |-> n, body |-> held[Source].body] \in Held
    BY <1>2, <1>3 DEF Held
  <2> QED
    BY <1>4, <2>1 DEF Put, RowsTyped
<1>5. held' \in [Items -> Held]
  <2>1. ASSUME NEW i \in In(Target), Put(i, Target, held[i].name, held[Source].body)
        PROVE  held' \in [Items -> Held]
    <3>1. i \in Items /\ held[i].name \in Words
      BY DEF In, RowsTyped, Held
    <3> QED
      BY <1>4, <2>1, <3>1
  <2>2. ASSUME Unused # {},
               Put(SmallestOf(Unused), Target, actions[runner.key].path, held[Source].body)
        PROVE  held' \in [Items -> Held]
    BY <1>3, <1>4, <2>2, NothingUnused
  <2> QED
    BY <2>1, <2>2 DEF Upload
<1>6. made' = [made EXCEPT ![runner.key] = @ + 1] /\ alone' \subseteq alone
  BY DEF Upload
<1> QED
  BY <1>1, <1>5, <1>6 DEF RowsTyped

LEMMA CopyMade ==
  ASSUME CloudInv, Copy
  PROVE  CloudInv'
<1>1. RowsTyped /\ WorkersTyped /\ PlansOrdered /\ RunOrdered /\ CopiesOnce
  BY DEF CloudInv
<1>2. runner.pc = "copy" /\ runner.pc \in Begun /\ runner \in Running
  BY <1>1, RunnerKinds DEF Copy, Begun
<1>3. CASE ActionFails /\ UNCHANGED clouds
  BY <1>2, <1>3, ActionFailed
<1>4. CASE /\ Upload
           /\ \/ runner' = [runner EXCEPT !.pc = "record"] /\ UNCHANGED actions
              \/ SetActions({runner.key}, "ERROR") /\ runner' = Resume(TRUE)
           /\ UNCHANGED <<edits, plans>> /\ OnlyPlans
  <2>1. UNCHANGED <<plans, mount, mounts, catalog, logical, screen, scan>>
    BY <1>4 DEF OnlyPlans
  <2>2. /\ held' \in [Items -> Held]
        /\ made' \in [Keys -> Nat]
        /\ \A k \in Keys \ {runner.key} : made'[k] = made[k]
        /\ made'[runner.key] = 1 /\ made'[runner.key] \in 0 .. 1
        /\ alone' \subseteq alone
    BY <1>1, <1>2, <1>4, Uploaded
  <2>3. /\ PlansOrdered' /\ RunOrdered' /\ CopiesOnce'
        /\ actions' \in [Keys -> Action] /\ runner' \in Running
    <3>1. CASE SetActions({runner.key}, "ERROR") /\ runner' = Resume(TRUE)
      BY <1>1, <1>2, <2>1, <2>2, <3>1, ActionEnded
    <3>2. CASE runner' = [runner EXCEPT !.pc = "record"] /\ UNCHANGED actions
      <4>1. /\ runner' \in Running /\ runner'.pc = "record" /\ runner'.plan = runner.plan
            /\ runner'.failed = runner.failed /\ runner'.key = runner.key
            /\ runner'.todo = runner.todo
        BY <1>2, <3>2 DEF Running, Begun
      <4>2. screen = Idle
        BY <1>1, <1>2, RunnerKinds DEF PlansOrdered
      <4>3. PlansOrdered'
        BY <1>1, <1>2, <2>1, <3>2, <4>1, <4>2 DEF PlansOrdered, Mounted, Begun
      <4>4. RunOrdered'
        BY <1>1, <1>2, <2>2, <3>2, <4>1 DEF RunOrdered
      <4>5. CopiesOnce'
        <5>1. /\ runner.key \in Keys /\ actions[runner.key].plan = runner.plan
              /\ actions[runner.key].status = "RUNNING" /\ plans[runner.plan] = "RUNNING"
          BY <1>1, <1>2 DEF RunOrdered, PlansOrdered
        <5> QED
          BY <1>1, <2>1, <2>2, <3>2, <5>1 DEF CopiesOnce
      <4>6. actions' \in [Keys -> Action]
        BY <1>1, <3>2 DEF RowsTyped
      <4> QED
        BY <4>1, <4>3, <4>4, <4>5, <4>6
    <3> QED
      BY <1>4, <3>1, <3>2
  <2>4. MountsApart' /\ RowsMounted'
    BY <2>1, <2>2, TablesStand
  <2>5. RowsTyped' /\ WorkersTyped'
    BY <1>1, <2>1, <2>2, <2>3 DEF RowsTyped, WorkersTyped
  <2> QED
    BY <2>3, <2>4, <2>5 DEF CloudInv
<1> QED
  BY <1>3, <1>4 DEF Copy

-----------------------------------------------------------------------------
(* Every copy is made once and accounted for                               *)

LEMMA ProcessDied ==
  ASSUME CloudInv, ProcessDies
  PROVE  CloudInv'
<1>1. RowsTyped /\ WorkersTyped /\ MountsApart /\ RowsMounted /\ PlansOrdered /\ CopiesOnce
  BY DEF CloudInv
<1>2. /\ scan' = [v \in Scanners |-> Idle] /\ runner' = Idle /\ screen' = Idle
      /\ UNCHANGED <<held, made, mount, mounts, catalog, logical, actions, plans, alone>>
  BY DEF ProcessDies, clouds, tables
<1>3. \A v \in Scanners : scan'[v].pc = "idle"
  BY <1>2 DEF Idle
<1>4. MountsApart'
  BY <1>1, <1>2, <1>3 DEF MountsApart, ScanningIn, Mounted
<1>5. RowsMounted'
  BY <1>1, <1>2, <1>3 DEF RowsMounted, IsMounted
<1>6. runner'.pc = "idle"
  BY <1>2 DEF Idle
<1>7. PlansOrdered'
  BY <1>1, <1>2, <1>6 DEF PlansOrdered, Mounted, Begun
<1>8. RunOrdered' /\ CopiesOnce'
  BY <1>1, <1>2, <1>6 DEF RunOrdered, CopiesOnce, Begun
<1>9. RowsTyped'
  BY <1>1, <1>2 DEF RowsTyped
<1>10. WorkersTyped'
  BY <1>2 DEF WorkersTyped, ScanRow
<1> QED
  BY <1>4, <1>5, <1>7, <1>8, <1>9, <1>10 DEF CloudInv

LEMMA CloudsInit ==
  ASSUME MulticloudInit
  PROVE  CloudInv
<1>1. PICK f \in [1 .. Cardinality(InitialItems) -> InitialItems] :
        held = [i \in Items |->
           IF i \in DOMAIN f THEN [root |-> f[i][1], name |-> f[i][2], body |-> 1] ELSE NoItem]
  BY DEF MulticloudInit
<1>2. held \in [Items -> Held]
  <2>1. \A x \in InitialItems : x[1] \in Roots /\ x[2] \in FileNames
    BY MulticloudAssumption
  <2>2. NoItem \in Held
    BY DEF NoItem, Held, Words, Bytes
  <2>3. \A i \in DOMAIN f : [root |-> f[i][1], name |-> f[i][2], body |-> 1] \in Held
    BY <2>1 DEF Held, Words, Bytes
  <2> QED
    BY <1>1, <2>2, <2>3
<1>3. /\ mount = [r \in Roots |-> NotMounted] /\ mounts = 0
      /\ catalog = [i \in Items |-> NoNode] /\ logical = {}
      /\ actions = [k \in Keys |-> NoAction] /\ plans = [p \in Plans |-> "none"]
      /\ screen = Idle /\ scan = [v \in Scanners |-> Idle] /\ runner = Idle
      /\ made = [k \in Keys |-> 0] /\ alone = {}
  BY DEF MulticloudInit
<1>4. RowsTyped
  BY <1>2, <1>3 DEF RowsTyped, NotMounted, MountRow, MountStatuses, NoNode, Node, Words,
     Bytes, NoAction, Action, ActionStatuses, PlanStatuses
<1>5. WorkersTyped
  BY <1>3 DEF WorkersTyped, ScanRow
<1>6. MountsApart /\ RowsMounted
  BY <1>3 DEF MountsApart, RowsMounted, NotMounted, ScanningIn, Idle
<1>7. PlansOrdered /\ RunOrdered /\ CopiesOnce
  BY <1>3 DEF PlansOrdered, RunOrdered, CopiesOnce, Idle, Begun, NoAction
<1> QED
  BY <1>4, <1>5, <1>6, <1>7 DEF CloudInv

LEMMA CloudsStep ==
  ASSUME CloudInv, [MulticloudNext]_multicloudVars
  PROVE  CloudInv'
<1>1. CASE UNCHANGED multicloudVars
  <2>1. UNCHANGED <<held, mount, mounts, catalog, logical, actions, plans, screen,
                    scan, runner, made, alone>>
    BY <1>1 DEF multicloudVars
  <2>2. MountsApart' /\ RowsMounted'
    BY <2>1, TablesStand
  <2>3. PlansOrdered' /\ RunOrdered' /\ CopiesOnce'
    BY <2>1 DEF CloudInv, PlansOrdered, RunOrdered, CopiesOnce, Mounted
  <2> QED
    BY <2>1, <2>2, <2>3 DEF CloudInv, RowsTyped, WorkersTyped
<1>2. CASE \E r \in Roots : UserChanges(r) \/ Unmount(r)
  BY <1>2, CloudsChanged, FolderUnmounted
<1>3. ASSUME NEW v \in Scanners, Scan(v)
      PROVE  CloudInv'
  <2>1. CASE BeginScan(v)
    BY <2>1, ScanBegun
  <2>2. CASE RefuseScan(v)
    BY <2>2, ScanRefused
  <2>3. CASE ListChildren(v)
    BY <2>3, ChildrenListed
  <2>4. CASE ListFails(v)
    BY <2>4, ScanFailing DEF ListFails, ScanningIn
  <2>5. CASE SaveOne(v)
    BY <2>5, OneSaved
  <2>6. CASE MarkMissing(v)
    BY <2>6, MissingRowsMarked
  <2>7. CASE ReadNodes(v)
    BY <2>7, NodesRead
  <2>8. CASE Rebuild(v)
    BY <2>8, Rebuilt
  <2>9. CASE EndScan(v)
    BY <2>9, ScanEnded
  <2> QED
    BY <1>3, <2>1, <2>2, <2>3, <2>4, <2>5, <2>6, <2>7, <2>8, <2>9 DEF Scan
<1>4. CASE \E v \in Scanners, r \in Roots : Mount(v, r) \/ PressScan(v, r)
  BY <1>4, FolderMounted, ScanPressed
<1>5. CASE BuildPlan \/ PlanObject \/ ShowPlan \/ Refuse \/ Authorize
  BY <1>5, PlanBegun, ObjectPlanned, PlanShown, PlanAuthorized
<1>6. CASE Run
  <2>1. CASE ProviderFails
    BY <2>1, ActionFailed DEF ProviderFails
  <2> QED
    BY <1>6, <2>1, PlanStarted, RunRefused, ActionTaken, TargetChecked, CopyMade,
       CopyRecorded, RunEnded DEF Run
<1>7. CASE ProcessDies
  BY <1>7, ProcessDied
<1> QED
  BY <1>1, <1>2, <1>3, <1>4, <1>5, <1>6, <1>7 DEF MulticloudNext

LEMMA CloudsAccounted ==
  ASSUME CloudInv
  PROVE  CopiesAccounted
<1>1. RowsTyped /\ MountsApart /\ RowsMounted /\ PlansOrdered /\ CopiesOnce
  BY DEF CloudInv
<1>2. MulticloudTypeOK
  <2>1. \A r \in Roots : mount[r] = NotMounted \/
          (mount[r].id \in 1 .. mounts /\ mount[r].status \in {"ACTIVE", "SCANNING", "ERROR"})
    BY <1>1 DEF RowsTyped, MountsApart, MountRow, MountStatuses
  <2>2. \A i \in Items : catalog[i] # NoNode =>
          IsMounted(catalog[i].mid) /\ catalog[i].status \in {"ACTIVE", "MISSING"}
    BY <1>1 DEF RowsTyped, RowsMounted, Node
  <2>3. \A l \in logical : catalog[l.item] # NoNode
    BY <1>1 DEF RowsMounted
  <2>4. \A k \in Keys : actions[k] # NoAction =>
          /\ actions[k].plan \in Plans /\ plans[actions[k].plan] # "none"
          /\ actions[k].status \in {"PROPOSED", "AUTHORIZED", "RUNNING", "COMPLETED", "ERROR"}
          /\ \E l \in logical : l.item = k[1]
          /\ k[2] \in Mounted
    BY <1>1 DEF RowsTyped, PlansOrdered, Action, ActionStatuses
  <2>5. \A p \in Plans :
          plans[p] \in {"none", "DRAFT", "AUTHORIZED", "RUNNING", "PARTIAL", "COMPLETED"}
    BY <1>1 DEF RowsTyped, PlanStatuses
  <2> QED
    BY <2>1, <2>2, <2>3, <2>4, <2>5 DEF MulticloudTypeOK
<1>3. OneCopyEach
  BY <1>1 DEF OneCopyEach, CopiesOnce
<1>4. \A k \in Keys :
        actions[k] # NoAction /\ plans[actions[k].plan] = "COMPLETED"
          => actions[k].status = "COMPLETED"
  BY <1>1 DEF PlansOrdered
<1> QED
  BY <1>1, <1>2, <1>3, <1>4 DEF CopiesAccounted, CopiesOnce

LEMMA CloudsInvariant == MulticloudSpec => []CloudInv
<1>1. MulticloudInit => CloudInv
  BY CloudsInit
<1>2. CloudInv /\ [MulticloudNext]_multicloudVars => CloudInv'
  BY CloudsStep
<1> QED
  BY <1>1, <1>2, PTL DEF MulticloudSpec

(***************************************************************************)
(* The program copies a file to a mount once at most, only what the user   *)
(* has authorized, and says COMPLETED of what it has copied, for any       *)
(* clouds, scans and plans and wherever the process dies.                  *)
(***************************************************************************)
THEOREM EveryCopyAccounted == MulticloudSpec => []CopiesAccounted
<1>1. CloudInv => CopiesAccounted
  BY CloudsAccounted
<1> QED
  BY <1>1, CloudsInvariant, PTL

-----------------------------------------------------------------------------
(* The mirror equals the folder                                            *)

LEMMA ItemPut ==
  ASSUME RowsTyped, NEW q,
         \E i \in Items : \E x : /\ held[i].root \in {q, NoRoot} /\ x.root \in {q, NoRoot}
                                 /\ held' = [held EXCEPT ![i] = x]
  PROVE  \A j \in Items : \/ held'[j] = held[j]
                          \/ held[j].root \in {q, NoRoot} /\ held'[j].root \in {q, NoRoot}
<1>1. PICK i \in Items : \E x : /\ held[i].root \in {q, NoRoot} /\ x.root \in {q, NoRoot}
                                 /\ held' = [held EXCEPT ![i] = x]
  OBVIOUS
<1>2. PICK x : /\ held[i].root \in {q, NoRoot} /\ x.root \in {q, NoRoot}
               /\ held' = [held EXCEPT ![i] = x]
  BY <1>1
<1>3. \A j \in Items : held'[j] = IF j = i THEN x ELSE held[j]
  BY <1>2 DEF RowsTyped
<1> QED
  BY <1>2, <1>3

UpToDate(i, mid) ==
  catalog[i] = [mid |-> mid, name |-> held[i].name, body |-> held[i].body,
                status |-> "ACTIVE"]

Catalogued(r) ==
  \A i \in Items :
    IF i \in In(r) THEN UpToDate(i, mount[r].id)
    ELSE ~(catalog[i].mid = mount[r].id /\ catalog[i].status = "ACTIVE")

Entry(i) == [item |-> i, name |-> held[i].name, body |-> held[i].body]
ReplicaOf(i) == [item |-> i, path |-> held[i].name, body |-> held[i].body]

Grouped(r) ==
  /\ \A l \in logical : catalog[l.item].mid = mount[r].id =>
       l.item \in In(r) /\ l = ReplicaOf(l.item)
  /\ \A i \in In(r) : ReplicaOf(i) \in logical

\* What a scan of any folder has read of this one is what it holds.
Snapped(v, r) ==
  scan[v].pc = "rebuild" =>
    /\ \A f \in scan[v].found : f.node.mid = mount[r].id => f.item \in In(r)
    /\ \A f \in scan[v].found : f.item \in In(r) =>
         f.node = [mid |-> mount[r].id, name |-> held[f.item].name,
                   body |-> held[f.item].body, status |-> "ACTIVE"]
    /\ \A i \in In(r) : \E f \in scan[v].found : f.item = i

\* A scan of this folder that has met no other, at each of its stages.
ScanAlone(v, r) ==
  /\ ScanningNow = {v}
  /\ scan[v].root = r /\ mount[r].id = scan[v].mid /\ mount[r].status = "SCANNING"
  /\ scan[v].pc = "list" => Nodes(scan[v].mid) \subseteq scan[v].unseen
  /\ scan[v].pc = "save" =>
       /\ \A f \in scan[v].found : f.item \in In(r) /\ f = Entry(f.item)
       /\ \A i \in In(r) :
            \/ Entry(i) \in scan[v].found
            \/ i \notin scan[v].unseen /\ UpToDate(i, scan[v].mid)
       /\ \A i \in Nodes(scan[v].mid) :
            i \in scan[v].unseen \/ i \in In(r)
  /\ scan[v].pc \in {"read", "rebuild", "end"} => Catalogued(r)
  /\ Snapped(v, r)
  /\ scan[v].pc = "end" => Grouped(r)

Mirrored(r) ==
  /\ \A v \in ScanningNow : scan[v].root = r => ScanAlone(v, r)
  /\ \A v \in Scanners : scan[v].pc = "save" /\ scan[v].root # r =>
       \A f \in scan[v].found : f.item \notin In(r)
  /\ mount[r].status = "ACTIVE" =>
       Catalogued(r) /\ Grouped(r) /\ \A v \in Scanners : Snapped(v, r)

MirrorInv == \A r \in alone : Mirrored(r)

LEMMA RowUpToDate ==
  ASSUME NEW i, NEW mid, UpToDate(i, mid)
  PROVE  /\ catalog[i].mid = mid /\ catalog[i].name = held[i].name
         /\ catalog[i].body = held[i].body /\ catalog[i].status = "ACTIVE"
BY DEF UpToDate

\* The rows of a folder stand when those of other mounts change.
LEMMA MirrorRows ==
  ASSUME NEW r \in Roots,
         UNCHANGED In(r), \A i \in In(r) : held'[i] = held[i],
         mount'[r].id = mount[r].id,
         \A i \in Items : catalog[i].mid = mount[r].id \/ catalog'[i].mid = mount[r].id
           => catalog'[i] = catalog[i],
         \A l : (l \in logical /\ catalog[l.item].mid = mount[r].id)
                <=> (l \in logical' /\ catalog'[l.item].mid = mount[r].id)
  PROVE  /\ Catalogued(r) => Catalogued(r)'
         /\ Catalogued(r) /\ Grouped(r) => Grouped(r)'
<1>1. \A i \in In(r) : i \in Items
  BY DEF In
<1>2. \A i \in In(r) : \A mid : mid = mount[r].id => (UpToDate(i, mid) => UpToDate(i, mid)')
  BY <1>1 DEF UpToDate
<1>3. Catalogued(r) => Catalogued(r)'
  BY <1>1, <1>2 DEF Catalogued
<1>4. Catalogued(r) /\ Grouped(r) => Grouped(r)'
  <2> SUFFICES ASSUME Catalogued(r), Grouped(r)
               PROVE  Grouped(r)'
    OBVIOUS
  <2>1. \A i \in In(r) : ReplicaOf(i)' = ReplicaOf(i)
    BY DEF ReplicaOf
  <2>2. \A l \in logical' : catalog'[l.item].mid = mount'[r].id =>
          l.item \in In(r) /\ l = ReplicaOf(l.item)
    BY DEF Grouped
  <2>3. \A l \in logical' : catalog'[l.item].mid = mount'[r].id =>
          l.item \in In(r)' /\ l = ReplicaOf(l.item)'
    BY <2>1, <2>2 DEF ReplicaOf
  <2>4. \A i \in In(r) : catalog[i].mid = mount[r].id /\ ReplicaOf(i).item = i
    <3>1. \A i \in In(r) : UpToDate(i, mount[r].id)
      BY <1>1 DEF Catalogued
    <3>2. \A i \in In(r) : catalog[i].mid = mount[r].id
      BY <3>1, RowUpToDate
    <3>3. \A i \in In(r) : ReplicaOf(i).item = i
      BY DEF ReplicaOf
    <3> QED
      BY <3>2, <3>3
  <2>5. \A i \in In(r) : ReplicaOf(i) \in logical'
    BY <2>4 DEF Grouped
  <2>6. \A i \in In(r)' : ReplicaOf(i)' \in logical'
    BY <2>1, <2>5
  <2> QED
    BY <2>3, <2>6 DEF Grouped
<1> QED
  BY <1>3, <1>4

\* What happens to other folders, to their rows and to plans.
LEMMA MirrorStands ==
  ASSUME CloudInv, NEW r \in alone, Mirrored(r),
         UNCHANGED In(r), \A i \in In(r) : held'[i] = held[i],
         mount'[r] = mount[r],
         \A i \in Items : catalog[i].mid = mount[r].id \/ catalog'[i].mid = mount[r].id
           => catalog'[i] = catalog[i],
         \A l : (l \in logical /\ catalog[l.item].mid = mount[r].id)
                <=> (l \in logical' /\ catalog'[l.item].mid = mount[r].id),
         UNCHANGED ScanningNow, \A v \in ScanningNow : scan'[v] = scan[v]
  PROVE  Mirrored(r)'
<1>1. RowsTyped /\ MountsApart
  BY DEF CloudInv
<1>2. \A i \in In(r) : i \in Items
  BY DEF In
<1>3. \A i \in In(r) : \A mid : mid = mount[r].id => (UpToDate(i, mid) => UpToDate(i, mid)')
  BY <1>2 DEF UpToDate
<1>4. r \in Roots
  BY <1>1 DEF RowsTyped
<1>5. (Catalogued(r) => Catalogued(r)') /\ (Catalogued(r) /\ Grouped(r) => Grouped(r)')
  BY <1>4, MirrorRows
<1>6. \A v \in Scanners : ScanningIn(v) => scan'[v] = scan[v]
  BY DEF ScanningNow
<1>7. \A v \in Scanners : ScanningIn(v)' <=> ScanningIn(v)
  BY DEF ScanningNow
<1>8. ASSUME NEW v \in Scanners, Snapped(v, r)
      PROVE  Snapped(v, r)'
  <2>1. scan'[v].pc = "rebuild" => scan'[v] = scan[v]
    BY <1>6, <1>7 DEF ScanningIn
  <2> QED
    BY <1>8, <2>1 DEF Snapped
<1>9. ASSUME NEW v \in ScanningNow, scan[v].root = r, ScanAlone(v, r)
      PROVE  ScanAlone(v, r)'
  <2>1. v \in Scanners /\ scan'[v] = scan[v]
    BY DEF ScanningNow
  <2>2. mount[r].id = scan[v].mid
    BY <1>9 DEF ScanAlone
  <2>3. \A i \in Items : i \in Nodes(scan[v].mid)' <=> i \in Nodes(scan[v].mid)
    BY <2>1, <2>2 DEF Nodes
  <2>4. \A i \in In(r) : Entry(i)' = Entry(i)
    BY DEF Entry
  <2>5. scan'[v].pc = "list" => Nodes(scan[v].mid)' \subseteq scan'[v].unseen
    BY <1>9, <2>1, <2>3 DEF ScanAlone, Nodes
  <2>6. scan'[v].pc = "save" =>
          /\ \A f \in scan'[v].found : f.item \in In(r) /\ f = Entry(f.item)
          /\ \A i \in In(r) :
               \/ Entry(i) \in scan'[v].found
               \/ i \notin scan'[v].unseen /\ UpToDate(i, scan[v].mid)
          /\ \A i \in Nodes(scan[v].mid) : i \in scan'[v].unseen \/ i \in In(r)
    BY <1>9, <2>1 DEF ScanAlone
  <2>7. scan'[v].pc = "save" =>
          /\ \A f \in scan'[v].found : f.item \in In(r)' /\ f = Entry(f.item)'
          /\ \A i \in In(r)' :
               \/ Entry(i)' \in scan'[v].found
               \/ i \notin scan'[v].unseen /\ UpToDate(i, scan[v].mid)'
          /\ \A i \in Nodes(scan[v].mid)' : i \in scan'[v].unseen \/ i \in In(r)'
    <3> SUFFICES ASSUME scan'[v].pc = "save"
                 PROVE  /\ \A f \in scan'[v].found : f.item \in In(r)' /\ f = Entry(f.item)'
                        /\ \A i \in In(r)' :
                             \/ Entry(i)' \in scan'[v].found
                             \/ i \notin scan'[v].unseen /\ UpToDate(i, scan[v].mid)'
                        /\ \A i \in Nodes(scan[v].mid)' : i \in scan'[v].unseen \/ i \in In(r)'
      OBVIOUS
    <3>1. \A f \in scan'[v].found : f.item \in In(r)' /\ f = Entry(f.item)'
      BY <2>4, <2>6 DEF Entry
    <3>2. \A i \in In(r)' :
             \/ Entry(i)' \in scan'[v].found
             \/ i \notin scan'[v].unseen /\ UpToDate(i, scan[v].mid)'
      BY <1>3, <2>2, <2>4, <2>6
    <3>3. \A i \in Nodes(scan[v].mid)' : i \in scan'[v].unseen \/ i \in In(r)'
      BY <2>3, <2>6 DEF Nodes
    <3> QED
      BY <3>1, <3>2, <3>3
  <2>8. scan'[v].pc \in {"read", "rebuild", "end"} => Catalogued(r)'
    BY <1>5, <1>9, <2>1 DEF ScanAlone
  <2>9. Snapped(v, r)'
    BY <1>8, <1>9, <2>1 DEF ScanAlone
  <2>10. scan'[v].pc = "end" => Grouped(r)'
    BY <1>5, <1>9, <2>1 DEF ScanAlone
  <2> QED
    BY <1>9, <2>1, <2>5, <2>7, <2>8, <2>9, <2>10 DEF ScanAlone, Nodes, UpToDate
<1>10. \A v \in ScanningNow' : scan'[v].root = r => ScanAlone(v, r)'
  BY <1>9 DEF Mirrored
<1>11. \A v \in Scanners : scan'[v].pc = "save" /\ scan'[v].root # r =>
         \A f \in scan'[v].found : f.item \notin In(r)'
  <2>1. \A v \in Scanners : scan'[v].pc = "save" => scan'[v] = scan[v]
    BY <1>6, <1>7 DEF ScanningIn
  <2> QED
    BY <2>1 DEF Mirrored
<1>12. mount'[r].status = "ACTIVE" =>
         Catalogued(r)' /\ Grouped(r)' /\ \A v \in Scanners : Snapped(v, r)'
  BY <1>5, <1>8 DEF Mirrored
<1> QED
  BY <1>10, <1>11, <1>12 DEF Mirrored

\* Steps of a scan of another folder.
LEMMA MirrorElsewhere ==
  ASSUME CloudInv, NEW v \in Scanners, ScanningIn(v), NEW r \in alone, Mirrored(r),
         scan[v].root # r, UNCHANGED held, mount'[r] = mount[r],
         \A u \in Scanners \ {v} : scan'[u] = scan[u] \/
           /\ scan'[u].pc = scan[u].pc
           /\ scan'[u].root = scan[u].root /\ scan'[u].found = scan[u].found,
         ScanningIn(v)' => scan'[v].root = scan[v].root,
         scan'[v].pc = "save" => \A f \in scan'[v].found : f.item \notin In(r),
         mount[r].status = "ACTIVE" => Catalogued(r)' /\ Grouped(r)' /\ Snapped(v, r)'
  PROVE  Mirrored(r)'
<1>1. \A u \in Scanners \ {v} : /\ scan'[u].pc = scan[u].pc
                                /\ scan'[u].root = scan[u].root
                                /\ scan'[u].found = scan[u].found
  OBVIOUS
<1>2. In(r)' = In(r)
  BY DEF In
<1>3. \A u \in ScanningNow : scan[u].root # r
  <2> SUFFICES ASSUME NEW u \in ScanningNow, scan[u].root = r
               PROVE  FALSE
    OBVIOUS
  <2>1. ScanningNow = {u}
    BY DEF Mirrored, ScanAlone
  <2>2. v \in ScanningNow
    BY DEF ScanningNow
  <2> QED
    BY <2>1, <2>2
<1>4. \A u \in ScanningNow' : scan'[u].root # r
  <2>1. \A u \in Scanners : ScanningIn(u) => scan[u].root # r
    BY <1>3 DEF ScanningNow
  <2>2. \A u \in Scanners : ScanningIn(u)' => scan'[u].root # r
    BY <1>1, <2>1 DEF ScanningIn
  <2> QED
    BY <2>2 DEF ScanningNow
<1>5. \A u \in Scanners : scan'[u].pc = "save" /\ scan'[u].root # r =>
        \A f \in scan'[u].found : f.item \notin In(r)'
  BY <1>1, <1>2 DEF Mirrored
<1>6. \A u \in Scanners \ {v} : Snapped(u, r) => Snapped(u, r)'
  BY <1>1, <1>2 DEF Snapped
<1>7. mount'[r].status = "ACTIVE" =>
         Catalogued(r)' /\ Grouped(r)' /\ \A u \in Scanners : Snapped(u, r)'
  BY <1>6 DEF Mirrored
<1> QED
  BY <1>4, <1>5, <1>7 DEF Mirrored

\* Steps of the scan of this folder that is alone.
LEMMA MirrorHere ==
  ASSUME CloudInv, NEW v \in Scanners, NEW r \in alone, ScanningNow = {v},
         scan[v].root = r, \A u \in Scanners \ {v} : scan'[u].pc = scan[u].pc,
         ScanningIn(v)' => ScanAlone(v, r)',
         mount'[r].status = "ACTIVE" =>
           ~ScanningIn(v)' /\ Catalogued(r)' /\ Grouped(r)'
  PROVE  Mirrored(r)'
<1>1. \A u \in Scanners \ {v} : ~ScanningIn(u) /\ ~ScanningIn(u)'
  BY DEF ScanningNow, ScanningIn
<1>2. \A u \in ScanningNow' : scan'[u].root = r => ScanAlone(u, r)'
  BY <1>1 DEF ScanningNow
<1>3. ScanningIn(v)' => scan'[v].root = r
  BY DEF ScanAlone
<1>4. \A u \in Scanners : scan'[u].pc = "save" => scan'[u].root = r
  BY <1>1, <1>3 DEF ScanningIn
<1>5. mount'[r].status = "ACTIVE" => \A u \in Scanners : Snapped(u, r)'
  <2>1. ASSUME ~ScanningIn(v)', NEW u \in Scanners
        PROVE  scan'[u].pc # "rebuild"
    BY <1>1, <2>1 DEF ScanningIn
  <2> QED
    BY <2>1 DEF Snapped
<1> QED
  BY <1>2, <1>4, <1>5 DEF Mirrored

\* Nothing of a mirror changes with the plans, the screen and the plan worker.
LEMMA MirrorKept ==
  ASSUME CloudInv, MirrorInv, UNCHANGED <<held, mount, catalog, logical, scan, alone>>
  PROVE  MirrorInv'
<1> SUFFICES ASSUME NEW r \in alone
             PROVE  Mirrored(r)'
  BY DEF MirrorInv
<1>1. Mirrored(r)
  BY DEF MirrorInv
<1>2. In(r)' = In(r) /\ ScanningNow' = ScanningNow
  BY DEF In, ScanningNow, ScanningIn
<1> QED
  BY <1>1, <1>2, MirrorStands

\* The clouds of other folders change.
LEMMA MirrorOfOthers ==
  ASSUME CloudInv, MirrorInv, UNCHANGED <<mount, catalog, logical, scan>>,
         NEW q \in Roots, alone' = alone \ {q},
         \A i \in Items : 
           \/ held'[i] = held[i]
           \/ held[i].root \in {q, NoRoot} /\ held'[i].root \in {q, NoRoot}
  PROVE  MirrorInv'
<1> SUFFICES ASSUME NEW r \in alone, r # q
             PROVE  Mirrored(r)'
  BY DEF MirrorInv
<1>1. Mirrored(r) /\ r \in Roots /\ r # NoRoot
  BY MulticloudAssumption DEF MirrorInv, CloudInv, RowsTyped
<1>2. \A i \in Items : (i \in In(r)' <=> i \in In(r)) /\ (i \in In(r) => held'[i] = held[i])
  BY <1>1 DEF In
<1>3. In(r)' = In(r) /\ \A i \in In(r) : held'[i] = held[i]
  BY <1>2 DEF In
<1>4. ScanningNow' = ScanningNow
  BY DEF ScanningNow, ScanningIn
<1> QED
  BY <1>1, <1>3, <1>4, MirrorStands

LEMMA UserMirrored ==
  ASSUME CloudInv, MirrorInv, NEW q \in Roots, UserChanges(q)
  PROVE  MirrorInv'
<1>1. RowsTyped
  BY DEF CloudInv
<1>2. /\ UNCHANGED <<mount, catalog, logical, scan>> /\ alone' = alone \ {q}
  BY DEF UserChanges, tables
<1>3. \E i \in Items : \E x : /\ held[i].root \in {q, NoRoot} /\ x.root \in {q, NoRoot}
                          /\ held' = [held EXCEPT ![i] = x]
  <2>1. ASSUME NEW i \in In(q), NEW n, NEW b, Put(i, q, n, b)
        PROVE  \E j \in Items : \E x : /\ held[j].root \in {q, NoRoot} /\ x.root \in {q, NoRoot}
                                   /\ held' = [held EXCEPT ![j] = x]
    <3> DEFINE y == [root |-> q, name |-> n, body |-> b]
    <3>1. i \in Items /\ held[i].root = q /\ y.root = q /\ held' = [held EXCEPT ![i] = y]
      BY <2>1 DEF Put, In
    <3> HIDE DEF y
    <3> QED
      BY <3>1
  <2>2. ASSUME Unused # {}, NEW n, Put(SmallestOf(Unused), q, n, 1)
        PROVE  \E j \in Items : \E x : /\ held[j].root \in {q, NoRoot} /\ x.root \in {q, NoRoot}
                                   /\ held' = [held EXCEPT ![j] = x]
    <3> DEFINE y == [root |-> q, name |-> n, body |-> 1]
               j == SmallestOf(Unused)
    <3>1. j \in Items /\ held[j].root = NoRoot
      BY <1>1, <2>2, NothingUnused DEF NoItem
    <3>2. y.root = q /\ held' = [held EXCEPT ![j] = y]
      BY <2>2 DEF Put
    <3> HIDE DEF y, j
    <3> QED
      BY <3>1, <3>2
  <2>3. ASSUME NEW i \in In(q), held' = [held EXCEPT ![i] = NoItem]
        PROVE  \E j \in Items : \E x : /\ held[j].root \in {q, NoRoot} /\ x.root \in {q, NoRoot}
                                   /\ held' = [held EXCEPT ![j] = x]
    <3>1. i \in Items /\ held[i].root = q
      BY DEF In
    <3>2. NoItem.root = NoRoot
      BY DEF NoItem
    <3> QED
      BY <2>3, <3>1, <3>2
  <2>4. \/ \E n \in FileNames : Unused # {} /\ Put(SmallestOf(Unused), q, n, 1)
        \/ \E i \in In(q) : held' = [held EXCEPT ![i] = NoItem]
        \/ \E i \in In(q) : Put(i, q, held[i].name, 3 - held[i].body)
        \/ \E i \in In(q), n \in FileNames : Put(i, q, n, held[i].body)
    BY DEF UserChanges
  <2> QED
    BY <2>1, <2>2, <2>3, <2>4
<1>4. \A j \in Items : 
        \/ held'[j] = held[j]
        \/ held[j].root \in {q, NoRoot} /\ held'[j].root \in {q, NoRoot}
  BY <1>1, <1>3, ItemPut
<1> QED
  BY <1>2, <1>4, MirrorOfOthers

LEMMA CopyMirrored ==
  ASSUME CloudInv, MirrorInv, Copy
  PROVE  MirrorInv'
<1>1. RowsTyped /\ RunOrdered
  BY DEF CloudInv
<1>2. UNCHANGED <<mount, catalog, logical, scan>>
  BY DEF Copy, ActionFails, OnlyPlans
<1>3. CASE ActionFails /\ UNCHANGED clouds
  BY <1>2, <1>3, MirrorKept DEF ActionFails, clouds, Quiet
<1>4. CASE Upload
  <2>1. runner.key \in Keys
    BY <1>1 DEF Copy, RunOrdered, Begun
  <2>2. Target \in Roots
    BY <2>1 DEF Target, Keys
  <2> DEFINE q == Target
  <2>3. \E i \in Items : \E x : /\ held[i].root \in {q, NoRoot} /\ x.root \in {q, NoRoot}
                            /\ held' = [held EXCEPT ![i] = x]
    <3>1. ASSUME NEW i \in In(q), Put(i, q, held[i].name, held[Source].body)
          PROVE  \E j \in Items : \E x : /\ held[j].root \in {q, NoRoot} /\ x.root = q
                                     /\ held' = [held EXCEPT ![j] = x]
      <4> DEFINE y == [root |-> q, name |-> held[i].name, body |-> held[Source].body]
      <4>1. i \in Items /\ held[i].root = q /\ y.root = q /\ held' = [held EXCEPT ![i] = y]
        BY <3>1 DEF Put, In
      <4> HIDE DEF y
      <4> QED
        BY <4>1
    <3>2. ASSUME Unused # {},
                 Put(SmallestOf(Unused), q, actions[runner.key].path, held[Source].body)
          PROVE  \E j \in Items : \E x : /\ held[j].root \in {q, NoRoot} /\ x.root = q
                                     /\ held' = [held EXCEPT ![j] = x]
      <4> DEFINE y == [root |-> q, name |-> actions[runner.key].path,
                       body |-> held[Source].body]
                 j == SmallestOf(Unused)
      <4>1. j \in Items /\ held[j].root = NoRoot
        BY <1>1, <3>2, NothingUnused DEF NoItem
      <4>2. y.root = q /\ held' = [held EXCEPT ![j] = y]
        BY <3>2 DEF Put
      <4> HIDE DEF y, j
      <4> QED
        BY <4>1, <4>2
    <3> QED
      BY <1>4, <3>1, <3>2 DEF Upload
  <2>4. alone' = alone \ {q}
    BY <1>4 DEF Upload
  <2> HIDE DEF q
  <2>5. q \in Roots
    BY <2>2 DEF q
  <2>6. \A j \in Items : 
          \/ held'[j] = held[j]
          \/ held[j].root \in {q, NoRoot} /\ held'[j].root \in {q, NoRoot}
    BY <1>1, <2>3, ItemPut
  <2> QED
    BY <1>2, <2>4, <2>5, <2>6, MirrorOfOthers
<1> QED
  BY <1>3, <1>4 DEF Copy

LEMMA MountMirrored ==
  ASSUME CloudInv, MirrorInv, NEW v \in Scanners, NEW q \in Roots,
         Mount(v, q) \/ PressScan(v, q)
  PROVE  MirrorInv'
<1>1. RowsTyped /\ WorkersTyped /\ MountsApart
  BY DEF CloudInv
<1>2. /\ scan[v] = Idle /\ (\E s : s.pc = "start" /\ scan' = [scan EXCEPT ![v] = s])
      /\ UNCHANGED <<held, catalog, logical, alone>>
  BY DEF Mount, PressScan, StartScan, clouds, tables, Quiet
<1>3. /\ \A u \in Scanners \ {v} : scan'[u] = scan[u]
      /\ scan[v].pc = "idle" /\ scan'[v].pc = "start"
  BY <1>1, <1>2 DEF WorkersTyped, Idle
<1>4. \A u \in Scanners : ScanningIn(u)' <=> ScanningIn(u)
  BY <1>3 DEF ScanningIn
<1>5. ScanningNow' = ScanningNow /\ \A u \in ScanningNow : scan'[u] = scan[u]
  BY <1>3, <1>4 DEF ScanningNow, ScanningIn
<1>6. ASSUME NEW r \in alone
      PROVE  Mirrored(r)'
  <2>1. Mirrored(r) /\ r \in Mounted
    BY <1>1 DEF MirrorInv, MountsApart
  <2>2. mount'[r] = mount[r]
    BY <1>1, <2>1 DEF Mount, PressScan, tables, Mounted, NotMounted, RowsTyped
  <2>3. In(r)' = In(r)
    BY <1>2 DEF In
  <2> QED
    BY <1>2, <1>5, <2>1, <2>2, <2>3, MirrorStands
<1> QED
  BY <1>2, <1>6 DEF MirrorInv

LEMMA UnmountMirrored ==
  ASSUME CloudInv, MirrorInv, NEW q \in Roots, Unmount(q)
  PROVE  MirrorInv'
<1>1. RowsTyped /\ MountsApart
  BY DEF CloudInv
<1>2. /\ mount[q].id # 0
      /\ mount' = [mount EXCEPT ![q] = NotMounted]
      /\ catalog' = [i \in Items |-> IF catalog[i].mid = mount[q].id THEN NoNode
                                      ELSE catalog[i]]
      /\ logical' = {l \in logical : catalog[l.item].mid # mount[q].id}
      /\ alone' = alone \ {q}
      /\ UNCHANGED <<held, scan>>
  BY DEF Unmount, Mounted, clouds
<1>3. ScanningNow' = ScanningNow /\ \A u \in ScanningNow : scan'[u] = scan[u]
  BY <1>2 DEF ScanningNow, ScanningIn
<1>4. ASSUME NEW r \in alone, r # q
      PROVE  Mirrored(r)'
  <2>1. Mirrored(r) /\ r \in Mounted /\ r \in Roots /\ mount[r].id # 0
    BY <1>1 DEF MirrorInv, MountsApart, Mounted
  <2>2. mount[r].id # mount[q].id /\ mount'[r] = mount[r]
    BY <1>1, <1>2, <1>4, <2>1 DEF MountsApart, RowsTyped
  <2>3. \A i \in Items : catalog[i].mid = mount[r].id \/ catalog'[i].mid = mount[r].id
          => catalog'[i] = catalog[i]
    BY <1>2, <2>1, <2>2 DEF NoNode
  <2>4. \A l : (l \in logical /\ catalog[l.item].mid = mount[r].id)
               <=> (l \in logical' /\ catalog'[l.item].mid = mount[r].id)
    BY <1>1, <1>2, <2>1, <2>2, <2>3 DEF RowsTyped, Replica
  <2>5. In(r)' = In(r)
    BY <1>2 DEF In
  <2> QED
    BY <1>2, <1>3, <2>1, <2>2, <2>3, <2>4, <2>5, MirrorStands
<1> QED
  BY <1>2, <1>4 DEF MirrorInv

LEMMA DeathMirrored ==
  ASSUME CloudInv, MirrorInv, ProcessDies
  PROVE  MirrorInv'
<1>1. /\ UNCHANGED <<held, mount, catalog, logical, alone>>
      /\ \A v \in Scanners : scan'[v] = Idle
  BY DEF ProcessDies, clouds, tables
<1>2. \A v \in Scanners : scan'[v].pc = "idle"
  BY <1>1 DEF Idle
<1> SUFFICES ASSUME NEW r \in alone
             PROVE  Mirrored(r)'
  BY <1>1 DEF MirrorInv
<1>3. Mirrored(r)
  BY DEF MirrorInv
<1>4. In(r)' = In(r)
  BY <1>1 DEF In
<1>5. ScanningNow' = {}
  BY <1>2 DEF ScanningNow, ScanningIn
<1>6. \A v \in Scanners : Snapped(v, r)'
  BY <1>2 DEF Snapped
<1>7. Catalogued(r)' <=> Catalogued(r)
  BY <1>1, <1>4 DEF Catalogued, UpToDate
<1>8. Grouped(r)' <=> Grouped(r)
  BY <1>1, <1>4 DEF Grouped, ReplicaOf
<1> QED
  BY <1>1, <1>2, <1>3, <1>5, <1>6, <1>7, <1>8 DEF Mirrored

-----------------------------------------------------------------------------
(* The mirror along a scan                                                 *)

\* The two kinds of folder a step of a scan meets.
LEMMA FolderScanned ==
  ASSUME CloudInv, MirrorInv, NEW v \in Scanners, ScanningIn(v), NEW r \in alone
  PROVE  /\ r \in Roots /\ mount[r].id # 0 /\ Mirrored(r)
         /\ scan[v].root = r => ScanAlone(v, r)
         /\ scan[v].root # r => mount[r].id # scan[v].mid
<1>1. MountsApart
  BY DEF CloudInv
<1>2. r \in Mounted /\ Mirrored(r)
  BY <1>1 DEF MountsApart, MirrorInv
<1>3. v \in ScanningNow
  BY DEF ScanningNow
<1> QED
  BY <1>1, <1>2, <1>3 DEF Mounted, Mirrored, MountsApart

\* A scan ends, successfully or not.
LEMMA StopMirrored ==
  ASSUME CloudInv, MirrorInv, NEW v \in Scanners, ScanningIn(v),
         NEW status \in {"ACTIVE", "ERROR"}, SetStatus(scan[v].mid, status), Ends(v),
         UNCHANGED <<held, catalog, logical, alone>>,
         status = "ACTIVE" => scan[v].pc = "end"
  PROVE  MirrorInv'
<1> SUFFICES ASSUME NEW r \in alone
             PROVE  Mirrored(r)'
  BY DEF MirrorInv
<1>1. RowsTyped /\ WorkersTyped
  BY DEF CloudInv
<1>2. /\ r \in Roots /\ mount[r].id # 0 /\ Mirrored(r)
      /\ scan[v].root = r => ScanAlone(v, r)
      /\ scan[v].root # r => mount[r].id # scan[v].mid
  BY FolderScanned
<1>3. \A q \in Roots : /\ mount'[q].id = mount[q].id
                       /\ mount[q].id = scan[v].mid => mount'[q].status = status
                       /\ mount[q].id # scan[v].mid => mount'[q] = mount[q]
  BY <1>1, StatusSet DEF RowsTyped, MountStatuses
<1>4. /\ \A u \in Scanners \ {v} : scan'[u] = scan[u]
      /\ scan'[v].pc = "idle" /\ ~ScanningIn(v)'
  BY <1>1 DEF Ends, WorkersTyped, Idle, ScanningIn
<1>5. In(r)' = In(r)
  BY DEF In
<1>6. (Catalogued(r) => Catalogued(r)') /\ (Catalogued(r) /\ Grouped(r) => Grouped(r)')
  BY <1>2, <1>3, <1>5, MirrorRows
<1>7. CASE scan[v].root = r
  <2>1. ScanAlone(v, r)
    BY <1>2, <1>7
  <2>2. mount'[r].status = status /\ ScanningNow = {v}
    BY <1>2, <1>3, <2>1 DEF ScanAlone
  <2>3. mount'[r].status = "ACTIVE" => Catalogued(r)' /\ Grouped(r)'
    BY <1>6, <2>1, <2>2 DEF ScanAlone
  <2> QED
    BY <1>4, <1>7, <2>2, <2>3, MirrorHere
<1>8. CASE scan[v].root # r
  <2>1. mount'[r] = mount[r]
    BY <1>2, <1>3, <1>8
  <2>2. Snapped(v, r)'
    BY <1>4 DEF Snapped
  <2>3. mount[r].status = "ACTIVE" => Catalogued(r)' /\ Grouped(r)' /\ Snapped(v, r)'
    BY <1>2, <1>6, <2>2 DEF Mirrored
  <2> QED
    BY <1>2, <1>4, <1>8, <2>1, <2>3, MirrorElsewhere
<1> QED
  BY <1>7, <1>8

LEMMA FailMirrored ==
  ASSUME CloudInv, MirrorInv, NEW v \in Scanners, ScanningIn(v), Fails(v)
  PROVE  MirrorInv'
BY StopMirrored DEF Fails, clouds, Quiet

LEMMA EndMirrored ==
  ASSUME CloudInv, MirrorInv, NEW v \in Scanners, EndScan(v)
  PROVE  MirrorInv'
BY StopMirrored DEF EndScan, ScanningIn, clouds, Quiet

LEMMA RefusalMirrored ==
  ASSUME CloudInv, MirrorInv, NEW v \in Scanners, RefuseScan(v)
  PROVE  MirrorInv'
<1>1. WorkersTyped
  BY DEF CloudInv
<1>2. /\ scan[v].pc = "start" /\ scan' = [scan EXCEPT ![v] = Idle]
      /\ UNCHANGED <<held, mount, catalog, logical, alone>>
  BY DEF RefuseScan, Ends, clouds, tables, Quiet
<1>3. /\ \A u \in Scanners \ {v} : scan'[u] = scan[u]
      /\ scan'[v].pc = "idle"
  BY <1>1, <1>2 DEF WorkersTyped, Idle
<1>4. \A u \in Scanners : ScanningIn(u)' <=> ScanningIn(u)
  BY <1>2, <1>3 DEF ScanningIn
<1>5. ScanningNow' = ScanningNow /\ \A u \in ScanningNow : scan'[u] = scan[u]
  BY <1>2, <1>3, <1>4 DEF ScanningNow, ScanningIn
<1>6. ASSUME NEW r \in alone
      PROVE  Mirrored(r)'
  <2>1. Mirrored(r)
    BY DEF MirrorInv
  <2>2. In(r)' = In(r)
    BY <1>2 DEF In
  <2> QED
    BY <1>2, <1>5, <2>1, <2>2, MirrorStands
<1> QED
  BY <1>2, <1>6 DEF MirrorInv

LEMMA BeginMirrored ==
  ASSUME CloudInv, MirrorInv, NEW v \in Scanners, BeginScan(v)
  PROVE  MirrorInv'
<1> DEFINE mid == scan[v].mid
           root == RootOf(mid)
           s == [pc |-> "list", mid |-> mid, root |-> root,
                 unseen |-> Nodes(mid), found |-> {}]
<1>1. RowsTyped /\ WorkersTyped /\ MountsApart
  BY DEF CloudInv
<1>2. /\ scan[v].pc = "start"
      /\ SetStatus(mid, "SCANNING")
      /\ scan' = [scan EXCEPT ![v] = s]
      /\ alone' = IF ScanningNow = {} THEN alone \cup {root}
                  ELSE alone \ ({root} \cup {scan[u].root : u \in ScanningNow})
      /\ UNCHANGED <<held, catalog, logical>>
  BY DEF BeginScan, Goes, clouds
<1>3. root \in Roots /\ mount[root].id = mid
  BY RootFound DEF BeginScan
<1> HIDE DEF root
<1>4. \A u \in Scanners : scan'[u] = IF u = v THEN s ELSE scan[u]
  BY <1>1, <1>2 DEF WorkersTyped
<1>5. s.pc = "list" /\ s.mid = mid /\ s.root = root /\ s.unseen = Nodes(mid)
  OBVIOUS
<1> HIDE DEF s
<1>6. \A q \in Roots : /\ mount'[q].id = mount[q].id
                       /\ mount[q].id = mid => mount'[q].status = "SCANNING"
                       /\ mount[q].id # mid => mount'[q] = mount[q]
  BY <1>1, <1>2, StatusSet DEF RowsTyped, MountStatuses
<1>7. v \notin ScanningNow /\ ScanningIn(v)'
  BY <1>2, <1>4, <1>5 DEF ScanningNow, ScanningIn
<1>8. \A u \in Scanners \ {v} : (ScanningIn(u)' <=> ScanningIn(u)) /\ scan'[u] = scan[u]
  BY <1>4 DEF ScanningIn
<1>9. ASSUME NEW r \in alone', r = root
      PROVE  Mirrored(r)'
  <2>1. ScanningNow = {}
    BY <1>2, <1>9
  <2>2. ScanningNow' = {v}
    BY <1>7, <1>8, <2>1 DEF ScanningNow
  <2>3. mount'[r].id = mid /\ mount'[r].status = "SCANNING"
    BY <1>3, <1>6, <1>9
  <2>5. scan'[v] = s
    BY <1>4
  <2>6. Nodes(scan[v].mid)' \subseteq scan'[v].unseen
    BY <1>2, <1>5, <2>5 DEF Nodes
  <2>7. ScanAlone(v, r)'
    BY <1>5, <1>9, <2>2, <2>3, <2>5, <2>6 DEF ScanAlone, Snapped
  <2>8. \A u \in Scanners : scan'[u].pc # "save"
    BY <1>5, <1>8, <2>1, <2>5 DEF ScanningNow, ScanningIn
  <2> QED
    BY <2>2, <2>3, <2>7, <2>8 DEF Mirrored
<1>10. ASSUME NEW r \in alone', r # root
       PROVE  Mirrored(r)'
  <2>1. r \in alone
    BY <1>2, <1>10
  <2>2. Mirrored(r) /\ r \in Roots /\ mount[r].id # 0
    BY <1>1, <2>1 DEF MirrorInv, MountsApart, Mounted
  <2>3. mount'[r] = mount[r]
    BY <1>1, <1>3, <1>6, <1>10, <2>2 DEF MountsApart
  <2>4. \A u \in ScanningNow : scan[u].root # r
    BY <1>2, <1>10
  <2>5. \A u \in ScanningNow' : scan'[u].root # r
    <3>1. \A u \in Scanners \ {v} : ScanningIn(u) => scan[u].root # r
      BY <2>4 DEF ScanningNow
    <3>2. \A u \in Scanners : ScanningIn(u)' => scan'[u].root # r
      BY <1>4, <1>5, <1>8, <1>10, <3>1
    <3> QED
      BY <3>2 DEF ScanningNow
  <2>6. In(r)' = In(r)
    BY <1>2 DEF In
  <2>7. (Catalogued(r) => Catalogued(r)') /\ (Catalogued(r) /\ Grouped(r) => Grouped(r)')
    BY <1>2, <2>2, <2>3, <2>6, MirrorRows
  <2>8. \A u \in Scanners : scan'[u].pc = "save" => scan'[u] = scan[u]
    BY <1>4, <1>5
  <2>9. \A u \in Scanners : Snapped(u, r) => Snapped(u, r)'
    <3>1. \A u \in Scanners : scan'[u].pc = "rebuild" => scan'[u] = scan[u]
      BY <1>4, <1>5
    <3> QED
      BY <1>2, <2>3, <2>6, <3>1 DEF Snapped
  <2> QED
    BY <2>2, <2>3, <2>5, <2>6, <2>7, <2>8, <2>9 DEF Mirrored
<1> QED
  BY <1>9, <1>10 DEF MirrorInv

LEMMA ListMirrored ==
  ASSUME CloudInv, MirrorInv, NEW v \in Scanners, ListChildren(v)
  PROVE  MirrorInv'
<1> DEFINE F == {Entry(i) : i \in In(scan[v].root)}
<1>1. RowsTyped /\ WorkersTyped
  BY DEF CloudInv
<1>2. /\ scan[v].pc = "list" /\ ScanningIn(v)
      /\ scan' = [scan EXCEPT ![v] = [scan[v] EXCEPT !.pc = "save", !.found = F]]
      /\ UNCHANGED <<held, mount, catalog, logical, alone>>
  BY DEF ListChildren, Goes, clouds, tables, Quiet, ScanningIn, Entry
<1>3. \A f \in F : f.item \in In(scan[v].root) /\ f = Entry(f.item)
  BY DEF Entry
<1>4. \A i \in In(scan[v].root) : Entry(i) \in F
  OBVIOUS
<1>5. F \in SUBSET Listed /\ scan[v] \in Listing
  BY <1>1, <1>2, ScanKinds DEF RowsTyped, Held, Listed, In, Entry
<1> HIDE DEF F
<1>6. /\ scan'[v].pc = "save" /\ scan'[v].mid = scan[v].mid /\ scan'[v].root = scan[v].root
      /\ scan'[v].unseen = scan[v].unseen /\ scan'[v].found = F
  <2> DEFINE s == [scan[v] EXCEPT !.pc = "save", !.found = F]
  <2>1. scan'[v] = s
    BY <1>1, <1>2 DEF WorkersTyped
  <2>2. /\ s.pc = "save" /\ s.mid = scan[v].mid /\ s.root = scan[v].root
        /\ s.unseen = scan[v].unseen /\ s.found = F
    BY <1>5 DEF Listing
  <2> HIDE DEF s
  <2> QED
    BY <2>1, <2>2
<1>7. \A u \in Scanners \ {v} : scan'[u] = scan[u]
  BY <1>1, <1>2 DEF WorkersTyped
<1> SUFFICES ASSUME NEW r \in alone
             PROVE  Mirrored(r)'
  BY <1>2 DEF MirrorInv
<1>8. /\ r \in Roots /\ mount[r].id # 0 /\ Mirrored(r)
      /\ scan[v].root = r => ScanAlone(v, r)
      /\ scan[v].root # r => mount[r].id # scan[v].mid
  BY <1>2, FolderScanned
<1>9. In(r)' = In(r)
  BY <1>2 DEF In
<1>10. CASE scan[v].root = r
  <2>1. ScanAlone(v, r)
    BY <1>8, <1>10
  <2>2. /\ ScanningNow = {v} /\ mount[r].id = scan[v].mid /\ mount[r].status = "SCANNING"
        /\ Nodes(scan[v].mid) \subseteq scan[v].unseen
    BY <1>2, <2>1 DEF ScanAlone
  <2>3. ScanningNow' = {v}
    BY <1>6, <1>7, <2>2 DEF ScanningNow, ScanningIn
  <2>4. /\ \A f \in F : f.item \in In(r)' /\ f = Entry(f.item)'
        /\ \A i \in In(r)' : Entry(i)' \in F
    BY <1>2, <1>3, <1>4, <1>9, <1>10 DEF Entry
  <2>5. Nodes(scan[v].mid)' \subseteq scan'[v].unseen
    BY <1>2, <1>6, <2>2 DEF Nodes
  <2>6. ScanAlone(v, r)'
    BY <1>2, <1>6, <1>10, <2>2, <2>3, <2>4, <2>5 DEF ScanAlone, Snapped
  <2>7. mount'[r].status # "ACTIVE"
    BY <1>2, <2>2
  <2> QED
    BY <1>7, <1>10, <2>2, <2>6, <2>7, MirrorHere
<1>11. CASE scan[v].root # r
  <2>1. \A f \in F : f.item \notin In(r)
    BY <1>3, <1>11 DEF In
  <2>2. Snapped(v, r)'
    BY <1>6 DEF Snapped
  <2>3. (Catalogued(r) => Catalogued(r)') /\ (Catalogued(r) /\ Grouped(r) => Grouped(r)')
    BY <1>2, <1>8, <1>9, MirrorRows
  <2>4. mount[r].status = "ACTIVE" => Catalogued(r)' /\ Grouped(r)' /\ Snapped(v, r)'
    BY <1>8, <2>2, <2>3 DEF Mirrored
  <2> QED
    BY <1>2, <1>6, <1>7, <1>8, <1>11, <2>1, <2>4, MirrorElsewhere
<1> QED
  BY <1>10, <1>11

LEMMA SaveMirrored ==
  ASSUME CloudInv, MirrorInv, NEW v \in Scanners, SaveOne(v)
  PROVE  MirrorInv'
<1>1. RowsTyped /\ WorkersTyped
  BY DEF CloudInv
<1>2. scan[v].pc = "save" /\ ScanningIn(v)
  BY DEF SaveOne, ScanningIn
<1>3. CASE Fails(v)
  BY <1>2, <1>3, FailMirrored
<1>4. ASSUME NEW f \in scan[v].found, SaveNode(v, f)
      PROVE  MirrorInv'
  <2>1. /\ catalog' = [catalog EXCEPT ![f.item] =
             [mid |-> scan[v].mid, name |-> f.name, body |-> f.body, status |-> "ACTIVE"]]
        /\ UNCHANGED <<held, mount, logical, alone>>
    BY <1>4 DEF SaveNode, clouds, Quiet
  <2>2. /\ f.item \in Items
        /\ scan'[v].pc = "save" /\ scan'[v].mid = scan[v].mid
        /\ scan'[v].root = scan[v].root
        /\ scan'[v].unseen = scan[v].unseen \ {f.item}
        /\ scan'[v].found = scan[v].found \ {f}
    BY <1>1, <1>2, <1>4, NodeSaved
  <2>3. \A u \in Scanners \ {v} : scan'[u] = scan[u] \/
           /\ scan'[u].pc = scan[u].pc
           /\ scan'[u].root = scan[u].root /\ scan'[u].found = scan[u].found
    BY <1>1, <1>2, <1>4, NodeSaved
  <2>4. \A i \in Items : i # f.item => catalog'[i] = catalog[i]
    BY <1>1, <2>1 DEF RowsTyped
  <2>5. catalog'[f.item] = [mid |-> scan[v].mid, name |-> f.name, body |-> f.body,
                            status |-> "ACTIVE"]
    BY <1>1, <2>1, <2>2 DEF RowsTyped
  <2>6. catalog'[f.item].mid = scan[v].mid
    BY <2>5
  <2> SUFFICES ASSUME NEW r \in alone
               PROVE  Mirrored(r)'
    BY <2>1 DEF MirrorInv
  <2>7. /\ r \in Roots /\ mount[r].id # 0 /\ Mirrored(r)
        /\ scan[v].root = r => ScanAlone(v, r)
        /\ scan[v].root # r => mount[r].id # scan[v].mid
    BY <1>2, FolderScanned
  <2>8. In(r)' = In(r)
    BY <2>1 DEF In
  <2>9. CASE scan[v].root = r
    <3>1. ScanAlone(v, r)
      BY <2>7, <2>9
    <3>2. /\ ScanningNow = {v} /\ mount[r].id = scan[v].mid /\ mount[r].status = "SCANNING"
          /\ \A g \in scan[v].found : g.item \in In(r) /\ g = Entry(g.item)
          /\ \A i \in In(r) :
               \/ Entry(i) \in scan[v].found
               \/ i \notin scan[v].unseen /\ UpToDate(i, scan[v].mid)
          /\ \A i \in Nodes(scan[v].mid) : i \in scan[v].unseen \/ i \in In(r)
      BY <1>2, <3>1 DEF ScanAlone
    <3>3. ScanningNow' = {v}
      BY <2>2, <2>3, <3>2 DEF ScanningNow, ScanningIn
    <3>4. f.name = held[f.item].name /\ f.body = held[f.item].body /\ f.item \in In(r)
          /\ f = Entry(f.item)
      <4>1. f = Entry(f.item) /\ f.item \in In(r)
        BY <3>2
      <4>2. \A i : Entry(i).name = held[i].name /\ Entry(i).body = held[i].body
        BY DEF Entry
      <4> QED
        BY <4>1, <4>2
    <3>5. UpToDate(f.item, scan[v].mid)'
      BY <2>1, <2>2, <2>5, <3>4 DEF UpToDate
    <3>6. \A g \in scan'[v].found : g.item \in In(r)' /\ g = Entry(g.item)'
      BY <2>1, <2>2, <2>8, <3>2 DEF Entry
    <3>7. ASSUME NEW i \in In(r)
          PROVE  \/ Entry(i)' \in scan'[v].found
                 \/ i \notin scan'[v].unseen /\ UpToDate(i, scan[v].mid)'
      <4>1. CASE i = f.item
        BY <2>2, <3>5, <4>1
      <4>2. CASE i # f.item
        <5>1. Entry(i)' = Entry(i) /\ Entry(i) # f
          BY <2>1, <4>2 DEF Entry
        <5>2. UpToDate(i, scan[v].mid) => UpToDate(i, scan[v].mid)'
          BY <2>1, <2>2, <2>4, <4>2 DEF UpToDate, In
        <5> QED
          BY <2>2, <3>2, <5>1, <5>2
      <4> QED
        BY <4>1, <4>2
    <3>8. \A i \in Nodes(scan[v].mid)' : i \in scan'[v].unseen \/ i \in In(r)'
      BY <2>2, <2>4, <2>8, <3>2, <3>4 DEF Nodes
    <3>9. ScanAlone(v, r)'
      BY <2>1, <2>2, <2>8, <2>9, <3>2, <3>3, <3>6, <3>7, <3>8 DEF ScanAlone, Snapped
    <3>10. mount'[r].status # "ACTIVE"
      BY <2>1, <3>2
    <3>11. \A u \in Scanners \ {v} : scan'[u].pc = scan[u].pc
      BY <2>3
    <3> QED
      BY <2>9, <3>2, <3>9, <3>10, <3>11, MirrorHere
  <2>10. CASE scan[v].root # r
    <3>1. \A g \in scan[v].found : g.item \notin In(r)
      BY <1>2, <2>7, <2>10 DEF Mirrored
    <3>2. mount[r].status = "ACTIVE" => Catalogued(r)' /\ Grouped(r)'
      <4> SUFFICES ASSUME Catalogued(r), Grouped(r)
                   PROVE  Catalogued(r)' /\ Grouped(r)'
        BY <2>7 DEF Mirrored
      <4>1. f.item \notin In(r) /\ catalog'[f.item].mid # mount[r].id
        BY <2>6, <2>7, <2>10, <3>1
      <4>2. Catalogued(r)'
        <5>1. \A i \in Items : i \in In(r) => UpToDate(i, mount[r].id)'
          BY <2>1, <2>4, <4>1 DEF Catalogued, UpToDate
        <5>2. \A i \in Items : i \notin In(r) =>
                ~(catalog'[i].mid = mount[r].id /\ catalog'[i].status = "ACTIVE")
          BY <2>4, <4>1 DEF Catalogued
        <5> QED
          BY <2>1, <2>8, <5>1, <5>2 DEF Catalogued
      <4>3. \A l \in logical : l.item \in Items
        BY <1>1 DEF RowsTyped, Replica
      <4>4. \A l \in logical : catalog'[l.item].mid = mount[r].id =>
              l.item \in In(r) /\ l = ReplicaOf(l.item)
        BY <2>4, <4>1, <4>3 DEF Grouped
      <4>5. Grouped(r)'
        BY <2>1, <2>8, <4>4 DEF Grouped, ReplicaOf
      <4> QED
        BY <4>2, <4>5
    <3>3. Snapped(v, r)'
      BY <2>2 DEF Snapped
    <3>4. \A g \in scan'[v].found : g.item \notin In(r)
      BY <2>2, <3>1
    <3> QED
      BY <1>2, <2>1, <2>2, <2>3, <2>7, <2>10, <3>2, <3>3, <3>4, MirrorElsewhere
  <2> QED
    BY <2>9, <2>10
<1> QED
  BY <1>3, <1>4 DEF SaveOne

LEMMA MarkMirrored ==
  ASSUME CloudInv, MirrorInv, NEW v \in Scanners, MarkMissing(v)
  PROVE  MirrorInv'
<1>1. RowsTyped /\ WorkersTyped /\ MountsApart /\ RowsMounted
  BY DEF CloudInv
<1>2. /\ scan[v].pc = "save" /\ ScanningIn(v) /\ scan[v].found = {}
      /\ catalog' = Missing(v)
      /\ scan' = [scan EXCEPT ![v] = [scan[v] EXCEPT !.pc = "read"]]
      /\ UNCHANGED <<held, mount, logical, alone>>
  BY DEF MarkMissing, Goes, clouds, Quiet, ScanningIn
<1>3. \A u \in Scanners \ {v} : scan'[u] = scan[u]
  BY <1>1, <1>2 DEF WorkersTyped
<1>4. scan'[v].pc = "read" /\ scan'[v].mid = scan[v].mid /\ scan'[v].root = scan[v].root
      /\ scan'[v].found = {}
  <2> DEFINE s == [scan[v] EXCEPT !.pc = "read"]
  <2>1. scan'[v] = s
    BY <1>1, <1>2 DEF WorkersTyped
  <2>2. scan[v] \in Listing
    BY <1>1, <1>2, ScanKinds
  <2>3. s.pc = "read" /\ s.mid = scan[v].mid /\ s.root = scan[v].root
        /\ s.found = scan[v].found
    BY <2>2 DEF Listing
  <2> HIDE DEF s
  <2> QED
    BY <1>2, <2>1, <2>3
<1>5. \A i \in Items :
        /\ catalog'[i].mid = catalog[i].mid
        /\ IF i \in scan[v].unseen /\ catalog[i].mid = scan[v].mid
             THEN catalog'[i].status = "MISSING"
             ELSE catalog'[i] = catalog[i]
  <2>1. \A i \in Items :
              /\ catalog'[i].mid = catalog[i].mid
              /\ catalog'[i].name = catalog[i].name
              /\ catalog'[i].body = catalog[i].body
              /\ IF i \in scan[v].unseen /\ catalog[i].mid = scan[v].mid
                   THEN catalog'[i].status = "MISSING" /\ catalog[i] # NoNode
                   ELSE catalog'[i] = catalog[i]
    BY <1>1, <1>2, MissingMarked
  <2> QED
    BY <2>1
<1> SUFFICES ASSUME NEW r \in alone
             PROVE  Mirrored(r)'
  BY <1>2 DEF MirrorInv
<1>6. /\ r \in Roots /\ mount[r].id # 0 /\ Mirrored(r)
      /\ scan[v].root = r => ScanAlone(v, r)
      /\ scan[v].root # r => mount[r].id # scan[v].mid
  BY <1>2, FolderScanned
<1>7. In(r)' = In(r)
  BY <1>2 DEF In
<1>8. CASE scan[v].root = r
  <2>1. ScanAlone(v, r)
    BY <1>6, <1>8
  <2>2. /\ ScanningNow = {v} /\ mount[r].id = scan[v].mid /\ mount[r].status = "SCANNING"
        /\ \A i \in In(r) : i \notin scan[v].unseen /\ UpToDate(i, mount[r].id)
        /\ \A i \in Nodes(scan[v].mid) : i \in scan[v].unseen \/ i \in In(r)
    BY <1>2, <2>1 DEF ScanAlone
  <2>3. ScanningNow' = {v}
    BY <1>3, <1>4, <2>2 DEF ScanningNow, ScanningIn
  <2>4. Catalogued(r)'
    <3>1. \A i \in Items : i \in In(r) => UpToDate(i, mount[r].id)'
      BY <1>2, <1>5, <2>2 DEF UpToDate
    <3>2. \A i \in Items : i \notin In(r) =>
            ~(catalog'[i].mid = mount[r].id /\ catalog'[i].status = "ACTIVE")
      BY <1>5, <2>2 DEF Nodes
    <3> QED
      BY <1>2, <1>7, <3>1, <3>2 DEF Catalogued
  <2>5. ScanAlone(v, r)'
    BY <1>2, <1>4, <1>8, <2>2, <2>3, <2>4 DEF ScanAlone, Snapped
  <2>6. mount'[r].status # "ACTIVE"
    BY <1>2, <2>2
  <2> QED
    BY <1>3, <1>8, <2>2, <2>5, <2>6, MirrorHere
<1>9. CASE scan[v].root # r
  <2>1. \A i \in Items : catalog[i].mid = mount[r].id \/ catalog'[i].mid = mount[r].id
           => catalog'[i] = catalog[i]
    BY <1>5, <1>6, <1>9
  <2>2. \A l : (l \in logical /\ catalog[l.item].mid = mount[r].id)
               <=> (l \in logical' /\ catalog'[l.item].mid = mount[r].id)
    BY <1>1, <1>2, <1>5 DEF RowsTyped, Replica
  <2>3. (Catalogued(r) => Catalogued(r)') /\ (Catalogued(r) /\ Grouped(r) => Grouped(r)')
    BY <1>2, <1>6, <1>7, <2>1, <2>2, MirrorRows
  <2>4. Snapped(v, r)'
    BY <1>4 DEF Snapped
  <2>5. mount[r].status = "ACTIVE" => Catalogued(r)' /\ Grouped(r)' /\ Snapped(v, r)'
    BY <1>6, <2>3, <2>4 DEF Mirrored
  <2> QED
    BY <1>2, <1>3, <1>4, <1>6, <1>9, <2>5, MirrorElsewhere
<1> QED
  BY <1>8, <1>9

LEMMA ReadMirrored ==
  ASSUME CloudInv, MirrorInv, NEW v \in Scanners, ReadNodes(v)
  PROVE  MirrorInv'
<1> DEFINE F == {[item |-> i, node |-> catalog[i]] :
                  i \in {j \in Items : catalog[j].status = "ACTIVE"}}
<1>1. RowsTyped /\ WorkersTyped
  BY DEF CloudInv
<1>2. /\ scan[v].pc = "read" /\ ScanningIn(v)
      /\ scan' = [scan EXCEPT ![v] = [scan[v] EXCEPT !.pc = "rebuild", !.found = F]]
      /\ UNCHANGED <<held, mount, catalog, logical, alone>>
  BY DEF ReadNodes, Goes, clouds, tables, Quiet, ScanningIn
<1>3. \A f \in F : f.item \in Items /\ f.node = catalog[f.item] /\ f.node.status = "ACTIVE"
  OBVIOUS
<1>4. \A i \in Items : catalog[i].status = "ACTIVE" => \E f \in F : f.item = i
  <2> SUFFICES ASSUME NEW i \in Items, catalog[i].status = "ACTIVE"
               PROVE  \E f \in F : f.item = i
    OBVIOUS
  <2> DEFINE g == [item |-> i, node |-> catalog[i]]
  <2>1. g \in F /\ g.item = i
    OBVIOUS
  <2> HIDE DEF F, g
  <2> QED
    BY <2>1
<1> HIDE DEF F
<1>5. scan'[v].pc = "rebuild" /\ scan'[v].mid = scan[v].mid /\ scan'[v].root = scan[v].root
      /\ scan'[v].found = F
  <2> DEFINE s == [scan[v] EXCEPT !.pc = "rebuild", !.found = F]
  <2>1. scan'[v] = s
    BY <1>1, <1>2 DEF WorkersTyped
  <2>2. scan[v] \in Grouping
    BY <1>1, <1>2, ScanKinds
  <2>3. s.pc = "rebuild" /\ s.mid = scan[v].mid /\ s.root = scan[v].root /\ s.found = F
    BY <2>2 DEF Grouping
  <2> HIDE DEF s
  <2> QED
    BY <2>1, <2>3
<1>6. \A u \in Scanners \ {v} : scan'[u] = scan[u]
  BY <1>1, <1>2 DEF WorkersTyped
<1> SUFFICES ASSUME NEW r \in alone
             PROVE  Mirrored(r)'
  BY <1>2 DEF MirrorInv
<1>7. /\ r \in Roots /\ mount[r].id # 0 /\ Mirrored(r)
      /\ scan[v].root = r => ScanAlone(v, r)
      /\ scan[v].root # r => mount[r].id # scan[v].mid
  BY <1>2, FolderScanned
<1>8. In(r)' = In(r)
  BY <1>2 DEF In
<1>9. (Catalogued(r) => Catalogued(r)') /\ (Catalogued(r) /\ Grouped(r) => Grouped(r)')
  BY <1>2, <1>7, <1>8, MirrorRows
<1>10. Catalogued(r) => Snapped(v, r)'
  <2> SUFFICES ASSUME Catalogued(r)
               PROVE  Snapped(v, r)'
    OBVIOUS
  <2>1. \A f \in F : f.node.mid = mount[r].id => f.item \in In(r)
    BY <1>3 DEF Catalogued
  <2>2. \A i \in In(r) : i \in Items /\ UpToDate(i, mount[r].id)
    BY DEF Catalogued, In
  <2>3. \A f \in F : f.item \in In(r) =>
          f.node = [mid |-> mount[r].id, name |-> held[f.item].name,
                    body |-> held[f.item].body, status |-> "ACTIVE"]
    BY <1>3, <2>2 DEF UpToDate
  <2>4. \A i \in In(r) : \E f \in F : f.item = i
    <3>1. \A i \in In(r) : i \in Items /\ catalog[i].status = "ACTIVE"
      BY <2>2, RowUpToDate
    <3> QED
      BY <1>4, <3>1
  <2> QED
    BY <1>2, <1>5, <1>8, <2>1, <2>3, <2>4 DEF Snapped
<1>11. CASE scan[v].root = r
  <2>1. ScanAlone(v, r)
    BY <1>7, <1>11
  <2>2. /\ ScanningNow = {v} /\ mount[r].id = scan[v].mid /\ mount[r].status = "SCANNING"
        /\ Catalogued(r)
    BY <1>2, <2>1 DEF ScanAlone
  <2>3. ScanningNow' = {v}
    BY <1>5, <1>6, <2>2 DEF ScanningNow, ScanningIn
  <2>4. Catalogued(r)' /\ Snapped(v, r)'
    BY <1>9, <1>10, <2>2
  <2>5. ScanAlone(v, r)'
    BY <1>2, <1>5, <1>11, <2>2, <2>3, <2>4 DEF ScanAlone
  <2>6. mount'[r].status # "ACTIVE"
    BY <1>2, <2>2
  <2> QED
    BY <1>6, <1>11, <2>2, <2>5, <2>6, MirrorHere
<1>12. CASE scan[v].root # r
  <2>1. mount[r].status = "ACTIVE" => Catalogued(r)' /\ Grouped(r)' /\ Snapped(v, r)'
    BY <1>7, <1>9, <1>10 DEF Mirrored
  <2> QED
    BY <1>2, <1>5, <1>6, <1>7, <1>12, <2>1, MirrorElsewhere
<1> QED
  BY <1>11, <1>12

LEMMA RebuildMirrored ==
  ASSUME CloudInv, MirrorInv, NEW v \in Scanners, Rebuild(v)
  PROVE  MirrorInv'
<1> DEFINE L == {[item |-> f.item, path |-> f.node.name, body |-> f.node.body] :
                  f \in scan[v].found}
<1>1. RowsTyped /\ WorkersTyped
  BY DEF CloudInv
<1>2. scan[v].pc = "rebuild" /\ ScanningIn(v)
  BY DEF Rebuild, ScanningIn
<1>3. CASE ~MayRebuild(v)
  BY <1>2, <1>3, FailMirrored DEF Rebuild
<1>4. CASE MayRebuild(v)
  <2>1. /\ logical' = L
        /\ scan' = [scan EXCEPT ![v] = [scan[v] EXCEPT !.pc = "end", !.found = {}]]
        /\ UNCHANGED <<held, mount, catalog, alone>>
        /\ \A f \in scan[v].found : catalog[f.item].mid = f.node.mid
    BY <1>4 DEF Rebuild, MayRebuild, Goes, clouds, Quiet
  <2>2. scan'[v].pc = "end" /\ scan'[v].mid = scan[v].mid /\ scan'[v].root = scan[v].root
    <3> DEFINE s == [scan[v] EXCEPT !.pc = "end", !.found = {}]
    <3>1. scan'[v] = s
      BY <1>1, <2>1 DEF WorkersTyped
    <3>2. scan[v] \in Grouping
      BY <1>1, <1>2, ScanKinds
    <3>3. s.pc = "end" /\ s.mid = scan[v].mid /\ s.root = scan[v].root
      BY <3>2 DEF Grouping
    <3> HIDE DEF s
    <3> QED
      BY <3>1, <3>3
  <2>3. \A u \in Scanners \ {v} : scan'[u] = scan[u]
    BY <1>1, <2>1 DEF WorkersTyped
  <2>4. \A l \in L : \E f \in scan[v].found :
          l = [item |-> f.item, path |-> f.node.name, body |-> f.node.body]
    OBVIOUS
  <2>5. \A f \in scan[v].found :
          [item |-> f.item, path |-> f.node.name, body |-> f.node.body] \in L
    OBVIOUS
  <2> HIDE DEF L
  <2> SUFFICES ASSUME NEW r \in alone
               PROVE  Mirrored(r)'
    BY <2>1 DEF MirrorInv
  <2>6. /\ r \in Roots /\ mount[r].id # 0 /\ Mirrored(r)
        /\ scan[v].root = r => ScanAlone(v, r)
        /\ scan[v].root # r => mount[r].id # scan[v].mid
    BY <1>2, FolderScanned
  <2>7. In(r)' = In(r)
    BY <2>1 DEF In
  <2>8. Catalogued(r)' <=> Catalogued(r)
    BY <2>1, <2>7 DEF Catalogued, UpToDate
  <2>9. Snapped(v, r) => Grouped(r)'
    <3> SUFFICES ASSUME Snapped(v, r)
                 PROVE  Grouped(r)'
      OBVIOUS
    <3>1. /\ \A f \in scan[v].found : f.node.mid = mount[r].id => f.item \in In(r)
          /\ \A f \in scan[v].found : f.item \in In(r) =>
               f.node = [mid |-> mount[r].id, name |-> held[f.item].name,
                         body |-> held[f.item].body, status |-> "ACTIVE"]
          /\ \A i \in In(r) : \E f \in scan[v].found : f.item = i
      BY <1>2 DEF Snapped
    <3>2. \A f \in scan[v].found : f.item \in In(r) =>
            [item |-> f.item, path |-> f.node.name, body |-> f.node.body] = ReplicaOf(f.item)
      <4> SUFFICES ASSUME NEW f \in scan[v].found, f.item \in In(r)
                   PROVE  f.node.name = held[f.item].name /\ f.node.body = held[f.item].body
        BY DEF ReplicaOf
      <4> DEFINE n == [mid |-> mount[r].id, name |-> held[f.item].name,
                       body |-> held[f.item].body, status |-> "ACTIVE"]
      <4>1. n.name = held[f.item].name /\ n.body = held[f.item].body
        OBVIOUS
      <4>2. f.node = n
        BY <3>1
      <4> HIDE DEF n
      <4> QED
        BY <4>1, <4>2
    <3>3. ASSUME NEW l \in L, catalog[l.item].mid = mount[r].id
          PROVE  l.item \in In(r) /\ l = ReplicaOf(l.item)
      <4>1. PICK f \in scan[v].found :
              l = [item |-> f.item, path |-> f.node.name, body |-> f.node.body]
        BY <2>4
      <4>2. l.item = f.item
        BY <4>1
      <4>3. f.item \in In(r)
        BY <2>1, <3>1, <3>3, <4>2
      <4> QED
        BY <3>2, <4>1, <4>2, <4>3
    <3>4. \A i \in In(r) : ReplicaOf(i) \in L
      BY <2>5, <3>1, <3>2
    <3> QED
      BY <2>1, <2>7, <3>3, <3>4 DEF Grouped, ReplicaOf
  <2>10. CASE scan[v].root = r
    <3>1. ScanAlone(v, r)
      BY <2>6, <2>10
    <3>2. /\ ScanningNow = {v} /\ mount[r].id = scan[v].mid /\ mount[r].status = "SCANNING"
          /\ Catalogued(r) /\ Snapped(v, r)
      BY <1>2, <3>1 DEF ScanAlone
    <3>3. ScanningNow' = {v}
      BY <2>2, <2>3, <3>2 DEF ScanningNow, ScanningIn
    <3>4. ScanAlone(v, r)'
      BY <2>1, <2>2, <2>8, <2>9, <2>10, <3>2, <3>3 DEF ScanAlone, Snapped
    <3>5. mount'[r].status # "ACTIVE"
      BY <2>1, <3>2
    <3> QED
      BY <2>3, <2>10, <3>2, <3>4, <3>5, MirrorHere
  <2>11. CASE scan[v].root # r
    <3>1. Snapped(v, r)'
      BY <2>2 DEF Snapped
    <3>2. mount[r].status = "ACTIVE" => Catalogued(r)' /\ Grouped(r)' /\ Snapped(v, r)'
      BY <2>6, <2>8, <2>9, <3>1 DEF Mirrored
    <3> QED
      BY <1>2, <2>1, <2>2, <2>3, <2>6, <2>11, <3>2, MirrorElsewhere
  <2> QED
    BY <2>10, <2>11
<1> QED
  BY <1>3, <1>4

LEMMA MirrorStep ==
  ASSUME CloudInv, MirrorInv, [MulticloudNext]_multicloudVars
  PROVE  MirrorInv'
<1>1. CASE UNCHANGED multicloudVars
  BY <1>1, MirrorKept DEF multicloudVars
<1>2. CASE \E r \in Roots : UserChanges(r) \/ Unmount(r)
  BY <1>2, UserMirrored, UnmountMirrored
<1>3. ASSUME NEW v \in Scanners, Scan(v)
      PROVE  MirrorInv'
  <2>1. CASE BeginScan(v)
    BY <2>1, BeginMirrored
  <2>2. CASE RefuseScan(v)
    BY <2>2, RefusalMirrored
  <2>3. CASE ListChildren(v)
    BY <2>3, ListMirrored
  <2>4. CASE ListFails(v)
    BY <2>4, FailMirrored DEF ListFails, ScanningIn
  <2>5. CASE SaveOne(v)
    BY <2>5, SaveMirrored
  <2>6. CASE MarkMissing(v)
    BY <2>6, MarkMirrored
  <2>7. CASE ReadNodes(v)
    BY <2>7, ReadMirrored
  <2>8. CASE Rebuild(v)
    BY <2>8, RebuildMirrored
  <2>9. CASE EndScan(v)
    BY <2>9, EndMirrored
  <2> QED
    BY <1>3, <2>1, <2>2, <2>3, <2>4, <2>5, <2>6, <2>7, <2>8, <2>9 DEF Scan
<1>4. CASE \E v \in Scanners, r \in Roots : Mount(v, r) \/ PressScan(v, r)
  BY <1>4, MountMirrored
<1>5. CASE BuildPlan \/ PlanObject \/ ShowPlan \/ Refuse \/ Authorize
  <2>1. UNCHANGED <<held, mount, catalog, logical, scan, alone>>
    BY <1>5 DEF BuildPlan, PlanObject, ShowPlan, Refuse, Authorize, clouds, tables, Quiet
  <2> QED
    BY <2>1, MirrorKept
<1>6. CASE Run
  <2>1. CASE Copy
    BY <2>1, CopyMirrored
  <2>2. CASE ~Copy
    <3>1. UNCHANGED <<held, mount, catalog, logical, scan, alone>>
      BY <1>6, <2>2 DEF Run, BeginRun, RefuseRun, TakeAction, CheckTarget, ProviderFails,
         Record, Interrupted, Finished, EndRun, ActionFails, OnlyPlans, clouds, Quiet
    <3> QED
      BY <3>1, MirrorKept
  <2> QED
    BY <2>1, <2>2
<1>7. CASE ProcessDies
  BY <1>7, DeathMirrored
<1> QED
  BY <1>1, <1>2, <1>3, <1>4, <1>5, <1>6, <1>7 DEF MulticloudNext

LEMMA InventoryIsFaithful ==
  ASSUME CloudInv, MirrorInv
  PROVE  InventoryFaithful
<1> SUFFICES ASSUME NEW r \in Mounted \cap alone, mount[r].status = "ACTIVE"
             PROVE  LET here == {[item |-> i, path |-> held[i].name, body |-> held[i].body] :
                                   i \in In(r)}
                        rows == {i \in Nodes(mount[r].id) : catalog[i].status = "ACTIVE"}
                    IN /\ {[item |-> i, path |-> catalog[i].name, body |-> catalog[i].body] :
                             i \in rows} = here
                       /\ {l \in logical : catalog[l.item].mid = mount[r].id} = here
  BY DEF InventoryFaithful
<1> DEFINE here == {[item |-> i, path |-> held[i].name, body |-> held[i].body] : i \in In(r)}
           rows == {i \in Nodes(mount[r].id) : catalog[i].status = "ACTIVE"}
<1>1. Catalogued(r) /\ Grouped(r)
  BY DEF MirrorInv, Mirrored
<1>2. \A i \in In(r) : i \in Items /\ UpToDate(i, mount[r].id)
  BY <1>1 DEF Catalogued, In
<1>3. \A i \in In(r) : /\ catalog[i].mid = mount[r].id /\ catalog[i].name = held[i].name
                       /\ catalog[i].body = held[i].body /\ catalog[i].status = "ACTIVE"
  BY <1>2, RowUpToDate
<1>4. rows = In(r)
  <2>1. \A i \in rows : i \in In(r)
    BY <1>1 DEF Catalogued, Nodes
  <2>2. \A i \in In(r) : i \in rows
    BY <1>2, <1>3 DEF Nodes
  <2> QED
    BY <2>1, <2>2
<1>5. {[item |-> i, path |-> catalog[i].name, body |-> catalog[i].body] : i \in rows} = here
  BY <1>3, <1>4
<1>6. here = {ReplicaOf(i) : i \in In(r)}
  BY DEF ReplicaOf
<1>7. {l \in logical : catalog[l.item].mid = mount[r].id} = {ReplicaOf(i) : i \in In(r)}
  <2>1. \A i : ReplicaOf(i).item = i
    BY DEF ReplicaOf
  <2>2. \A l \in logical : catalog[l.item].mid = mount[r].id =>
          \E i \in In(r) : l = ReplicaOf(i)
    BY <1>1 DEF Grouped
  <2>3. \A i \in In(r) : ReplicaOf(i) \in logical /\ catalog[ReplicaOf(i).item].mid = mount[r].id
    BY <1>1, <1>3, <2>1 DEF Grouped
  <2> QED
    BY <2>2, <2>3
<1> QED
  BY <1>5, <1>6, <1>7

(***************************************************************************)
(* A scan that met no other scan, over a folder nobody changed, and that   *)
(* reports success leaves the mirror equal to the folder, for any folders, *)
(* scans and earlier failures.                                             *)
(***************************************************************************)
THEOREM MirrorEqualsFolder == MulticloudSpec => []InventoryFaithful
<1>1. MulticloudInit => MirrorInv
  BY DEF MulticloudInit, MirrorInv
<1>2. CloudInv /\ MirrorInv /\ [MulticloudNext]_multicloudVars => MirrorInv'
  BY MirrorStep
<1>3. CloudInv /\ MirrorInv => InventoryFaithful
  BY InventoryIsFaithful
<1> QED
  BY <1>1, <1>2, <1>3, CloudsInvariant, PTL DEF MulticloudSpec

=============================================================================
