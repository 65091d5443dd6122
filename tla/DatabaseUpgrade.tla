---------------------------- MODULE DatabaseUpgrade ----------------------------
(***************************************************************************)
(* The start of the program on a database of any earlier version.          *)
(*                                                                         *)
(* The upgrade is a script of statements, each committed as it is done up  *)
(* to version 24, whose own part is one transaction.  The version is       *)
(* written last, so that a start after an interruption runs the script     *)
(* again from the version it began with: every step must stand being done  *)
(* twice, and none may lose a row on the way.  An interruption is the      *)
(* death of the process or a statement the database refuses; both close    *)
(* the connection, and the user starts the program again.                  *)
(***************************************************************************)
EXTENDS Naturals, FiniteSets

CONSTANTS
    Orgs,              \* rows of organizations, in the order of their ids
    Users,             \* rows of users, in the order of their ids
    Databases,         \* the databases the program may be started on
    MaxInterruptions,  \* bound on the starts that do not reach the end
    Absent,            \* the value of a column that is not there yet
    Null

ASSUME OrderAssumption ==
    Orgs \subseteq Nat /\ Orgs # {} /\ IsFiniteSet(Orgs) /\ Users \subseteq Nat
ASSUME NullAssumption == Null \notin Nat
ASSUME BoundAssumption == MaxInterruptions \in Nat

Current == 24

\* Tables that are rebuilt: renamed, made again, filled and the old one dropped.
Evidence == {"document_request_documents", "document_delivery_items", "sync_jobs"}
Cloud == {"cloud_settings", "cloud_folder_mappings", "cloud_accounts"}
Tables == Evidence \cup Cloud \cup {"document_requests"}

\* The version each part of the schema came with.
Introduced ==
    [history |-> 1, documents |-> 2, people |-> 12, quotas |-> 13, profile_code |-> 14,
     organization_feature_settings |-> 15, transport_jobs |-> 16,
     organization_transport_targets |-> 17, document_deliveries |-> 18,
     cloud_folder_adoption |-> 19, delivery_acknowledgement_receipts |-> 20,
     remote_mounts |-> 22, validation_records |-> 23, public_uuid |-> 24]

Parts == DOMAIN Introduced
PartsOf(v) == {p \in Parts : Introduced[p] <= v}

VARIABLES
    db,      \* the database, as the connection of the program sees it
    saved,   \* the database before the transaction that is open
    step,    \* the statement that comes next
    count,   \* interruptions so far
    before,  \* history: the database the program was first started on
    hurt     \* history: what an interruption between two statements has spoilt

upgradeVars == <<db, saved, step, count, before, hurt>>

\* A statement, by what it does and to which table.
Do(what, table) == <<what, table>>

Off  == Do("off", "all")
Done == Do("done", "all")

Least(S) == CHOOSE x \in S : \A y \in S : x <= y

\* A row of organizations; "enabled" is Absent until its features are written.
NoOrganization == [status |-> "none", template |-> "EMPTY", profile |-> "EMPTY",
                   enabled |-> Absent, used |-> Absent]

Empty(shape) == [shape |-> shape, rows |-> {}]

\* A table that is not in the database.
NoTable == Empty("none")

\* A row of cloud_settings.
Setting(o, mode, account) == [org |-> o, mode |-> mode, account |-> account]

\* A database of version v with one organization and nothing else in it.
Base(v) ==
    [version |-> v,
     made    |-> PartsOf(v),
     org     |-> [o \in Orgs |->
         IF v < 2 \/ o # Least(Orgs) THEN NoOrganization
         ELSE [NoOrganization EXCEPT
                   !.status = "ACTIVE",
                   !.enabled = IF v < 15 THEN Absent ELSE {},
                   !.used = IF v < 13 THEN Absent ELSE 0]],
     docs    |-> [d \in {} |-> Null],
     admins  |-> {},
     users   |-> {},
     now     |-> [t \in Tables |->
         IF v < 2 \/ (t = "document_requests" /\ v < 14)
                  \/ (t \in Evidence \ {"sync_jobs"} /\ v < 18) THEN NoTable
         ELSE CASE t = "document_requests" -> Empty(IF v < 18 THEN "old" ELSE "new")
           [] t = "cloud_settings" ->
                  [shape |-> IF v < 21 THEN "old" ELSE "new",
                   rows  |-> {Setting(Least(Orgs), "LOCAL", Null)}]
           [] OTHER -> Empty(IF v < 21 THEN "old" ELSE "new")],
     aside   |-> [t \in Tables |-> NoTable],
     orphans |-> {},
     parent  |-> "cloud_accounts",
     endpoint |-> Null,
     active  |-> Null,
     jobs    |-> {},
     history |-> {},
     audit   |-> [h \in {} |-> 0]]

\* No two rows have the same key.
Keyed(rows, key) == \A r, s \in rows : r[key] = s[key] => r = s

Held(d, o) == Cardinality({x \in DOMAIN d.docs : d.docs[x] = o})

\* The shape of a database of any version: its tables, and their keys.
WellFormed(d) ==
    /\ d.version \in 0 .. Current
    /\ DOMAIN d = DOMAIN Base(0)
    /\ DOMAIN d.org = Orgs
    /\ \A o \in Orgs : DOMAIN d.org[o] = DOMAIN NoOrganization
    /\ DOMAIN d.now = Tables
    /\ \A t \in Tables : d.now[t] = [shape |-> d.now[t].shape, rows |-> d.now[t].rows]
    /\ d.users \subseteq Users
    /\ \A j \in d.jobs : DOMAIN j = {"id", "path", "target"}
    /\ LET requests == d.now["document_requests"].rows IN
           Keyed(requests, "id") /\ \A r \in requests : DOMAIN r = {"id", "org", "uuid"}
    /\ LET accounts == d.now["cloud_accounts"].rows IN
           Keyed(accounts, "id") /\ IsFiniteSet(accounts) /\ \A a \in accounts : a.id \in Nat
    /\ LET settings == d.now["cloud_settings"].rows IN
           Keyed(settings, "org")
           /\ \A s \in settings : s.org \in Orgs /\ s = Setting(s.org, s.mode, s.account)
    /\ \A m \in d.now["cloud_folder_mappings"].rows :
           DOMAIN m = {"org", "provider", "account"}

\* What the programs before this one leave: the parts of their version, the
\* tables under their names, and what the upgrades to it have established.
LeftByProgram(d) ==
    /\ WellFormed(d)
    /\ d.made = {} => d = Base(0)
    /\ d.made \subseteq PartsOf(IF d.version = 0 THEN 1 ELSE d.version)
    /\ d.aside = [t \in Tables |-> NoTable] /\ d.parent = "cloud_accounts"
    /\ LET requests == d.now["document_requests"] IN
           /\ requests.shape = "new" => \A r \in requests.rows : r.uuid = "own"
           /\ d.version > 20 => requests.shape = "new"
    /\ IF d.version < Introduced.quotas THEN \A o \in Orgs : d.org[o].used = Absent
       ELSE /\ \A x \in DOMAIN d.docs : d.docs[x] # Null
            /\ \A o \in Orgs : d.org[o].used = IF d.org[o].status = "none" THEN Absent
                                               ELSE Held(d, o)
    /\ d.version > 20 /\ d.users # {} => d.admins \cap d.users # {}
    /\ d.version < Current => d.audit = [h \in {} |-> 0]

ASSUME DatabasesAssumption == \A d \in Databases : LeftByProgram(d)

UpgradeInit ==
    /\ db \in Databases
    /\ saved = Null
    /\ step = Off
    /\ count = 0
    /\ before = db
    /\ hurt = {}

-----------------------------------------------------------------------------
(* One statement, and what its failure or the death of the process leaves. *)

Statement(s, next) ==
    /\ step = s
    /\ step' = next
    /\ UNCHANGED <<saved, count, before, hurt>>

Plain(s, next) == Statement(Do(s, "all"), Do(next, "all"))

\* What an interruption just before the next statement spoils: the step that
\* is not done again, the table that stands in the way of the next attempt.
Harm ==
    UNION {IF step = Do("profile", "fill") THEN {"profile"} ELSE {},
           IF step = Do("copy", "document_requests") THEN {"requests"} ELSE {},
           IF step \in {Do("drop", "document_requests"), Do("renew", "all")}
           THEN {"ids"} ELSE {},
           IF step = Do("create", "document_requests")
              \/ \E t \in Evidence \cup Cloud : db.aside[t] # NoTable
           THEN {"stuck"} ELSE {},
           IF "remote_mounts" \in db.made /\ db.version < 21
           THEN {"mounts"} ELSE {}}

\* What is in the file: without the transaction that is open, if one is.
Committed == IF step \in {Do("enterprise", "all"), Do("commit", "all")} THEN saved ELSE db

Interrupt ==
    /\ step \notin {Off, Done}
    /\ count < MaxInterruptions
    /\ count' = count + 1
    /\ hurt' = hurt \cup Harm
    /\ db' = Committed
    /\ saved' = Null
    /\ step' = Off
    /\ UNCHANGED before

\* A statement that can never succeed: DatabaseError, and the program ends.
Refused(s) ==
    /\ step = s
    /\ db' = Committed
    /\ saved' = Null
    /\ step' = Off
    /\ UNCHANGED <<count, before, hurt>>

Add(parts) == db' = [db EXCEPT !.made = @ \cup parts]

\* CREATE TABLE IF NOT EXISTS
Ensured(tables, shape) ==
    [t \in Tables |-> IF t \in tables /\ db.now[t] = NoTable THEN Empty(shape)
                      ELSE db.now[t]]

\* ALTER TABLE t RENAME TO t_v17 or t_v20.  The references of other tables
\* follow the name, those of remote_mounts to cloud_accounts among them.
Renamed(t) ==
    [db EXCEPT !.aside[t] = db.now[t], !.now[t] = NoTable,
               !.parent = IF t = "cloud_accounts" /\ "remote_mounts" \in db.made
                          THEN "cloud_accounts_v20" ELSE @]

SetAside(t, next) ==
    \/ /\ db.aside[t] = NoTable
       /\ db' = Renamed(t)
       /\ Statement(Do("aside", t), next)
    \/ db.aside[t] # NoTable /\ Refused(Do("aside", t))

Create(t, next) ==
    /\ Statement(Do("create", t), next)
    /\ db' = [db EXCEPT !.now[t] = Empty("new")]

Copy(t, next) ==
    /\ Statement(Do("copy", t), next)
    /\ db' = [db EXCEPT !.now[t].rows = db.aside[t].rows]

Drop(t, next) ==
    /\ Statement(Do("drop", t), next)
    /\ db' = [db EXCEPT !.aside[t] = NoTable]

-----------------------------------------------------------------------------
(* The start, and the schema of a new database.                            *)

FirstStep ==
    CASE db.version = 0 -> Do("legacy", "all")
      [] db.version \in 1 .. 20 -> Do("documents", "all")
      [] db.version = 21 -> Do("multicloud", "all")
      [] db.version = 22 -> Do("validation", "all")
      [] db.version = 23 -> Do("begin", "all")
      [] OTHER -> Done

\* A database with tables and version 0 is taken for one of version 1.
Start ==
    /\ step = Off
    /\ step' = IF db.version = 0 /\ db.made = {} THEN Do("schema", "tables") ELSE FirstStep
    /\ UNCHANGED <<db, saved, count, before, hurt>>

SchemaTables ==
    /\ Statement(Do("schema", "tables"), Do("schema", "rows"))
    /\ db' = [db EXCEPT !.made = Parts \ {"history", "documents", "quotas",
                                          "remote_mounts", "validation_records"},
                        !.now = Ensured(Tables \ {"sync_jobs"}, "new")]

SchemaRows ==
    LET o == Least(Orgs) IN
    /\ Statement(Do("schema", "rows"), Do("schema", "mounts"))
    /\ db' = [db EXCEPT
           !.made = @ \cup {"history", "documents", "quotas"},
           !.org[o] = [@ EXCEPT !.status = "ACTIVE", !.used = 0],
           !.now = [Ensured({"sync_jobs"}, "new") EXCEPT
               !["cloud_settings"].rows = {Setting(o, "LOCAL", Null)}]]

SchemaMounts ==
    /\ Statement(Do("schema", "mounts"), Do("schema", "version"))
    /\ Add({"remote_mounts", "validation_records"})

SchemaVersion ==
    /\ Statement(Do("schema", "version"), Done)
    /\ db' = [db EXCEPT !.version = Current]

-----------------------------------------------------------------------------
(* Up to version 17: columns, organizations, quotas, profiles, transport.  *)

Exists(o) == db.org[o].status # "none"

CreateLegacyTables ==
    /\ Plain("legacy", "documents")
    /\ Add({"history"})

UpgradeDocuments ==
    /\ Plain("documents", "organizations")
    /\ Add({"documents"})

\* Raises TypeError, which nothing catches, when every organization is archived.
UpgradeOrganizations ==
    LET org  == IF \E o \in Orgs : Exists(o) THEN db.org
                ELSE [db.org EXCEPT ![Least(Orgs)].status = "ACTIVE"]
        open == {o \in Orgs : org[o].status = "ACTIVE"}
    IN  \/ /\ open # {}
           /\ Plain("organizations", "cloud")
           /\ db' = [db EXCEPT
                  !.org = org,
                  !.docs = [d \in DOMAIN @ |-> IF @[d] = Null THEN Least(open) ELSE @[d]]]
        \/ open = {} /\ Refused(Do("organizations", "all"))

HasSetting(o, rows) == \E r \in rows : r.org = o

LocalSettings(rows) ==
    {Setting(o, "LOCAL", Null) : o \in {x \in Orgs : Exists(x) /\ ~HasSetting(x, rows)}}

UpgradeCloud ==
    LET now == Ensured({"cloud_accounts", "cloud_settings", "sync_jobs"}, "old") IN
    /\ Plain("cloud", "people")
    /\ db' = [db EXCEPT !.now =
           [now EXCEPT !["cloud_settings"].rows = @ \cup LocalSettings(@)]]

\* The first active user becomes the administrator when there is none.
UpgradePeople ==
    /\ Plain("people", "quotas")
    /\ db' = [db EXCEPT !.made = @ \cup {"people"},
                        !.admins = IF @ \cap db.users # {} \/ db.users = {} THEN @
                                   ELSE @ \cup {Least(db.users)}]

UpgradeQuotas ==
    /\ Plain("quotas", "folders")
    /\ db' = [db EXCEPT
           !.made = @ \cup {"quotas"},
           !.org = [o \in Orgs |->
               IF @[o].used = Absent /\ Exists(o)
               THEN [@[o] EXCEPT !.used = Held(db, o)]
               ELSE @[o]]]

UpgradeCloudFolders ==
    /\ Statement(Do("folders", "all"), Do("profile", "add"))
    /\ db' = [db EXCEPT !.made = @ \cup {"cloud_folder_adoption"},
                        !.now = Ensured({"cloud_folder_mappings"}, "old")]

AddProfile ==
    IF "profile_code" \in db.made
    THEN Statement(Do("profile", "add"), Do("profile", "tables")) /\ UNCHANGED db
    ELSE Statement(Do("profile", "add"), Do("profile", "fill")) /\ Add({"profile_code"})

FillProfile ==
    /\ Statement(Do("profile", "fill"), Do("profile", "tables"))
    /\ db' = [db EXCEPT !.org = [o \in Orgs |-> [@[o] EXCEPT !.profile = db.org[o].template]]]

ProfileTables ==
    /\ Statement(Do("profile", "tables"), Do("features", "all"))
    /\ db' = [db EXCEPT !.now = Ensured({"document_requests"}, "old")]

\* What an organization has enabled at first: what its profile gives, and for a
\* business only what it already uses.  Features no step depends on are left out.
InUse(o) ==
    UNION {IF db.endpoint # Null THEN {"server_transport"} ELSE {},
           IF \E r \in db.now["document_requests"].rows : r.org = o
           THEN {"document_requests"} ELSE {},
           IF \E r \in db.now["cloud_settings"].rows :
                  r.org = o /\ (r.mode # "LOCAL" \/ r.account # Null)
           THEN {"cloud_sync"} ELSE {}}

FirstFeatures(o) ==
    CASE db.org[o].profile = "BUSINESS" -> InUse(o)
      [] db.org[o].profile = "STUDENT" -> {"cloud_sync"}
      [] OTHER -> {}

UpgradeFeatures ==
    /\ Plain("features", "jobs")
    /\ db' = [db EXCEPT
           !.made = @ \cup {"organization_feature_settings"},
           !.org = [o \in Orgs |->
               IF Exists(o) /\ @[o].enabled = Absent
               THEN [@[o] EXCEPT !.enabled = FirstFeatures(o)] ELSE @[o]]]

UpgradeTransportJobs ==
    /\ Statement(Do("jobs", "all"), Do("targets", "create"))
    /\ Add({"transport_jobs"})

CreateTarget ==
    /\ Statement(Do("targets", "create"), Do("targets", "jobs"))
    /\ db' = [db EXCEPT !.made = @ \cup {"organization_transport_targets"},
                        !.active = IF @ = Null THEN db.endpoint ELSE @]

\* Every job, one already bound to a target too: a path under the active target
\* is the only proof of where it belongs.
BindJob(j) == [j EXCEPT !.target = IF j.path # Null /\ j.path = db.active
                                   THEN db.active ELSE Null]

BindJobs ==
    /\ Statement(Do("targets", "jobs"), Do("aside", "document_requests"))
    /\ db' = [db EXCEPT !.jobs = {BindJob(j) : j \in @}]

-----------------------------------------------------------------------------
(* Versions 18 to 21: requests, deliveries, evidence, ownership of accounts. *)

SetRequestsAside ==
    /\ step = Do("aside", "document_requests")
    /\ IF db.now["document_requests"].shape = "new"
       THEN Statement(step, Do("delivery", "all")) /\ UNCHANGED db
       ELSE SetAside("document_requests", Do("create", "document_requests"))

CreateRequests == Create("document_requests", Do("copy", "document_requests"))

CopyRequests ==
    /\ Statement(Do("copy", "document_requests"), Do("drop", "document_requests"))
    /\ db' = [db EXCEPT !.now["document_requests"].rows =
           {[r EXCEPT !.uuid = "legacy"] : r \in db.aside["document_requests"].rows}]

DropRequests == Drop("document_requests", Do("renew", "all"))

RenewRequestIds ==
    LET rows == db.now["document_requests"].rows
        old  == {r \in rows : r.uuid = "legacy"}
    IN  \/ \E r \in old :
           /\ \A x \in old : r.id <= x.id
           /\ Plain("renew", "renew")
           /\ db' = [db EXCEPT !.now["document_requests"].rows =
                  (rows \ {r}) \cup {[r EXCEPT !.uuid = "own"]}]
        \/ Plain("renew", "delivery") /\ old = {} /\ UNCHANGED db

UpgradeDelivery ==
    /\ Plain("delivery", "receipts")
    /\ db' = [db EXCEPT !.made = @ \cup {"document_deliveries"},
                        !.now = Ensured(Evidence, "old")]

\* Mutant: CREATE TABLE without IF NOT EXISTS.
UpgradeReceiptsOnce ==
    IF "delivery_acknowledgement_receipts" \in db.made THEN Refused(Do("receipts", "all"))
    ELSE /\ Statement(Do("receipts", "all"), Do("aside", "document_request_documents"))
         /\ Add({"delivery_acknowledgement_receipts"})

UpgradeReceipts ==
    /\ Statement(Do("receipts", "all"), Do("aside", "document_request_documents"))
    /\ Add({"delivery_acknowledgement_receipts"})

AfterEvidence(t) ==
    CASE t = "document_request_documents" -> Do("aside", "document_delivery_items")
      [] t = "document_delivery_items" -> Do("aside", "sync_jobs")
      [] OTHER -> Do("aside", "cloud_settings")

RebuildEvidence ==
    \E t \in Evidence :
        \/ SetAside(t, Do("create", t))
        \/ Create(t, Do("copy", t))
        \/ Copy(t, Do("drop", t))
        \/ Drop(t, AfterEvidence(t))

SetCloudAside ==
    \/ SetAside("cloud_settings", Do("aside", "cloud_folder_mappings"))
    \/ SetAside("cloud_folder_mappings", Do("aside", "cloud_accounts"))
    \/ SetAside("cloud_accounts", Do("create", "cloud"))

CreateCloud ==
    /\ Statement(Do("create", "cloud"), Do("fill", "all"))
    /\ db' = [db EXCEPT !.now = Ensured(Cloud, "new")]

\* The account a row of cloud_settings uses, if it is one of its own provider.
UsedAccounts(s) ==
    {a \in db.aside["cloud_accounts"].rows : a.id = s.account /\ a.provider = s.mode}

OldSettings == db.aside["cloud_settings"].rows
Linked == {s \in OldSettings : UsedAccounts(s) # {}}
AccountOf(s) == CHOOSE a \in UsedAccounts(s) : TRUE

\* Mutant: the secret two accounts share is not looked at.
KeepsAccount(s) == \A r \in Linked : r.org < s.org => r.account # s.account

\* The first organization keeps the account and its secret; one that shares the
\* account, or the secret through another account, connects again.
KeepsSecret(s) ==
    \A r \in Linked : r.org < s.org =>
        /\ r.account # s.account
        /\ AccountOf(s).token # Null => AccountOf(r).token # AccountOf(s).token

NewId(s) ==
    IF KeepsSecret(s) THEN s.account
    ELSE Cardinality({r \in Linked : r.org <= s.org /\ ~KeepsSecret(r)})
         + (CHOOSE n \in {a.id : a \in db.aside["cloud_accounts"].rows} :
                \A a \in db.aside["cloud_accounts"].rows : a.id <= n)

NewAccount(s) ==
    [id |-> NewId(s), org |-> s.org, provider |-> s.mode,
     token  |-> IF KeepsSecret(s) THEN AccountOf(s).token ELSE Null,
     status |-> IF KeepsSecret(s) THEN AccountOf(s).status ELSE "REAUTH_REQUIRED"]

NewSetting(s) ==
    IF s \in Linked THEN [s EXCEPT !.account = NewId(s)]
    ELSE [s EXCEPT !.account = Null, !.mode = "LOCAL"]

\* A mapping that names no account takes the one of its organization's settings.
NewMappings ==
    LET OldId(m) == IF m.account # Null THEN m.account
                    ELSE LET s == {x \in OldSettings : x.org = m.org} IN
                         IF s = {} THEN Null ELSE (CHOOSE x \in s : TRUE).account
        Owner(m) == {s \in Linked : s.org = m.org /\ s.account = OldId(m)}
    IN  {[m EXCEPT !.account = Null] :
            m \in {x \in db.aside["cloud_folder_mappings"].rows : OldId(x) = Null}}
        \cup
        {[m EXCEPT !.account = NewId(CHOOSE s \in Owner(m) : TRUE)] :
            m \in {x \in db.aside["cloud_folder_mappings"].rows :
                      \E s \in Owner(x) : s.mode = x.provider}}

FillCloud ==
    LET settings == {NewSetting(s) : s \in OldSettings} IN
    /\ Plain("fill", "orphans")
    /\ db' = [db EXCEPT !.now = [@ EXCEPT
           !["cloud_accounts"].rows = {NewAccount(s) : s \in Linked},
           !["cloud_settings"].rows = settings \cup LocalSettings(settings),
           !["cloud_folder_mappings"].rows = NewMappings]]

Secrets(table) == {a.token : a \in table.rows} \ {Null}

\* Mutant: the list is written also when nothing is left to list.
ListOrphansAgain ==
    LET left == Secrets(db.aside["cloud_accounts"]) \ Secrets(db.now["cloud_accounts"]) IN
    /\ Statement(Do("orphans", "all"), Do("drop", "cloud_folder_mappings"))
    /\ db' = [db EXCEPT !.orphans = left]

\* Secrets no account holds any more, left to the next start to be revoked.
ListOrphans ==
    LET left == Secrets(db.aside["cloud_accounts"]) \ Secrets(db.now["cloud_accounts"]) IN
    /\ Statement(Do("orphans", "all"), Do("drop", "cloud_folder_mappings"))
    /\ db' = [db EXCEPT !.orphans = IF left = {} THEN @ ELSE left]

DropCloud ==
    \/ Drop("cloud_folder_mappings", Do("drop", "cloud_settings"))
    \/ Drop("cloud_settings", Do("drop", "cloud_accounts"))
    \/ Drop("cloud_accounts", Do("multicloud", "all"))

-----------------------------------------------------------------------------
(* Versions 22, 23 and 24.                                                 *)

UpgradeMulticloud ==
    /\ Plain("multicloud", "validation")
    /\ db' = [db EXCEPT
           !.made = @ \cup {"remote_mounts"},
           !.org = [o \in Orgs |->
               IF Exists(o) /\ db.org[o].profile = "STUDENT"
               THEN [db.org[o] EXCEPT
                         !.enabled = db.org[o].enabled \cup {"multicloud_workspace"}]
               ELSE db.org[o]]]

UpgradeValidation ==
    /\ Plain("validation", "begin")
    /\ Add({"validation_records"})

BeginEnterprise ==
    /\ step = Do("begin", "all")
    /\ step' = Do("enterprise", "all")
    /\ saved' = db
    /\ UNCHANGED <<db, count, before, hurt>>

\* Public identities, and the old history copied into the audit log.
UpgradeEnterprise ==
    /\ Plain("enterprise", "commit")
    /\ db' = [db EXCEPT
           !.made = @ \cup {"public_uuid"},
           !.audit = [h \in DOMAIN @ \cup db.history |->
               (IF h \in DOMAIN @ THEN @[h] ELSE 0) + (IF h \in db.history THEN 1 ELSE 0)]]

CommitVersion ==
    /\ step = Do("commit", "all")
    /\ step' = Done
    /\ db' = [db EXCEPT !.version = Current]
    /\ saved' = Null
    /\ UNCHANGED <<count, before, hurt>>

-----------------------------------------------------------------------------

Upgrade ==
    \/ SchemaTables \/ SchemaRows \/ SchemaMounts \/ SchemaVersion
    \/ CreateLegacyTables \/ UpgradeDocuments \/ UpgradeOrganizations \/ UpgradeCloud
    \/ UpgradePeople \/ UpgradeQuotas \/ UpgradeCloudFolders
    \/ AddProfile \/ FillProfile \/ ProfileTables \/ UpgradeFeatures
    \/ UpgradeTransportJobs \/ CreateTarget \/ BindJobs
    \/ SetRequestsAside \/ CreateRequests \/ CopyRequests \/ DropRequests
    \/ RenewRequestIds \/ UpgradeDelivery \/ UpgradeReceipts
    \/ RebuildEvidence \/ SetCloudAside \/ CreateCloud \/ FillCloud \/ ListOrphans
    \/ DropCloud \/ UpgradeMulticloud \/ UpgradeValidation
    \/ BeginEnterprise \/ UpgradeEnterprise \/ CommitVersion

UpgradeNext == Start \/ Upgrade \/ Interrupt

UpgradeSpec == UpgradeInit /\ [][UpgradeNext]_upgradeVars

\* The user starts the program again, and the program goes on.
UpgradeFairSpec == UpgradeSpec /\ WF_upgradeVars(Start \/ Upgrade)

-----------------------------------------------------------------------------
(* Properties.                                                             *)

RowIds(table) == {r.id : r \in table.rows}

\* Whatever the interruption, a request, a piece of evidence or a queued job of
\* the old database is in its table or in the one put aside, and the secret of
\* every account is with an account or among those to be revoked: no table is
\* dropped before what it holds is elsewhere (_upgrade_document_delivery,
\* _upgrade_integrity_and_cloud_ownership_v21).
NothingDropped ==
    /\ \A t \in Evidence \cup {"document_requests"} :
           RowIds(before.now[t]) \subseteq RowIds(db.now[t]) \cup RowIds(db.aside[t])
    /\ Secrets(before.now["cloud_accounts"]) \subseteq
           Secrets(db.now["cloud_accounts"]) \cup Secrets(db.aside["cloud_accounts"])
           \cup db.orphans

LeftBehind(t) == db.aside[t] # NoTable

\* An upgraded database is what the old one was, in the new form, however often
\* the upgrade was interrupted, except for the four places where an interruption
\* leaves something the next start cannot see (`hurt`): nothing is left aside,
\* requests are complete, each there once and with an identity of its own, a
\* profile follows its template, mounts can be made, the space used is counted,
\* an active user administers, a job bound to a target is where its file went,
\* and each entry of the old history is in the audit log once (migrate).
UpgradedIsWhole ==
    step = Done /\ before.version < Current =>
        /\ \A t \in Tables : LeftBehind(t) =>
               t = "document_requests" /\ hurt \cap {"requests", "ids"} # {}
        /\ "requests" \notin hurt =>
               RowIds(db.now["document_requests"]) = RowIds(before.now["document_requests"])
        /\ \A r, s \in db.now["document_requests"].rows : r.id = s.id => r = s
        /\ "ids" \notin hurt =>
               \A r \in db.now["document_requests"].rows : r.uuid = "own"
        /\ "profile" \notin hurt /\ before.version < Introduced.profile_code =>
               \A o \in Orgs : db.org[o].profile = db.org[o].template
        /\ "mounts" \notin hurt => db.parent = "cloud_accounts"
        /\ \A o \in Orgs : Exists(o) => db.org[o].used = Held(db, o)
        /\ db.users # {} => db.admins \cap db.users # {}
        /\ \A j \in db.jobs : before.version < 21 /\ j.target # Null => j.path = j.target
        /\ db.audit = [h \in db.history |-> 1]

\* The upgrade loses nothing on its way and leaves nothing undone.
DatabaseKept == NothingDropped /\ UpgradedIsWhole

\* After the isolation of cloud accounts every organization that had one has one
\* of its own, in the same provider, which its settings and its folders name; a
\* secret is held once, by one of those that used it, the others must connect
\* again; and an organization without one is local.
OwnersApart ==
    LET accounts == db.now["cloud_accounts"].rows
        settings == db.now["cloud_settings"].rows
        Had(s) == {a \in before.now["cloud_accounts"].rows :
                       a.id = s.account /\ a.provider = s.mode}
    IN  step = Done /\ before.version \in 1 .. 20 =>
        /\ \A a, b \in accounts : a.id = b.id \/ (a.token # Null /\ a.token = b.token) => a = b
        /\ \A s \in before.now["cloud_settings"].rows :
               \E r \in settings : r.org = s.org /\
                   IF Had(s) = {} THEN r.account = Null /\ r.mode = "LOCAL"
                   ELSE r.mode = s.mode /\
                        \E a \in accounts : a.id = r.account /\ a.org = s.org
        /\ \A s \in before.now["cloud_settings"].rows : \A h \in Had(s) :
               h.token # Null => \E a \in accounts : a.token = h.token
        /\ \A a \in accounts : \E s \in settings : s.org = a.org /\ s.account = a.id
        /\ \A m \in db.now["cloud_folder_mappings"].rows : m.account # Null =>
               \E s \in settings : s.org = m.org /\ s.account = m.account

NoOpenOrganization ==
    /\ \E o \in Orgs : before.org[o].status = "DELETED"
    /\ ~ \E o \in Orgs : before.org[o].status = "ACTIVE"

\* The upgrade is completed by one of the next starts, whatever step it was
\* interrupted at (migrations are meant to be repeatable), except between the
\* renaming and the dropping of a rebuilt table, where a table of that name
\* stands in the way of every later start, and where no organization is open.
UpgradeEnds == <>(step = Done \/ "stuck" \in hurt \/ NoOpenOrganization)

=============================================================================
