------------------------------- MODULE Accounts -------------------------------
(***************************************************************************)
(* The local accounts of an installation, the organizations they belong    *)
(* to and the session of the one user who is in: AuthService,              *)
(* OrganizationAdminService, MemberService and SessionContext.  Every      *)
(* operation runs on the interface thread and is one step.                 *)
(*                                                                         *)
(* What makes it hard is that the session works from a copy: the           *)
(* memberships read at the login, the organization opened last and the     *)
(* permissions computed from both.  Each operation renews a part of it.    *)
(*                                                                         *)
(* Passwords are right: the wrong ones change nothing here.  Names, plans, *)
(* templates and profiles are left out.                                    *)
(***************************************************************************)
EXTENDS Naturals, Sequences, FiniteSets

CONSTANTS
  Users,     \* accounts that may exist
  OrgCount,  \* organizations that may be created, a bound
  Roles,     \* OWNER, ADMIN, EDITOR and VIEWER, or fewer in an instance
  NoUser     \* nobody

ASSUME AccountsAssumption ==
  /\ OrgCount \in Nat \ {0}
  /\ Roles \subseteq {"OWNER", "ADMIN", "EDITOR", "VIEWER"}
  /\ {"OWNER", "ADMIN"} \subseteq Roles
  /\ IsFiniteSet(Users) /\ NoUser \notin Users

Orgs == 1 .. OrgCount
NoOrg == 0

VARIABLES
  users,   \* account -> none, active or deleted
  super,   \* accounts with is_superuser
  orgs,    \* organization -> none, ACTIVE or DELETED (archived)
  rows,    \* organization -> account -> its row of organization_members
  order,   \* account -> organizations by the id of its rows
  ctx,     \* SessionContext: user, organization, memberships, permissions
  screen   \* login or main

accountsVars == <<users, super, orgs, rows, order, ctx, screen>>

NoRow == [role |-> "none", status |-> "none"]
Row(role) == [role |-> role, status |-> "ACTIVE"]
\* No operation tells INACTIVE from REMOVED: both are ENDED here.
Statuses == {"ACTIVE", "ENDED"}

(***************************************************************************)
(* ROLE_PERMISSIONS, for the permissions the operations below ask for.     *)
(***************************************************************************)
AdminGrants ==
  {"organization.create", "member.add", "member.create_user",
   "member.change_role", "member.deactivate", "member.remove"}
Permissions ==
  AdminGrants \cup {"organization.archive", "organization.transfer_ownership"}
Grants(role) ==
  CASE role = "OWNER"  -> Permissions
    [] role = "ADMIN"  -> AdminGrants
    [] role = "EDITOR" -> {"organization.create"}
    [] OTHER           -> {}

(***************************************************************************)
(* The tables, read.                                                       *)
(***************************************************************************)
IsMember(o, u) == rows[o][u].status = "ACTIVE"
ActiveMembers(o) == {u \in Users : IsMember(o, u)}
ActiveOwners(o) == {u \in ActiveMembers(o) : rows[o][u].role = "OWNER"}
Memberships(u) == {o \in Orgs : IsMember(o, u)}
Linked(u) == {o \in Orgs : rows[o][u] # NoRow}
ActiveUsers == {u \in Users : users[u] = "active"}
SmallestOf(S) == CHOOSE x \in S : \A y \in S : x <= y
\* The memberships are read in the order of their rows' ids.
Oldest(u) == order[u][SmallestOf({i \in DOMAIN order[u] : order[u][i] \in Memberships(u)})]
FreeOrgs == {o \in Orgs : orgs[o] = "none"}
\* find_default: is_default first, then the id; the default is the oldest.
OpenOrgs == {o \in Orgs : orgs[o] = "ACTIVE"}

(***************************************************************************)
(* SessionContext.  seen holds the role of each membership of the copy.    *)
(***************************************************************************)
NoContext ==
  [user |-> NoUser, org |-> NoOrg, seen |-> [o \in Orgs |-> "none"], perms |-> {}]

\* _refresh_permissions
PermissionsOf(u, o, seen, S) ==
  (IF o = NoOrg THEN {} ELSE Grants(seen[o])) \cup (IF u \in S THEN Permissions ELSE {})

RolesIn(R, u) ==
  [o \in Orgs |-> IF R[o][u].status = "ACTIVE" THEN R[o][u].role ELSE "none"]

Context(u, o, seen, S) ==
  [user |-> u, org |-> o, seen |-> seen, perms |-> PermissionsOf(u, o, seen, S)]

\* MemberService._refresh: the memberships are read again.
Refresh ==
  ctx' = Context(ctx.user, ctx.org, RolesIn(rows', ctx.user), super)

me == ctx.user
Inside == screen = "main"

\* Mutant: the permission of the open organization counts for any other.
RequireAnywhere(o, permission) == Inside /\ permission \in ctx.perms

\* MemberService._require
Require(o, permission) == Inside /\ o = ctx.org /\ permission \in ctx.perms

\* OrganizationAdminService._require_for
RequireFor(o, permission) ==
  /\ Inside
  /\ IF o = ctx.org THEN permission \in ctx.perms
                    ELSE IsMember(o, me) /\ permission \in Grants(rows[o][me].role)

SetRow(o, u, row) == rows' = [rows EXCEPT ![o][u] = row]
-----------------------------------------------------------------------------
(***************************************************************************)
(* A new installation has one organization, the default, and no account.   *)
(***************************************************************************)
AccountsInit ==
  /\ users = [u \in Users |-> "none"]
  /\ super = {}
  /\ orgs = [o \in Orgs |-> IF o = 1 THEN "ACTIVE" ELSE "none"]
  /\ rows = [o \in Orgs |-> [u \in Users |-> NoRow]]
  /\ order = [u \in Users |-> <<>>]
  /\ ctx = NoContext
  /\ screen = "login"

(***************************************************************************)
(* register_user: the first account takes the default organization over,   *)
(* whoever it was of before; any other account begins with its own.        *)
(***************************************************************************)
Register(u) ==
  LET first == ActiveUsers = {}
      taken == IF first THEN OpenOrgs ELSE {}
      S == IF first THEN super \cup {u} ELSE super
  IN /\ screen = "login"
     /\ users[u] = "none"
     /\ taken \cup FreeOrgs # {}
     /\ LET o == IF taken # {} THEN SmallestOf(taken) ELSE SmallestOf(FreeOrgs)
        IN /\ orgs' = [orgs EXCEPT ![o] = "ACTIVE"]
           /\ SetRow(o, u, Row("OWNER"))
           /\ order' = [order EXCEPT ![u] = Append(@, o)]
           /\ ctx' = Context(u, o, RolesIn(rows', u), S)
     /\ users' = [users EXCEPT ![u] = "active"]
     /\ super' = S
     /\ screen' = "main"

(***************************************************************************)
(* login opens the organization of the oldest membership.  The session is  *)
(* begun before organizations.set_active refuses an archived organization: *)
(* the window stays at the login, over a session that is in.               *)
(***************************************************************************)
Login(u) ==
  /\ screen = "login"
  /\ users[u] = "active"
  /\ Memberships(u) # {}
  /\ LET o == Oldest(u)
     IN /\ ctx' = Context(u, o, RolesIn(rows, u), super)
        /\ screen' = IF orgs[o] = "ACTIVE" THEN "main" ELSE "login"
  /\ UNCHANGED <<users, super, orgs, rows, order>>

Logout ==
  /\ Inside
  /\ ctx' = NoContext
  /\ screen' = "login"
  /\ UNCHANGED <<users, super, orgs, rows, order>>

\* The program ends and starts again: no session outlives it.
Restart ==
  /\ ctx' = NoContext
  /\ screen' = "login"
  /\ UNCHANGED <<users, super, orgs, rows, order>>

\* Mutant: the check counts the members, not the owners.
HoldsNobody(o) ==
  /\ rows[o][me].role = "OWNER"
  /\ Cardinality(ActiveMembers(o)) > 2

(***************************************************************************)
(* delete_current_account.  The only owner of an organization with other   *)
(* members transfers it first.                                             *)
(***************************************************************************)
HoldsOthers(o) ==
  /\ rows[o][me].role = "OWNER"
  /\ Cardinality(ActiveOwners(o)) <= 1
  /\ Cardinality(ActiveMembers(o)) > 1

Removed(R, u) ==
  [o \in Orgs |-> IF R[o][u].status = "ACTIVE"
                    THEN [R[o] EXCEPT ![u].status = "ENDED"] ELSE R[o]]

DeleteAccount ==
  /\ Inside
  /\ \A o \in Orgs : IsMember(o, me) => ~HoldsOthers(o)
  /\ rows' = Removed(rows, me)
  /\ users' = [users EXCEPT ![me] = "deleted"]
  /\ super' = super \ {me}
  /\ ctx' = NoContext
  /\ screen' = "login"
  /\ UNCHANGED <<orgs, order>>
-----------------------------------------------------------------------------
(***************************************************************************)
(* MemberService.  The interface offers every role but OWNER to a new      *)
(* member; a former member gets the role asked for, not the one it had.    *)
(***************************************************************************)
AddExisting(o, u, role) ==
  /\ Require(o, "member.add")
  /\ users[u] = "active"
  /\ ~IsMember(o, u)
  /\ SetRow(o, u, Row(role))
  /\ order' = IF rows[o][u] = NoRow THEN [order EXCEPT ![u] = Append(@, o)] ELSE order
  /\ UNCHANGED <<users, super, orgs, ctx, screen>>

CreateUser(o, u, role) ==
  /\ Require(o, "member.create_user")
  /\ users[u] = "none"
  /\ users' = [users EXCEPT ![u] = "active"]
  /\ SetRow(o, u, Row(role))
  /\ order' = [order EXCEPT ![u] = Append(@, o)]
  /\ UNCHANGED <<super, orgs, ctx, screen>>

IsLastOwner(o, u) ==
  rows[o][u].role = "OWNER" /\ Cardinality(ActiveOwners(o)) <= 1

MayChange(o, u, role) ==
  /\ IsMember(o, u)
  /\ IsMember(o, me)
  /\ role = "OWNER" => rows[o][u].role = "OWNER"
  /\ ~(rows[o][me].role = "ADMIN" /\ (rows[o][u].role = "OWNER" \/ role \in {"OWNER", "ADMIN"}))
  /\ role # "OWNER" => ~IsLastOwner(o, u)

\* Mutant: the role changes and the session keeps its copy.
ChangeRoleOnly(o, u, role) ==
  /\ Require(o, "member.change_role")
  /\ MayChange(o, u, role)
  /\ SetRow(o, u, Row(role))
  /\ UNCHANGED <<users, super, orgs, order, ctx, screen>>

ChangeRole(o, u, role) ==
  /\ Require(o, "member.change_role")
  /\ MayChange(o, u, role)
  /\ SetRow(o, u, Row(role))
  /\ Refresh
  /\ UNCHANGED <<users, super, orgs, order, screen>>

Deactivate(o, u) ==
  /\ Require(o, "member.deactivate")
  /\ IsMember(o, u)
  /\ ~IsLastOwner(o, u)
  /\ SetRow(o, u, [rows[o][u] EXCEPT !.status = "ENDED"])
  /\ Refresh
  /\ UNCHANGED <<users, super, orgs, order, screen>>

MayRemove(o, u) ==
  /\ IsMember(o, u)
  /\ IsMember(o, me)
  /\ ~(rows[o][me].role = "ADMIN" /\ rows[o][u].role = "OWNER")
  /\ ~IsLastOwner(o, u)

Remove(o, u) ==
  /\ Require(o, "member.remove")
  /\ MayRemove(o, u)
  /\ SetRow(o, u, [rows[o][u] EXCEPT !.status = "ENDED"])
  /\ Refresh
  /\ UNCHANGED <<users, super, orgs, order, screen>>

\* The former owner becomes ADMIN, the role the interface asks for.
TransferOwnership(o, u) ==
  /\ Require(o, "organization.transfer_ownership")
  /\ IsMember(o, me)
  /\ rows[o][me].role = "OWNER"
  /\ u # me
  /\ IsMember(o, u)
  /\ rows' = [rows EXCEPT ![o][u].role = "OWNER", ![o][me].role = "ADMIN"]
  /\ Refresh
  /\ UNCHANGED <<users, super, orgs, order, screen>>
-----------------------------------------------------------------------------
(***************************************************************************)
(* OrganizationAdminService.                                               *)
(***************************************************************************)
\* What set_active_organization makes of a context.
Opened(c, o) ==
  IF c.seen[o] = "none" THEN c ELSE Context(c.user, o, c.seen, super)

NewOrganization(open) ==
  /\ FreeOrgs # {}
  /\ LET o == SmallestOf(FreeOrgs)
         c == [ctx EXCEPT !.seen[o] = "OWNER"]
     IN /\ orgs' = [orgs EXCEPT ![o] = "ACTIVE"]
        /\ SetRow(o, me, Row("OWNER"))
        /\ order' = [order EXCEPT ![me] = Append(@, o)]
        /\ ctx' = IF open THEN Opened(c, o) ELSE c
  /\ UNCHANGED <<users, super, screen>>

Create(open) ==
  /\ Inside
  /\ "organization.create" \in ctx.perms
  /\ NewOrganization(open)

Duplicate(o) ==
  /\ RequireFor(o, "organization.create")
  /\ rows[o][me] # NoRow
  /\ NewOrganization(FALSE)

\* activate: the session changes before set_active looks at the status.
Activate(o) ==
  /\ Inside
  /\ o \in Linked(me)
  /\ ctx' = Opened(ctx, o)
  /\ UNCHANGED <<users, super, orgs, rows, order, screen>>

(***************************************************************************)
(* archive.  When the open organization is archived, the first other       *)
(* ACTIVE organization with a row of the user is opened (by name, here     *)
(* any); without one, or without a membership in it, the operation fails   *)
(* after the row has been written.                                         *)
(***************************************************************************)
Archive(o) ==
  LET others == {p \in Linked(me) : orgs[p] = "ACTIVE" /\ p # o}
  IN /\ RequireFor(o, "organization.archive")
     /\ rows[o][me].role = "OWNER"
     /\ Cardinality(Memberships(me)) > 1
     /\ orgs' = [orgs EXCEPT ![o] = "DELETED"]
     /\ IF o = ctx.org /\ others # {}
          THEN \E p \in others : ctx' = Opened(ctx, p)
          ELSE ctx' = ctx
     /\ UNCHANGED <<users, super, rows, order, screen>>
-----------------------------------------------------------------------------
AccountsNext ==
  \/ \E u \in Users : Register(u) \/ Login(u)
  \/ Logout
  \/ Restart
  \/ DeleteAccount
  \/ \E o \in Orgs, u \in Users :
       \/ \E role \in Roles \ {"OWNER"} : AddExisting(o, u, role) \/ CreateUser(o, u, role)
       \/ \E role \in Roles : ChangeRole(o, u, role)
       \/ Deactivate(o, u)
       \/ Remove(o, u)
       \/ TransferOwnership(o, u)
  \/ \E open \in BOOLEAN : Create(open)
  \/ \E o \in Orgs : Duplicate(o) \/ Activate(o) \/ Archive(o)
-----------------------------------------------------------------------------
(***************************************************************************)
(* Type correctness, and the two halves of a membership: a row has its     *)
(* place in the order of the user's rows, once.                            *)
(***************************************************************************)
AccountsTypeOK ==
  /\ users \in [Users -> {"none", "active", "deleted"}]
  /\ super \subseteq Users
  /\ orgs \in [Orgs -> {"none", "ACTIVE", "DELETED"}]
  /\ rows \in [Orgs -> [Users -> [role : Roles, status : Statuses] \cup {NoRow}]]
  /\ \A u \in Users :
       /\ {order[u][i] : i \in DOMAIN order[u]} = Linked(u)
       /\ Len(order[u]) = Cardinality(Linked(u))
  /\ ctx.user \in Users \cup {NoUser}
  /\ ctx.org \in Orgs \cup {NoOrg}
  /\ ctx.perms \subseteq Permissions
  /\ screen \in {"login", "main"}

(***************************************************************************)
(* An organization with members has exactly one owner, through every       *)
(* sequence of changes of role, removals, transfers and deleted accounts   *)
(* ("A organização deve manter pelo menos um OWNER"), and an account that  *)
(* owns it is not a deleted one.                                           *)
(***************************************************************************)
OneOwner ==
  \A o \in Orgs : ActiveMembers(o) # {} =>
    /\ Cardinality(ActiveOwners(o)) = 1
    /\ \A u \in ActiveOwners(o) : users[u] = "active"

(***************************************************************************)
(* A deleted account is nobody's: no membership, no session, no rights.    *)
(***************************************************************************)
DeletedIsGone ==
  \A u \in Users : users[u] = "deleted" =>
    /\ u # ctx.user
    /\ u \notin super
    /\ \A o \in Orgs : ~IsMember(o, u)

(***************************************************************************)
(* Who is who, in the tables of accounts and of members: their types, one  *)
(* owner to an organization, nothing left to a deleted account.            *)
(***************************************************************************)
MembersSound == AccountsTypeOK /\ OneOwner /\ DeletedIsGone

(***************************************************************************)
(* The permissions of the session are those of the role the table holds    *)
(* for the user in the open organization, although they were computed from *)
(* the copy of the memberships taken at the login.                         *)
(***************************************************************************)
ContextTrue ==
  ctx.user # NoUser =>
    ctx.perms = PermissionsOf(ctx.user, ctx.org, RolesIn(rows, ctx.user), super)

(***************************************************************************)
(* Only an OWNER or ADMIN of an organization, or the administrator of the  *)
(* installation, changes the membership of somebody else in it; and nobody *)
(* but that administrator raises himself: a step of a user gives him no    *)
(* higher role in an organization that existed.                            *)
(***************************************************************************)
Governs(u, o) == u \in super \/ (IsMember(o, u) /\ rows[o][u].role \in {"OWNER", "ADMIN"})

Rank(row) ==
  IF row.status # "ACTIVE" THEN 0
  ELSE CASE row.role = "VIEWER" -> 1
         [] row.role = "EDITOR" -> 2
         [] row.role = "ADMIN"  -> 3
         [] OTHER               -> 4

HandsOff ==
  [][\A o \in Orgs, u \in Users :
       /\ rows'[o][u] # rows[o][u] /\ u \notin {ctx.user, ctx'.user} => Governs(ctx.user, o)
       /\ /\ Inside /\ u = ctx.user /\ u \notin super
          /\ Rank(rows'[o][u]) > Rank(rows[o][u])
          => orgs[o] = "none"]_accountsVars
=============================================================================
