-------------------------------- MODULE Access --------------------------------
(***************************************************************************)
(* Users, memberships, roles and permissions: the permissions guard, the   *)
(* services and repositories that administer the four of them, token       *)
(* introspection, and the seeds of roles and of the platform administrator *)
(* (pnpm db:seed, run beside the service and again at will).  A request    *)
(* runs its statements one by one and may stop before any of them; only    *)
(* the onboarding of an internal user is one transaction.  Companies are   *)
(* given: a company never changes its tenant or its path.                  *)
(***************************************************************************)
EXTENDS AccessScope

CONSTANTS
  Requests,                        \* requests, one operation each
  UserIds, MembershipIds, RoleIds, PermissionIds,
  Tenants, Companies, CompanyPaths, \* companies and their path column
  Emails,                          \* addresses, whatever their case
  Slugs, RoleSlugs,                \* permission and role slugs
  InitialUsers, InitialMemberships, InitialRoles, InitialPermissions,
  InitialRoleGrants, InitialMemberRoles,
  Bodies,                          \* what the client of each request may ask for
  SeededRoles,                     \* the roles of the seeds, in order; the last
                                   \* one is the administrator's
  SeededSlugs,                     \* the catalogue of permissions of the seeds
  MaxSeedings,                     \* bound on the runs of db:seed
  AdminEmail,                      \* SEED_PLATFORM_ADMIN_EMAIL
  NoRow, NoRole, NoUser, NoMembership, NoSlug,
  Keep                             \* a field that a request leaves out

Scopes == {"GLOBAL", "TENANT", "COMPANY"}

\* an address as it is typed, and as it is stored
Address == [name : Emails, lower : BOOLEAN]
ToLower(email) == [email EXCEPT !.lower = TRUE]

UserStatuses == {"PENDING", "ACTIVATED", "SUSPENDED", "DEACTIVATED"}
MembershipStatuses == {"ACTIVE", "INACTIVE", "SUSPENDED"}

UserRow == [email : Address, status : UserStatuses]
MembershipRow == [user : UserIds, tenant : Tenants \cup {NoTenant}, company : Companies \cup {NoCompany},
                  scope : Scopes, status : MembershipStatuses]
RoleRow == [slug : RoleSlugs, scope : Scopes, tenant : Tenants \cup {NoTenant}]

\* the validated bodies, with the caller; an id may name no row
MembershipCreateOps ==
  [kind : {"membership.create"}, actor : UserIds, user : UserIds, scope : Scopes,
   tenant : Tenants \cup {NoTenant}, company : Companies \cup {NoCompany}, status : MembershipStatuses]
MembershipRoleOps ==
  [kind : {"membership.assign", "membership.unassign"}, actor : UserIds, membership : MembershipIds, role : RoleIds]
MembershipReadOps ==
  [kind : {"membership.roles", "membership.effective"}, actor : UserIds, membership : MembershipIds]
RoleCreateOps ==
  [kind : {"role.create"}, actor : UserIds, slug : RoleSlugs, scope : Scopes, tenant : Tenants \cup {NoTenant}]
RoleUpdateOps ==
  [kind : {"role.update"}, actor : UserIds, role : RoleIds, slug : RoleSlugs \cup {Keep},
   scope : Scopes \cup {Keep}, tenant : Tenants \cup {NoTenant, Keep}]
RolePermissionOps ==
  [kind : {"role.grant", "role.revoke"}, actor : UserIds, role : RoleIds, permission : PermissionIds]
PermissionCreateOps == [kind : {"permission.create"}, actor : UserIds, slug : Slugs]
PermissionUpdateOps ==
  [kind : {"permission.update"}, actor : UserIds, permission : PermissionIds, slug : Slugs \cup {Keep}]
UserCreateOps == [kind : {"user.create"}, actor : UserIds, email : Address, status : UserStatuses]
InternalUserOps ==
  [kind : {"user.createInternal"}, actor : UserIds, email : Address, status : UserStatuses, role : RoleIds]
UserUpdateOps ==
  [kind : {"user.update"}, actor : UserIds, user : UserIds, email : Address \cup {Keep},
   status : UserStatuses \cup {Keep}]
UserCredentialsOps == [kind : {"user.credentials"}, actor : UserIds, user : UserIds]
ReadOps ==
  [kind : {"membership.list", "role.list", "user.list", "introspect", "me.context"}, actor : UserIds]
  \cup [kind : {"role.permissions"}, actor : UserIds, role : RoleIds]
  \cup [kind : {"user.context"}, actor : UserIds, user : UserIds]

MembershipOps == MembershipCreateOps \cup MembershipRoleOps \cup MembershipReadOps
RoleOps == RoleCreateOps \cup RoleUpdateOps \cup RolePermissionOps
PermissionOps == PermissionCreateOps \cup PermissionUpdateOps
UserOps == UserCreateOps \cup InternalUserOps \cup UserUpdateOps \cup UserCredentialsOps
Ops == MembershipOps \cup RoleOps \cup PermissionOps \cup UserOps \cup ReadOps

ASSUME NullAssumption ==
  /\ NoRow \notin UserRow \cup MembershipRow \cup RoleRow
  /\ NoTenant \notin Tenants /\ NoCompany \notin Companies /\ NoSlug \notin Slugs
  /\ NoRole \notin RoleIds /\ NoUser \notin UserIds /\ NoMembership \notin MembershipIds
ASSUME PathsAssumption == CompanyPaths \in [Companies -> Seq(Companies) \ {<< >>}]
ASSUME BodiesAssumption == \A r \in Requests : Bodies[r] \subseteq Ops
ASSUME InitialAssumption ==
  /\ InitialUsers \in [UserIds -> UserRow \cup {NoRow}]
  /\ InitialMemberships \in [MembershipIds -> MembershipRow \cup {NoRow}]
  /\ InitialRoles \in [RoleIds -> RoleRow \cup {NoRow}]
  /\ InitialPermissions \in [PermissionIds -> Slugs \cup {NoSlug}]
  /\ \A g \in InitialRoleGrants : g \in RoleIds \X PermissionIds /\ InitialRoles[g[1]] # NoRow
  /\ \A g \in InitialMemberRoles :
       /\ g \in MembershipIds \X RoleIds
       /\ InitialMemberships[g[1]] # NoRow /\ InitialRoles[g[2]] # NoRow
       /\ (InitialMemberships[g[1]].scope = "GLOBAL") = (InitialRoles[g[2]].scope = "GLOBAL")
  /\ \A u \in UserIds : InitialUsers[u] # NoRow =>
       /\ InitialUsers[u].email.lower
       /\ \A v \in UserIds \ {u} : InitialUsers[v] # NoRow =>
            InitialUsers[u].email.name # InitialUsers[v].email.name
ASSUME SeedsAssumption ==
  /\ SeededRoles \in Seq([slug : RoleSlugs, scope : Scopes, anyScope : BOOLEAN, slugs : SUBSET Slugs])
  /\ SeededRoles # << >>
  /\ SeededRoles[Len(SeededRoles)].scope = "GLOBAL" /\ ~SeededRoles[Len(SeededRoles)].anyScope
  /\ SeededSlugs \subseteq Slugs /\ AdminEmail \in Emails /\ MaxSeedings \in Nat

\* what each endpoint asks of its caller, by controller
MembershipEndpoints ==
  {"membership.list", "membership.roles", "membership.effective"} \X {"memberships.read"}
  \cup {"membership.assign", "membership.unassign"} \X {"memberships.assign_role"}
  \cup {<< "membership.create", "memberships.create" >>}
RoleEndpoints ==
  {"role.list", "role.permissions"} \X {"roles.read"}
  \cup {"role.grant", "role.revoke"} \X {"roles.assign_permission"}
  \cup {<< "role.create", "roles.create" >>, << "role.update", "roles.update" >>}
UserEndpoints ==
  {"user.list", "user.context"} \X {"users.read"}
  \cup {"user.create", "user.createInternal"} \X {"users.create"}
  \cup {<< "user.update", "users.update" >>, << "user.credentials", "users.update_credentials" >>}
PermissionEndpoints ==
  {<< "permission.create", "permissions.create" >>, << "permission.update", "permissions.update" >>}

Endpoints == MembershipEndpoints \cup RoleEndpoints \cup UserEndpoints \cup PermissionEndpoints

VARIABLES
  users, memberships, roles, permissions,  \* tables, by id
  roleGrants,   \* role_permissions
  memberRoles,  \* membership_roles
  pc,           \* the statement a request runs next
  op,           \* what a request asks for
  scope,        \* the effective scope it resolved
  out,          \* what its last statement returned
  view,         \* what a read showed
  committed,    \* requests whose change is committed
  events,       \* events in the outbox, by request
  audits,       \* requests with an audit record
  rescoped,     \* roles whose scope or tenant was ever updated
  adopted,      \* memberships that the administrator seed found
  seed          \* the seed process

tables == << users, memberships, roles, permissions, roleGrants, memberRoles >>
locals == << op, scope, out, view >>
logs == << committed, events, audits, rescoped >>
seeds == << adopted, seed >>
vars == << tables, pc, locals, logs, seeds >>

NoOp == [kind |-> "none"]
NoSeed == [pc |-> "off", runs |-> 0, at |-> 1, role |-> NoRole, rows |-> {}, user |-> NoUser, membership |-> NoMembership]
Nothing == << >>

Stored(table) == {x \in DOMAIN table : table[x] # NoRow}

\* ids are drawn at random: never one that is in use
Fresh(table) == {x \in DOMAIN table : table[x] = NoRow}

Init ==
  /\ users = InitialUsers
  /\ memberships = InitialMemberships
  /\ roles = InitialRoles
  /\ permissions = InitialPermissions
  /\ roleGrants = InitialRoleGrants
  /\ memberRoles = InitialMemberRoles
  /\ pc = [r \in Requests |-> "idle"]
  /\ op = [r \in Requests |-> NoOp]
  /\ scope = [r \in Requests |-> GlobalScope]
  /\ out = [r \in Requests |-> Nothing]
  /\ view = [r \in Requests |-> Nothing]
  /\ committed = {}
  /\ events = [r \in Requests |-> {}]
  /\ audits = {}
  /\ rescoped = {}
  /\ adopted = {}
  /\ seed = NoSeed
-----------------------------------------------------------------------------
\* queries

RowsOf(user) == {m \in Stored(memberships) : memberships[m].user = user}
ActiveOf(user) == {m \in RowsOf(user) : memberships[m].status = "ACTIVE"}

RolesOf(ms) == {g[2] : g \in {h \in memberRoles : h[1] \in ms}}
PermissionsOf(ros) == {g[2] : g \in {h \in roleGrants : h[1] \in ros}}

\* the union over all active memberships
EffectiveSlugs(user) == {permissions[p] : p \in PermissionsOf(RolesOf(ActiveOf(user)))}

ListRoles(m) == [x \in RolesOf({m}) |-> roles[x].scope]
EffectivePermissions(m) == {permissions[p] : p \in PermissionsOf(RolesOf({m}))}
ListPermissions(ro) == {permissions[p] : p \in PermissionsOf({ro})}

\* every membership of the user, with its roles and permissions
UserContext(user) ==
  [m \in RowsOf(user) |-> [row |-> memberships[m], roles |-> RolesOf({m}), slugs |-> EffectivePermissions(m)]]

PathOf(company) == IF company = NoCompany THEN << >> ELSE CompanyPaths[company]

\* (variant: memberships without a tenant are everybody's)
MembershipVisibleOrShared(s, m) ==
  \/ CompanyVisible(s, memberships[m].tenant, PathOf(memberships[m].company))
  \/ memberships[m].tenant = NoTenant

MembershipVisible(s, m) == CompanyVisible(s, memberships[m].tenant, PathOf(memberships[m].company))

\* (variant: roles without a tenant are everybody's)
RoleVisibleOrShared(s, ro) == s.isGlobal \/ roles[ro].tenant \in s.tenantIds \cup {NoTenant}

RoleVisible(s, ro) == s.isGlobal \/ roles[ro].tenant \in s.tenantIds

UserVisible(s, u) == s.isGlobal \/ \E m \in ActiveOf(u) : MembershipVisible(s, m)

\* filters are left out only for a global scope; a scope without a filter lists nothing
FindMemberships(s) == {m \in Stored(memberships) : MembershipVisible(s, m)}
FindRoles(s) == {ro \in Stored(roles) : RoleVisible(s, ro)}
FindUsers(s) == {u \in Stored(users) : UserVisible(s, u)}
-----------------------------------------------------------------------------
\* a request, from its guard to its answer

Goto(r, step) == pc' = [pc EXCEPT ![r] = step]

\* an exception before any write
Refuse(r) ==
  /\ Goto(r, "refused")
  /\ op' = [op EXCEPT ![r] = NoOp]
  /\ scope' = [scope EXCEPT ![r] = GlobalScope]
  /\ UNCHANGED << tables, out, view, logs, seeds >>

Proceed(r, step) ==
  /\ Goto(r, step)
  /\ UNCHANGED << tables, locals, logs, seeds >>

\* the permissions guard: every slug the endpoint requires is one of the caller's
CanActivate(o) == \A e \in Endpoints : e[1] = o.kind => e[2] \in EffectiveSlugs(o.actor)

\* the token is valid; introspection wants an activated user as well, and GET
\* auth/me/context any user
Admitted(o) == CanActivate(o) /\ (o.kind = "introspect" => users[o.actor].status = "ACTIVATED")

Begin(r) ==
  /\ pc[r] = "idle"
  /\ \E o \in Bodies[r] :
       /\ o.actor \in Stored(users)
       /\ IF Admitted(o)
            THEN op' = [op EXCEPT ![r] = o] /\ Goto(r, "resolve")
            ELSE Goto(r, "refused") /\ UNCHANGED op
  /\ UNCHANGED << tables, scope, out, view, logs, seeds >>

\* MembershipsService.assertTargetScope
MembershipTargetAllowed(s, tenant, company) ==
  \/ s.isGlobal
  \/ company # NoCompany /\ company \in s.companyIds
  \/ tenant # NoTenant /\ CanAccessTenant(s, tenant)

\* RolesService.assertRoleTargetScope
RoleTargetAllowed(s, roleScope, tenant) ==
  IF roleScope = "GLOBAL" THEN s.isGlobal ELSE tenant # NoTenant /\ CanAccessTenant(s, tenant)

\* what a service decides from the scope alone
ScopeAllows(o, s) ==
  CASE o.kind = "membership.create" -> MembershipTargetAllowed(s, o.tenant, o.company)
    [] o.kind = "role.create" -> RoleTargetAllowed(s, o.scope, o.tenant)
    [] o.kind \in {"user.create", "user.createInternal", "permission.create", "permission.update"} -> s.isGlobal
    [] OTHER -> TRUE

AfterResolve(kind) ==
  CASE kind \in {"introspect", "me.context"} -> "context"
    [] kind \in {"membership.list", "role.list", "user.list"} -> "list"
    [] kind \in {"membership.create", "role.create", "permission.create", "permission.update",
                 "user.create", "user.createInternal"} -> "check"
    [] OTHER -> "find"

ResolveScope(r) ==
  /\ pc[r] = "resolve"
  /\ LET s == Resolve({memberships[m] : m \in RowsOf(op[r].actor)}, CompanyPaths) IN
       IF ScopeAllows(op[r], s)
         THEN /\ scope' = [scope EXCEPT ![r] = s]
              /\ Goto(r, AfterResolve(op[r].kind))
              /\ UNCHANGED << tables, op, out, view, logs, seeds >>
         ELSE Refuse(r)

List(r) ==
  /\ pc[r] = "list"
  /\ view' = [view EXCEPT ![r] =
       CASE op[r].kind = "membership.list" -> FindMemberships(scope[r])
         [] op[r].kind = "role.list" -> FindRoles(scope[r])
         [] op[r].kind = "user.list" -> FindUsers(scope[r])]
  /\ Goto(r, "shown")
  /\ UNCHANGED << tables, op, scope, out, logs, seeds >>

\* AuthRepository.getUserContext lists the active memberships ...
Context(r) ==
  /\ pc[r] = "context"
  /\ view' = [view EXCEPT ![r] = [memberships |-> {memberships[m] : m \in ActiveOf(op[r].actor)},
                                  permissions |-> {}]]
  /\ Goto(r, "contextSlugs")
  /\ UNCHANGED << tables, op, scope, out, logs, seeds >>

\* ... and reads the slugs again
ContextSlugs(r) ==
  /\ pc[r] = "contextSlugs"
  /\ view' = [view EXCEPT ![r].permissions = EffectiveSlugs(op[r].actor)]
  /\ Goto(r, "shown")
  /\ UNCHANGED << tables, op, scope, out, logs, seeds >>

\* (variant: a missing field is written)
PatchedAsSent(new, old) == new

Patched(new, old) == IF new = Keep THEN old ELSE new

\* dto.tenantId ?? currentRole.tenantId: a null is checked as the old tenant
CheckedTenant(new, old) == IF new \in {Keep, NoTenant} THEN old ELSE new

\* the scoped findOne of the service; later reads by id find the row as well
Found(o, s) ==
  CASE o.kind \in {"membership.roles", "membership.effective", "membership.assign", "membership.unassign"} ->
         o.membership \in FindMemberships(s)
    [] o.kind \in {"role.permissions", "role.grant", "role.revoke"} -> o.role \in FindRoles(s)
    [] o.kind = "role.update" ->
         /\ o.role \in FindRoles(s)
         /\ RoleTargetAllowed(s, Patched(o.scope, roles[o.role].scope),
                              CheckedTenant(o.tenant, roles[o.role].tenant))
    [] o.kind \in {"user.context", "user.update", "user.credentials"} -> o.user \in FindUsers(s)

AfterFind(kind) ==
  CASE kind \in {"membership.roles", "membership.effective", "role.permissions", "user.context"} -> "detail"
    [] kind = "membership.assign" -> "readRole"
    [] OTHER -> "write"

Find(r) ==
  /\ pc[r] = "find"
  /\ IF Found(op[r], scope[r]) THEN Proceed(r, AfterFind(op[r].kind)) ELSE Refuse(r)

Detail(r) ==
  /\ pc[r] = "detail"
  /\ view' = [view EXCEPT ![r] =
       CASE op[r].kind = "membership.roles" -> ListRoles(op[r].membership)
         [] op[r].kind = "membership.effective" -> EffectivePermissions(op[r].membership)
         [] op[r].kind = "role.permissions" -> ListPermissions(op[r].role)
         [] op[r].kind = "user.context" -> UserContext(op[r].user)]
  /\ Goto(r, "shown")
  /\ UNCHANGED << tables, op, scope, out, logs, seeds >>

\* (variant: a global membership is not checked)
ValidScopeButGlobal(o) ==
  /\ o.scope = "TENANT" => o.tenant # NoTenant
  /\ o.scope = "COMPANY" => o.tenant # NoTenant /\ o.company # NoCompany

\* MembershipsRepository.validateScope
ValidScope(o) ==
  CASE o.scope = "GLOBAL" -> o.tenant = NoTenant /\ o.company = NoCompany
    [] o.scope = "TENANT" -> o.tenant # NoTenant
    [] o.scope = "COMPANY" -> o.tenant # NoTenant /\ o.company # NoCompany

EmailTaken(email) == \E u \in Stored(users) : users[u].email = email
RoleSlugTaken(slug, tenant) == \E ro \in Stored(roles) : roles[ro].slug = slug /\ roles[ro].tenant = tenant
SlugTaken(slug) == \E p \in PermissionIds : permissions[p] = slug

\* what the repository reads before it inserts
Checked(o) ==
  CASE o.kind = "membership.create" -> o.user \in Stored(users) /\ ValidScope(o)
    [] o.kind = "role.create" -> ~RoleSlugTaken(o.slug, o.tenant)
    [] o.kind = "permission.create" -> ~SlugTaken(o.slug)
    [] o.kind = "permission.update" -> permissions[o.permission] # NoSlug
    [] o.kind \in {"user.create", "user.createInternal"} -> ~EmailTaken(ToLower(o.email))

Check(r) ==
  /\ pc[r] = "check"
  /\ IF Checked(op[r])
       THEN Proceed(r, IF op[r].kind = "user.createInternal" THEN "readRole" ELSE "write")
       ELSE Refuse(r)

\* (variant: a global role fits any membership)
RoleFitsOneWay(o, role) ==
  CASE o.kind = "membership.assign" -> memberships[o.membership].scope = "GLOBAL" => role.scope = "GLOBAL"
    [] o.kind = "user.createInternal" -> role.scope = "GLOBAL"

\* a global role for a global membership, and only for one
RoleFits(o, role) ==
  CASE o.kind = "membership.assign" -> (memberships[o.membership].scope = "GLOBAL") = (role.scope = "GLOBAL")
    [] o.kind = "user.createInternal" -> role.scope = "GLOBAL"

ReadRole(r) ==
  /\ pc[r] = "readRole"
  /\ LET role == roles[op[r].role] IN
       IF role # NoRow /\ RoleFits(op[r], role) THEN Proceed(r, "write") ELSE Refuse(r)
-----------------------------------------------------------------------------
\* the writes: a unique index that is hit lets none of them happen (Fail)

Writes(r, kind) == pc[r] = "write" /\ op[r].kind = kind

Returns(r, row, step) ==
  /\ out' = [out EXCEPT ![r] = row]
  /\ committed' = committed \cup {r}
  /\ Goto(r, step)
  /\ UNCHANGED << op, scope, view, audits, seeds >>

CreateMembership(r) ==
  /\ Writes(r, "membership.create")
  /\ LET o == op[r]
         row == [user |-> o.user, tenant |-> o.tenant, company |-> o.company, scope |-> o.scope,
                 status |-> o.status]
     IN /\ \E m \in Fresh(memberships) : memberships' = [memberships EXCEPT ![m] = row]
        /\ Returns(r, row, "publish")
  /\ UNCHANGED << users, roles, permissions, roleGrants, memberRoles, events, rescoped >>

AssignRole(r) ==
  /\ Writes(r, "membership.assign")
  /\ memberRoles' = memberRoles \cup {<< op[r].membership, op[r].role >>}
  /\ Returns(r, Nothing, "reload")
  /\ UNCHANGED << users, memberships, roles, permissions, roleGrants, events, rescoped >>

RemoveRole(r) ==
  /\ Writes(r, "membership.unassign")
  /\ memberRoles' = memberRoles \ {<< op[r].membership, op[r].role >>}
  /\ Returns(r, Nothing, "reload")
  /\ UNCHANGED << users, memberships, roles, permissions, roleGrants, events, rescoped >>

CreateRole(r) ==
  /\ Writes(r, "role.create")
  /\ ~RoleSlugTaken(op[r].slug, op[r].tenant)
  /\ LET row == [slug |-> op[r].slug, scope |-> op[r].scope, tenant |-> op[r].tenant] IN
       /\ \E ro \in Fresh(roles) : roles' = [roles EXCEPT ![ro] = row]
       /\ Returns(r, row, "publish")
  /\ UNCHANGED << users, memberships, permissions, roleGrants, memberRoles, events, rescoped >>

\* ...dto: the fields that were sent, a null tenant among them
UpdateRole(r) ==
  /\ Writes(r, "role.update")
  /\ LET o == op[r]
         row == [slug |-> Patched(o.slug, roles[o.role].slug), scope |-> Patched(o.scope, roles[o.role].scope),
                 tenant |-> Patched(o.tenant, roles[o.role].tenant)]
     IN /\ \A ro \in Stored(roles) \ {o.role} : << roles[ro].slug, roles[ro].tenant >> # << row.slug, row.tenant >>
        /\ roles' = [roles EXCEPT ![o.role] = row]
        /\ rescoped' = IF o.scope # Keep \/ o.tenant # Keep THEN rescoped \cup {o.role} ELSE rescoped
        /\ Returns(r, row, "publish")
  /\ UNCHANGED << users, memberships, permissions, roleGrants, memberRoles, events >>

AssignPermission(r) ==
  /\ Writes(r, "role.grant")
  /\ permissions[op[r].permission] # NoSlug
  /\ roleGrants' = roleGrants \cup {<< op[r].role, op[r].permission >>}
  /\ Returns(r, Nothing, "reload")
  /\ UNCHANGED << users, memberships, roles, permissions, memberRoles, events, rescoped >>

RemovePermission(r) ==
  /\ Writes(r, "role.revoke")
  /\ roleGrants' = roleGrants \ {<< op[r].role, op[r].permission >>}
  /\ Returns(r, Nothing, "reload")
  /\ UNCHANGED << users, memberships, roles, permissions, memberRoles, events, rescoped >>

\* permissions announce nothing and are not audited
CreatePermission(r) ==
  /\ Writes(r, "permission.create")
  /\ ~SlugTaken(op[r].slug)
  /\ \E p \in {q \in PermissionIds : permissions[q] = NoSlug} :
       permissions' = [permissions EXCEPT ![p] = op[r].slug]
  /\ Returns(r, op[r].slug, "shown")
  /\ UNCHANGED << users, memberships, roles, roleGrants, memberRoles, events, rescoped >>

UpdatePermission(r) ==
  /\ Writes(r, "permission.update")
  /\ LET o == op[r]
         slug == Patched(o.slug, permissions[o.permission])
     IN /\ permissions[o.permission] = slug \/ ~SlugTaken(slug)
        /\ permissions' = [permissions EXCEPT ![o.permission] = slug]
        /\ Returns(r, slug, "shown")
  /\ UNCHANGED << users, memberships, roles, roleGrants, memberRoles, events, rescoped >>

CreateUser(r) ==
  /\ Writes(r, "user.create")
  /\ LET row == [email |-> ToLower(op[r].email), status |-> op[r].status] IN
       /\ ~EmailTaken(row.email)
       /\ \E u \in Fresh(users) : users' = [users EXCEPT ![u] = row]
       /\ Returns(r, row, "publish")
  /\ UNCHANGED << memberships, roles, permissions, roleGrants, memberRoles, events, rescoped >>

\* one transaction: the user, a global membership, its role and three events
CreateInternalUser(r) ==
  /\ Writes(r, "user.createInternal")
  /\ LET row == [email |-> ToLower(op[r].email), status |-> op[r].status] IN
       /\ ~EmailTaken(row.email)
       /\ \E u \in Fresh(users), m \in Fresh(memberships) :
            /\ users' = [users EXCEPT ![u] = row]
            /\ memberships' = [memberships EXCEPT ![m] =
                 [user |-> u, tenant |-> NoTenant, company |-> NoCompany, scope |-> "GLOBAL", status |-> "ACTIVE"]]
            /\ memberRoles' = memberRoles \cup {<< m, op[r].role >>}
       /\ events' = [events EXCEPT ![r] = [type : {"user.created", "membership.created", "membership.role_assigned"},
                                           row : {row}]]
       /\ Returns(r, row, "answer")
  /\ UNCHANGED << roles, permissions, roleGrants, rescoped >>

\* (variant: the address is stored as typed)
UpdatedEmailAsTyped(o, old) == Patched(o.email, old)

UpdatedEmail(o, old) == IF o.email = Keep THEN old ELSE ToLower(o.email)

UpdateUser(r) ==
  /\ Writes(r, "user.update")
  /\ LET o == op[r]
         row == [email |-> UpdatedEmail(o, users[o.user].email), status |-> Patched(o.status, users[o.user].status)]
     IN /\ row.email = users[o.user].email \/ ~EmailTaken(row.email)
        /\ users' = [users EXCEPT ![o.user] = row]
        /\ Returns(r, row, "publish")
  /\ UNCHANGED << memberships, roles, permissions, roleGrants, memberRoles, events, rescoped >>

\* the password hash; the sessions of the user are left alone
UpdateCredentials(r) ==
  /\ Writes(r, "user.credentials")
  /\ Returns(r, Nothing, "reload")
  /\ UNCHANGED << tables, events, rescoped >>

\* the result is read back by a second statement
Reload(r) ==
  /\ pc[r] = "reload"
  /\ out' = [out EXCEPT ![r] =
       CASE op[r].kind \in {"membership.assign", "membership.unassign"} -> ListRoles(op[r].membership)
         [] op[r].kind \in {"role.grant", "role.revoke"} -> ListPermissions(op[r].role)
         [] op[r].kind = "user.credentials" -> users[op[r].user]]
  /\ Goto(r, "publish")
  /\ UNCHANGED << tables, op, scope, view, logs, seeds >>

Publish(r) ==
  /\ pc[r] = "publish"
  /\ events' = [events EXCEPT ![r] = @ \cup {[type |-> op[r].kind, row |-> out[r]]}]
  /\ Goto(r, "answer")
  /\ UNCHANGED << tables, locals, committed, audits, rescoped, seeds >>

\* (variant: the event is not waited for)
AnswerEarly(r) == pc[r] \in {"publish", "answer"} /\ Proceed(r, "answered")

Answer(r) == pc[r] = "answer" /\ Proceed(r, "answered")

\* AuditInterceptor records after the answer, without being waited for
Audit(r) ==
  /\ pc[r] = "answered"
  /\ audits' = audits \cup {r}
  /\ Goto(r, "audited")
  /\ UNCHANGED << tables, locals, committed, events, rescoped, seeds >>

\* a statement fails (the connection, a unique index) or the process dies
Fail(r) == pc[r] \in {"write", "reload", "publish"} /\ Proceed(r, "failed")
-----------------------------------------------------------------------------
\* the seeds, one statement after the other; role is the role in hand

SeedGoes(step, field) ==
  /\ seed' = [field EXCEPT !.pc = step]
  /\ UNCHANGED << pc, locals, logs >>

Definition == SeededRoles[seed.at]

\* db:seed is started, for the first time or again
SeedStart ==
  /\ seed.pc = "off"
  /\ seed.runs < MaxSeedings
  /\ SeedGoes("catalogue", [seed EXCEPT !.runs = @ + 1])
  /\ UNCHANGED << tables, adopted >>

\* the permissions of the catalogue that are missing, one that an update renamed
\* among them
SeedCatalogue ==
  /\ seed.pc = "catalogue"
  /\ \E at \in Injection({s \in SeededSlugs : ~SlugTaken(s)}, {p \in PermissionIds : permissions[p] = NoSlug}) :
       LET slugOf == AntiFunction(at) IN
       permissions' = [p \in PermissionIds |-> IF p \in DOMAIN slugOf THEN slugOf[p] ELSE permissions[p]]
  /\ SeedGoes("role", seed)
  /\ UNCHANGED << users, memberships, roles, roleGrants, memberRoles, adopted >>

\* the role of the definition: by slug, and by scope except for customer roles;
\* created without a tenant when there is none
SeedRole ==
  /\ seed.pc = "role"
  /\ LET found == {ro \in Stored(roles) : /\ roles[ro].slug = Definition.slug
                                         /\ (Definition.anyScope \/ roles[ro].scope = Definition.scope)}
     IN \/ /\ \E ro \in found : SeedGoes("permissions", [seed EXCEPT !.role = ro])
           /\ UNCHANGED roles
        \/ /\ found = {} /\ ~RoleSlugTaken(Definition.slug, NoTenant)
           /\ \E ro \in Fresh(roles) :
                /\ roles' = [roles EXCEPT ![ro] =
                     [slug |-> Definition.slug, scope |-> Definition.scope, tenant |-> NoTenant]]
                /\ SeedGoes("permissions", [seed EXCEPT !.role = ro])
  /\ UNCHANGED << users, memberships, permissions, roleGrants, memberRoles, adopted >>

\* the administrator gets every permission and loses none
IsAdmin(at) == at = Len(SeededRoles)

NextDefinition(s) ==
  IF IsAdmin(s.at) THEN SeedGoes("user", s) ELSE SeedGoes("role", [s EXCEPT !.at = @ + 1])

SeedPermissions ==
  /\ seed.pc = "permissions"
  /\ LET rows == {p \in PermissionIds : /\ permissions[p] # NoSlug
                                        /\ (IsAdmin(seed.at) \/ permissions[p] \in Definition.slugs)}
     IN IF rows = {} /\ Definition.anyScope
          THEN NextDefinition(seed)
          ELSE SeedGoes(IF IsAdmin(seed.at) THEN "grant" ELSE "revoke", [seed EXCEPT !.rows = rows])
  /\ UNCHANGED << tables, adopted >>

\* the grants of the role are deleted by one statement ...
SeedRevoke ==
  /\ seed.pc = "revoke"
  /\ roleGrants' = {g \in roleGrants : g[1] # seed.role}
  /\ SeedGoes("grant", seed)
  /\ UNCHANGED << users, memberships, roles, permissions, memberRoles, adopted >>

\* ... and inserted by another
SeedGrant ==
  /\ seed.pc = "grant"
  /\ roleGrants' = roleGrants \cup {<< seed.role, p >> : p \in seed.rows}
  /\ NextDefinition([seed EXCEPT !.rows = {}])
  /\ UNCHANGED << users, memberships, roles, permissions, memberRoles, adopted >>

\* the administrator is inserted unless the address is taken, then looked up
SeedUser ==
  /\ seed.pc = "user"
  /\ LET email == [name |-> AdminEmail, lower |-> TRUE] IN
       \/ /\ \E u \in Stored(users) : users[u].email = email /\ SeedGoes("membership", [seed EXCEPT !.user = u])
          /\ UNCHANGED users
       \/ /\ ~EmailTaken(email)
          /\ \E u \in Fresh(users) :
               /\ users' = [users EXCEPT ![u] = [email |-> email, status |-> "ACTIVATED"]]
               /\ SeedGoes("membership", [seed EXCEPT !.user = u])
  /\ UNCHANGED << memberships, roles, permissions, roleGrants, memberRoles, adopted >>

\* any membership of the user will do
SeedMembership ==
  /\ seed.pc = "membership"
  /\ IF RowsOf(seed.user) # {}
       THEN \E m \in RowsOf(seed.user) :
              /\ adopted' = adopted \cup {m}
              /\ SeedGoes("attach", [seed EXCEPT !.membership = m])
       ELSE SeedGoes("newMembership", seed) /\ UNCHANGED adopted
  /\ UNCHANGED tables

SeedNewMembership ==
  /\ seed.pc = "newMembership"
  /\ \E m \in Fresh(memberships) :
       /\ memberships' = [memberships EXCEPT ![m] =
            [user |-> seed.user, tenant |-> NoTenant, company |-> NoCompany, scope |-> "GLOBAL", status |-> "ACTIVE"]]
       /\ SeedGoes("attach", [seed EXCEPT !.membership = m])
  /\ UNCHANGED << users, roles, permissions, roleGrants, memberRoles, adopted >>

SeedAttach ==
  /\ seed.pc = "attach"
  /\ memberRoles' = memberRoles \cup {<< seed.membership, seed.role >>}
  /\ SeedGoes("off", [NoSeed EXCEPT !.runs = seed.runs])
  /\ UNCHANGED << users, memberships, roles, permissions, roleGrants, adopted >>

\* a statement of the seed fails: db:seed stops there
SeedFail ==
  /\ seed.pc # "off"
  /\ SeedGoes("off", [NoSeed EXCEPT !.runs = seed.runs])
  /\ UNCHANGED << tables, adopted >>

Seeding ==
  \/ SeedStart \/ SeedCatalogue \/ SeedRole \/ SeedPermissions \/ SeedRevoke \/ SeedGrant
  \/ SeedUser \/ SeedMembership \/ SeedNewMembership \/ SeedAttach \/ SeedFail

Request(r) ==
  \/ Begin(r) \/ ResolveScope(r) \/ List(r) \/ Context(r) \/ ContextSlugs(r)
  \/ Find(r) \/ Detail(r) \/ Check(r) \/ ReadRole(r)
  \/ CreateMembership(r) \/ AssignRole(r) \/ RemoveRole(r)
  \/ CreateRole(r) \/ UpdateRole(r) \/ AssignPermission(r) \/ RemovePermission(r)
  \/ CreatePermission(r) \/ UpdatePermission(r)
  \/ CreateUser(r) \/ CreateInternalUser(r) \/ UpdateUser(r) \/ UpdateCredentials(r)
  \/ Reload(r) \/ Publish(r) \/ Answer(r) \/ Audit(r) \/ Fail(r)

Next == Seeding \/ \E r \in Requests : Request(r)

Spec == Init /\ [][Next]_vars
-----------------------------------------------------------------------------
Steps == {"idle", "resolve", "refused", "list", "context", "contextSlugs", "find", "detail", "check", "readRole",
          "write", "reload", "publish", "answer", "answered", "audited", "failed", "shown"}
SeedSteps == {"off", "catalogue", "role", "permissions", "revoke", "grant", "user", "membership", "newMembership",
              "attach"}

TypeOK ==
  /\ users \in [UserIds -> UserRow \cup {NoRow}]
  /\ memberships \in [MembershipIds -> MembershipRow \cup {NoRow}]
  /\ roles \in [RoleIds -> RoleRow \cup {NoRow}]
  /\ permissions \in [PermissionIds -> Slugs \cup {NoSlug}]
  /\ roleGrants \subseteq Stored(roles) \X PermissionIds
  /\ memberRoles \subseteq Stored(memberships) \X Stored(roles)
  /\ pc \in [Requests -> Steps]
  /\ op \in [Requests -> Ops \cup {NoOp}]
  /\ committed \subseteq Requests
  /\ audits \subseteq committed
  /\ rescoped \subseteq Stored(roles)
  /\ adopted \subseteq Stored(memberships)
  /\ seed \in [pc : SeedSteps, runs : 0 .. MaxSeedings, at : 1 .. Len(SeededRoles),
               role : Stored(roles) \cup {NoRole}, rows : SUBSET PermissionIds,
               user : Stored(users) \cup {NoUser}, membership : Stored(memberships) \cup {NoMembership}]

\* user a reaches what belongs to the tenant, or to the company
Reaches(a, tenant, company) ==
  \E m \in ActiveOf(a) :
    \/ memberships[m].scope = "GLOBAL"
    \/ memberships[m].tenant = tenant /\ tenant # NoTenant
    \/ company # NoCompany /\ memberships[m].company # NoCompany
       /\ IsPrefix(CompanyPaths[memberships[m].company], CompanyPaths[company])

IsGlobal(a) == \E m \in ActiveOf(a) : memberships[m].scope = "GLOBAL"

\* A global membership appears, and a role becomes global, only by the hand of
\* the seed or of a user who is global already: the scope check of the services
\* (assertTargetScope, assertRoleTargetScope) and validateScope of the
\* repository are both needed, and the role is checked on a stale copy.
GlobalFromGlobal ==
  [][\A r \in Requests : pc'[r] # pc[r] =>
       /\ \A m \in MembershipIds :
            memberships[m] # memberships'[m] /\ memberships'[m].scope = "GLOBAL" => IsGlobal(op[r].actor)
       /\ \A ro \in RoleIds :
            roles[ro] # roles'[ro] /\ roles'[ro].scope = "GLOBAL" =>
              (roles[ro] # NoRow /\ roles[ro].scope = "GLOBAL") \/ IsGlobal(op[r].actor)]_vars

\* Whoever is not global changes only what belongs to a tenant or a company of
\* his memberships: role assignments, users, and grants of roles that were not
\* moved to another tenant between the scoped read and the write.
WritesStayInScope ==
  [][\A r \in Requests : pc'[r] # pc[r] =>
       /\ \A g \in (memberRoles' \ memberRoles) \cup (memberRoles \ memberRoles') :
            g[1] \in Stored(memberships) =>
              Reaches(op[r].actor, memberships[g[1]].tenant, memberships[g[1]].company)
       /\ \A g \in (roleGrants' \ roleGrants) \cup (roleGrants \ roleGrants') :
            g[1] \in rescoped \/ Reaches(op[r].actor, roles[g[1]].tenant, NoCompany)
       /\ \A u \in Stored(users) :
            users'[u] # users[u] =>
              \/ IsGlobal(op[r].actor)
              \/ \E m \in ActiveOf(u) : Reaches(op[r].actor, memberships[m].tenant, memberships[m].company)]_vars

\* A global role hangs on a global membership and a scoped role on a scoped
\* one, unless an update changed the role afterwards or the administrator seed
\* took a scoped membership for its user (memberships.repository.ts:141 checks
\* a role that may change before and after the assignment).
RoleScopesAgree ==
  \A g \in memberRoles :
    \/ g[1] \in adopted
    \/ g[2] \in rescoped
    \/ (memberships[g[1]].scope = "GLOBAL") = (roles[g[2]].scope = "GLOBAL")

\* Whatever case clients type, creations, updates and the seed race for an
\* address, and no two users ever have the same one up to case.
OneUserPerEmail ==
  \A u, v \in Stored(users) :
    u # v => users[u].email.name # users[v].email.name

\* A listing shows a scoped user only rows that his active memberships reach;
\* a user without any sees nothing.
ListsStayInScope ==
  \A r \in Requests : pc[r] = "shown" =>
    /\ op[r].kind = "membership.list" =>
         \A m \in view[r] : Reaches(op[r].actor, memberships[m].tenant, memberships[m].company)
    /\ op[r].kind = "role.list" =>
         \A ro \in view[r] : ro \in rescoped \/ Reaches(op[r].actor, roles[ro].tenant, NoCompany)
    /\ op[r].kind = "user.list" =>
         \A u \in view[r] :
           \/ IsGlobal(op[r].actor)
           \/ \E m \in ActiveOf(u) : Reaches(op[r].actor, memberships[m].tenant, memberships[m].company)

\* the requests whose changes are announced: permissions are not
Announcing == {r \in Requests : op[r].kind \notin {"permission.create", "permission.update"}}

Announcement == INSTANCE DomainEvents WITH
  written <- committed \cap Announcing,
  announced <- {r \in committed : \E e \in events[r] : e.row = out[r]},
  answered <- {r \in committed \cap Announcing : pc[r] \in {"answered", "audited"}},
  audited <- audits

\* Users, memberships and roles keep the promises of DomainEvents: what is
\* answered is in the outbox with the result that is returned, whatever fails.
ImplementsDomainEvents == Announcement!Spec
=============================================================================
